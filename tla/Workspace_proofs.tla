--------------------------- MODULE Workspace_proofs ---------------------------
(***************************************************************************)
(* Copying the repository for the agent and comparing the copy with it,    *)
(* the git the agent sees of the copy, and the publication of an ignored   *)
(* input in it: for any paths and contents, whatever user and agent edit,  *)
(* and for any number of attempts and any failure, death and interleaving. *)
(***************************************************************************)
EXTENDS TaskWorkspace, IgnoredInput, SyntheticGit, SequenceTheorems, TLAPS

(***************************************************************************)
(* TaskWorkspace: what a change set blames the agent for and what may be   *)
(* written back.                                                           *)
(***************************************************************************)

Change == [path : Paths, before : State, after : State,
           scope : {"TARGET", "UNRELATED"}]

WalkRecord ==
    [targets : SUBSET Paths, unlisted : SUBSET Paths, listed : SUBSET Paths,
     files : [Paths -> State]]

ReportRecord ==
    [result : {"none", "permitted"}, changes : SUBSET Change,
     left : SUBSET Paths, blocked : BOOLEAN, seen : [Paths -> State]]

WellFormed ==
    /\ at \in 1..Len(Order)
    /\ pc = "materialize" => at = 1
    /\ source \in [Paths -> State]
    /\ entries \in [Paths -> State]
    /\ baseline \in [Paths -> State]
    /\ \A p \in Ignored : entries[p] = Absent /\ baseline[p] = Absent
    /\ pc \in Materialised \cup {"write"} => workspace \in [Paths -> State]
    /\ walk \in WalkRecord
    /\ changeset.targets \in SUBSET Paths
    /\ report \in ReportRecord

(* The copy is the baseline but for what was written to since.             *)
Copied ==
    /\ pc = "write" =>
          /\ \A i \in 1..(at - 1) : workspace[Order[i]] = baseline[Order[i]]
          /\ \A p \in Ignored : workspace[p] = Absent
    /\ pc \in Materialised =>
          \A p \in Paths \ touched : workspace[p] = baseline[p]

(* What a walk has not come to yet                                         *)
Ahead == walk.unlisted \cup walk.listed

(* What a walk has come to differs from the baseline only where the copy   *)
(* was written to, and, in detect_conflicts, from the copy only where it   *)
(* was written to since.                                                   *)
WalkedTruly ==
    pc \in Walking =>
        /\ \A p \in Ahead : walk.files[p] = Absent
        /\ \A p \in Paths \ (Ahead \cup touched) : walk.files[p] = baseline[p]
        /\ pc = "recompute" =>
              /\ walk.targets = changeset.targets
              /\ \A p \in Paths \ (Ahead \cup meanwhile) :
                    walk.files[p] = workspace[p]

(* The changes are those of what was walked through.                       *)
Found(changes) ==
    \E contents \in [Paths -> State] :
        /\ changes = Changes(baseline, contents, changeset.targets)
        /\ \A p \in Paths \ meanwhile : contents[p] = workspace[p]

(* While the targets are read, what has been found out remains true.       *)
Compared ==
    pc \in {"detect", "permitted"} =>
        /\ Found(report.changes)
        /\ ~report.blocked =>
              /\ confirmed = changeset
              /\ report.changes = changeset.changes
              /\ Scope(report.changes, "UNRELATED") = {}
              /\ \A c \in report.changes : c.path \notin report.left =>
                    ~TargetConflict(c, report.seen[c.path])
        /\ pc = "permitted" => ~report.blocked /\ report.left = {}

WorkspaceInv ==
    /\ WellFormed /\ Copied /\ WalkedTruly /\ Compared
    /\ ChangesAreTheAgents

CaptureStep ==
    \/ ListCandidates \/ ReadStatus \/ CaptureEntry \/ RepeatEntry \/ ListAgain
    \/ FinishBaseline \/ CaptureFails

WalkStep ==
    \/ ComputeChangeset \/ Detect \/ ListPath \/ InspectPath \/ WalkFails
    \/ FinishChangeset

DecisionStep == CompareChangesets \/ ReadTarget \/ Report \/ Confirm

-----------------------------------------------------------------------------
LEMMA OrderListsPaths ==
    /\ Len(Order) \in Nat /\ 1 \in 1..Len(Order)
    /\ \A i \in 1..Len(Order) : Order[i] \in Listed
    /\ \A p \in Listed : \E i \in 1..Len(Order) : p = Order[i]
  BY WorkspaceAssumption, EmptySeq, LenProperties DEF Listed

LEMMA ChangesAreTyped ==
  ASSUME NEW base \in [Paths -> State], NEW contents \in [Paths -> State],
         NEW targets
  PROVE  Changes(base, contents, targets) \in SUBSET Change
  BY DEF Changes, Change

LEMMA RecordsAreTyped ==
  /\ NoFiles \in [Paths -> State] /\ \A p \in Paths : NoFiles[p] = Absent
  /\ NoReport \in ReportRecord
  /\ \A targets, unlisted \in SUBSET Paths :
        Walk(targets, unlisted) \in WalkRecord
  /\ NoWalk \in WalkRecord
<1>1. NoFiles \in [Paths -> State] /\ \A p \in Paths : NoFiles[p] = Absent
  BY DEF NoFiles, State
<1>2. NoReport \in ReportRecord
  BY <1>1 DEF NoReport, ReportRecord
<1>3. \A targets, unlisted \in SUBSET Paths :
          Walk(targets, unlisted) \in WalkRecord
  BY <1>1 DEF Walk, WalkRecord
<1>4. NoWalk \in WalkRecord
  BY <1>3 DEF NoWalk
<1> QED BY <1>1, <1>2, <1>3, <1>4

LEMMA Initially == Init => WorkspaceInv
<1> SUFFICES ASSUME Init PROVE WorkspaceInv
  OBVIOUS
<1>1. NoFiles \in [Paths -> State] /\ \A p \in Paths : NoFiles[p] = Absent
  BY RecordsAreTyped
<1>2. WellFormed
  <2>1. pc = "candidates" /\ "candidates" \notin Materialised \cup {"write"}
    BY DEF Init, Materialised, Walking, Detecting
  <2>2. changeset.targets \in SUBSET Paths
    BY DEF Init, NoChangeSet
  <2>3. walk \in WalkRecord /\ report \in ReportRecord
    BY RecordsAreTyped DEF Init
  <2> QED BY <1>1, <2>1, <2>2, <2>3, OrderListsPaths, WorkspaceAssumption
          DEF Init, WellFormed, Paths
<1>3. Copied /\ Compared /\ WalkedTruly
  BY DEF Init, Copied, Compared, WalkedTruly, Materialised, Walking, Detecting
<1>4. ChangesAreTheAgents
  BY DEF Init, ChangesAreTheAgents, NoChangeSet
<1> QED BY <1>2, <1>3, <1>4 DEF WorkspaceInv

LEMMA AdvanceKeepsRange ==
  ASSUME NEW next, at \in 1..Len(Order), Advance(next)
  PROVE  /\ at' \in 1..Len(Order)
         /\ \/ pc' = pc /\ at' = at + 1
            \/ pc' = next /\ at' = 1 /\ at = Len(Order)
  BY OrderListsPaths DEF Advance

(* The baseline is taken before there is a copy.                           *)
LEMMA CaptureKeeps ==
  ASSUME WorkspaceInv, CaptureStep
  PROVE  WorkspaceInv'
<1>0. WellFormed /\ ChangesAreTheAgents
  BY DEF WorkspaceInv
<1> USE OrderListsPaths
<1>1. NoFiles \in [Paths -> State] /\ \A p \in Paths : NoFiles[p] = Absent
  BY RecordsAreTyped
<1>2. UNCHANGED <<source, workspace, walk, changeset, confirmed, report,
                  touched, meanwhile>>
  BY DEF CaptureStep, ListCandidates, ReadStatus, CaptureEntry, RepeatEntry,
         ListAgain, FinishBaseline, CaptureFails, decision, written
<1>3. pc' \notin Materialised \cup {"write"}
  BY DEF CaptureStep, ListCandidates, ReadStatus, CaptureEntry, RepeatEntry,
         ListAgain, FinishBaseline, CaptureFails, Materialised, Walking,
         Detecting, Capturing, Advance
<1>4. at' \in 1..Len(Order) /\ (pc' = "materialize" => at' = 1)
  BY <1>0, AdvanceKeepsRange
     DEF WellFormed, CaptureStep, ListCandidates, ReadStatus, CaptureEntry,
         RepeatEntry, ListAgain, FinishBaseline, CaptureFails, Capturing,
         Advance
<1>5. /\ entries' \in [Paths -> State]
      /\ \A p \in Ignored : entries'[p] = Absent
  <2>1. CASE CaptureEntry
    <3>1. Order[at] \in Paths /\ Order[at] \notin Ignored
      BY <1>0, WorkspaceAssumption DEF WellFormed, Paths
    <3>2. entries' = [entries EXCEPT ![Order[at]] = source[Order[at]]]
          \/ entries' = entries
      BY <2>1 DEF CaptureEntry
    <3>3. source[Order[at]] \in State /\ entries \in [Paths -> State]
      BY <1>0, <3>1 DEF WellFormed
    <3>4. \A p \in Ignored : entries[p] = Absent /\ p \in Paths
      BY <1>0 DEF WellFormed, Paths
    <3> QED BY <3>1, <3>2, <3>3, <3>4
  <2>2. CASE ~CaptureEntry
    <3>1. entries' = entries \/ entries' = NoFiles
      BY <2>2 DEF CaptureStep, ListCandidates, ReadStatus, RepeatEntry,
                  ListAgain, FinishBaseline, CaptureFails, capture
    <3> QED BY <1>0, <1>1, <3>1 DEF WellFormed, Paths
  <2> QED BY <2>1, <2>2
<1>6. baseline' = baseline \/ baseline' = entries
  BY DEF CaptureStep, ListCandidates, ReadStatus, CaptureEntry, RepeatEntry,
         ListAgain, FinishBaseline, CaptureFails
<1>7. WellFormed'
  BY <1>0, <1>2, <1>3, <1>4, <1>5, <1>6 DEF WellFormed
<1>8. Copied' /\ Compared' /\ WalkedTruly'
  BY <1>3 DEF Copied, Compared, WalkedTruly, Materialised, Walking, Detecting
<1>9. ChangesAreTheAgents'
  BY <1>0, <1>2 DEF ChangesAreTheAgents
<1> QED BY <1>7, <1>8, <1>9 DEF WorkspaceInv

(* The copy is made entry by entry.                                        *)
LEMMA MaterializeKeeps ==
  ASSUME WorkspaceInv, MakeDirectory \/ WriteEntry \/ MaterializeFails
  PROVE  WorkspaceInv'
<1>0. WellFormed /\ Copied /\ ChangesAreTheAgents
  BY DEF WorkspaceInv
<1> USE OrderListsPaths
<1>1. NoFiles \in [Paths -> State] /\ \A p \in Paths : NoFiles[p] = Absent
  BY RecordsAreTyped
<1>2. UNCHANGED <<source, entries, baseline, walk, changeset, confirmed,
                  report, touched, meanwhile>>
  BY DEF MakeDirectory, WriteEntry, MaterializeFails, capture, decision,
         written
<1>3. pc' \notin {"changeset", "recompute", "detect", "permitted"}
  BY DEF MakeDirectory, WriteEntry, MaterializeFails, Advance
<1>4. WellFormed' /\ Copied'
  <2>1. CASE MakeDirectory
    <3>1. /\ at' = 1 /\ pc' \notin Materialised \cup {"materialize"}
          /\ pc' = "write" => workspace' = NoFiles
      BY <1>0, <2>1
         DEF MakeDirectory, WellFormed, Materialised, Walking, Detecting
    <3>2. WellFormed'
      BY <1>0, <1>1, <1>2, <3>1 DEF WellFormed
    <3>3. Copied'
      BY <1>1, <3>1 DEF Copied, Paths
    <3> QED BY <3>2, <3>3
  <2>2. CASE WriteEntry
    <3>1. Order[at] \in Paths /\ pc = "write" /\ Advance("work")
      BY <1>0, <2>2 DEF WellFormed, WriteEntry, Paths
    <3>2. workspace \in [Paths -> State]
      BY <1>0, <3>1 DEF WellFormed
    <3>3. workspace' = [workspace EXCEPT ![Order[at]] = baseline[Order[at]]]
      BY <2>2 DEF WriteEntry
    <3>4. workspace' \in [Paths -> State]
      BY <1>0, <3>1, <3>2, <3>3 DEF WellFormed
    <3>5. \A i \in 1..at : workspace'[Order[i]] = baseline'[Order[i]]
      BY <1>0, <1>2, <3>1, <3>2, <3>3 DEF WellFormed, Copied, Paths
    <3>6. \A p \in Ignored : workspace'[p] = baseline'[p] /\ baseline'[p] = Absent
      BY <1>0, <1>2, <3>1, <3>2, <3>3 DEF WellFormed, Copied, Paths
    <3>7. /\ at' \in 1..Len(Order)
          /\ \/ pc' = "write" /\ at' = at + 1
             \/ pc' = "work" /\ at' = 1 /\ at = Len(Order)
      <4>1. at \in 1..Len(Order)
        BY <1>0 DEF WellFormed
      <4>2. /\ at' \in 1..Len(Order)
            /\ \/ pc' = pc /\ at' = at + 1
               \/ pc' = "work" /\ at' = 1 /\ at = Len(Order)
        BY <3>1, <4>1, AdvanceKeepsRange
      <4> QED BY <3>1, <4>2
    <3>8. WellFormed'
      BY <1>0, <1>2, <3>4, <3>7 DEF WellFormed
    <3>9. pc' = "work" => \A p \in Paths : workspace'[p] = baseline'[p]
      BY <3>5, <3>6, <3>7 DEF Paths
    <3>10. Copied'
      <4>1. at \in Nat
        BY <1>0 DEF WellFormed
      <4>2. pc' = "write" => 1..(at' - 1) = 1..at
        BY <3>7, <4>1
      <4>3. pc' \in Materialised => pc' = "work"
        BY <3>7 DEF Materialised, Walking, Detecting
      <4> QED BY <3>5, <3>6, <3>7, <3>9, <4>2, <4>3 DEF Copied
    <3> QED BY <3>8, <3>10
  <2>3. CASE MaterializeFails
    <3>1. /\ pc' = "materialize" /\ at' = 1
          /\ "materialize" \notin Materialised \cup {"write"}
      BY <2>3 DEF MaterializeFails, Materialised, Walking, Detecting
    <3> QED BY <1>0, <1>2, <3>1, OrderListsPaths DEF WellFormed, Copied
  <2> QED BY <2>1, <2>2, <2>3
<1>5. Compared' /\ WalkedTruly'
  BY <1>3 DEF Compared, WalkedTruly, Walking
<1>6. ChangesAreTheAgents'
  BY <1>0, <1>2 DEF ChangesAreTheAgents
<1> QED BY <1>4, <1>5, <1>6 DEF WorkspaceInv

(* A walk through the copy, entry by entry.                                *)
LEMMA WalkKeeps ==
  ASSUME WorkspaceInv, WalkStep
  PROVE  WorkspaceInv'
<1>0. WellFormed /\ Copied /\ WalkedTruly /\ ChangesAreTheAgents
  BY DEF WorkspaceInv
<1>1. UNCHANGED <<at, source, entries, baseline, workspace, confirmed, report,
                  touched>>
  BY DEF WalkStep, ComputeChangeset, Detect, ListPath, InspectPath, WalkFails,
         FinishChangeset, capture, written
<1>2. /\ pc \in Materialised /\ pc' \in Materialised
      /\ pc' \notin {"detect", "permitted", "materialize", "write"}
  BY DEF WalkStep, ComputeChangeset, Detect, ListPath, InspectPath, WalkFails,
         FinishChangeset, Materialised, Walking, Detecting
<1>3. Copied' /\ Compared'
  BY <1>0, <1>1, <1>2 DEF Copied, Compared
<1>4. /\ workspace \in [Paths -> State] /\ baseline \in [Paths -> State]
      /\ walk \in WalkRecord /\ changeset.targets \in SUBSET Paths
  BY <1>0, <1>2 DEF WellFormed
<1>5. ASSUME walk' \in WalkRecord, changeset'.targets \in SUBSET Paths
      PROVE  WellFormed'
  BY <1>0, <1>1, <1>2, <1>5 DEF WellFormed
<1>6. ASSUME changeset' = changeset
      PROVE  ChangesAreTheAgents'
  BY <1>0, <1>1, <1>6 DEF ChangesAreTheAgents
<1>7. CASE ComputeChangeset \/ Detect
  <2>1. PICK targets \in SUBSET Paths : walk' = Walk(targets, Paths)
    BY <1>4, <1>7, WorkspaceAssumption DEF ComputeChangeset, Detect
  <2>2. walk' \in WalkRecord
    BY <2>1, RecordsAreTyped
  <2>3. /\ walk'.unlisted = Paths /\ walk'.listed = {}
        /\ walk'.files = NoFiles /\ walk'.targets = targets
    BY <2>1 DEF Walk
  <2>4. Ahead' = Paths
    BY <2>3 DEF Ahead
  <2>5. changeset' = changeset
    BY <1>7 DEF ComputeChangeset, Detect
  <2>6. pc' = "recompute" => walk'.targets = changeset'.targets
    BY <1>7, <2>5 DEF ComputeChangeset, Detect, Walk
  <2>7. WalkedTruly'
    BY <2>3, <2>4, <2>6, RecordsAreTyped DEF WalkedTruly
  <2> QED BY <1>3, <1>4, <1>5, <1>6, <2>2, <2>5, <2>7 DEF WorkspaceInv
<1>8. CASE WalkFails
  <2>1. walk' = NoWalk /\ pc' = "work" /\ changeset' = changeset
    BY <1>8 DEF WalkFails
  <2>2. WalkedTruly'
    BY <2>1 DEF WalkedTruly, Walking
  <2> QED BY <1>3, <1>4, <1>5, <1>6, <2>1, <2>2, RecordsAreTyped
          DEF WorkspaceInv
<1>9. CASE FinishChangeset
  <2>1. /\ walk' = NoWalk /\ pc' = "work" /\ pc \in Walking
        /\ changeset' = [targets |-> walk.targets,
                         changes |-> Changes(baseline, walk.files, walk.targets)]
    BY <1>9 DEF FinishChangeset, Walking
  <2>2. /\ changeset'.targets = walk.targets
        /\ changeset'.changes = Changes(baseline, walk.files, walk.targets)
    BY <2>1
  <2>3. WalkedTruly'
    BY <2>1 DEF WalkedTruly, Walking
  <2>4. Ahead = {}
    BY <1>9 DEF FinishChangeset, Walked, Ahead
  <2>5. ASSUME NEW c \in changeset'.changes
        PROVE  c.path \in touched'
    <3>1. c.path \in Paths /\ baseline[c.path] # walk.files[c.path]
      BY <2>2, <2>5 DEF Changes
    <3> QED BY <1>0, <1>1, <2>1, <2>4, <3>1 DEF WalkedTruly
  <2>6. ChangesAreTheAgents'
    BY <2>5 DEF ChangesAreTheAgents
  <2>7. walk.targets \in SUBSET Paths
    BY <1>4 DEF WalkRecord
  <2> QED BY <1>3, <1>5, <2>1, <2>2, <2>3, <2>6, <2>7, RecordsAreTyped
          DEF WorkspaceInv
<1>10. CASE ListPath
  <2>1. PICK p \in walk.unlisted :
          walk' = [walk EXCEPT
                      !.unlisted = @ \ {p},
                      !.listed = IF workspace[p] = Absent THEN @
                                 ELSE @ \cup {p}]
    BY <1>10 DEF ListPath
  <2>2. /\ walk'.unlisted = walk.unlisted \ {p}
        /\ walk'.listed = IF workspace[p] = Absent THEN walk.listed
                          ELSE walk.listed \cup {p}
        /\ walk'.files = walk.files /\ walk'.targets = walk.targets
        /\ walk' \in WalkRecord /\ p \in Paths
    BY <1>4, <2>1 DEF WalkRecord
  <2>3. /\ pc \in Walking
        /\ UNCHANGED <<pc, changeset, meanwhile>>
    BY <1>10 DEF ListPath, written
  <2>4. Ahead' \subseteq Ahead /\ Ahead \subseteq Ahead' \cup {p}
    BY <2>2 DEF Ahead
  <2>5. p \notin Ahead' => workspace[p] = Absent
    BY <2>2 DEF Ahead
  <2>6. walk.files[p] = Absent
    BY <1>0, <2>1, <2>3 DEF WalkedTruly, Ahead
  <2>7. \A q \in Ahead' : walk'.files[q] = Absent
    BY <1>0, <2>2, <2>3, <2>4 DEF WalkedTruly
  <2>8. ASSUME NEW q \in Paths \ (Ahead' \cup touched')
        PROVE  walk'.files[q] = baseline'[q]
    <3>1. CASE q = p
      <4>1. workspace[p] = baseline[p]
        BY <1>0, <1>1, <1>2, <2>8, <3>1 DEF Copied
      <4> QED BY <1>1, <2>2, <2>5, <2>6, <2>8, <3>1, <4>1
    <3>2. CASE q # p
      <4>1. q \in Paths \ (Ahead \cup touched)
        BY <1>1, <2>4, <2>8, <3>2
      <4> QED BY <1>0, <1>1, <2>2, <2>3, <4>1 DEF WalkedTruly
    <3> QED BY <3>1, <3>2
  <2>9. ASSUME pc' = "recompute", NEW q \in Paths \ (Ahead' \cup meanwhile')
        PROVE  walk'.files[q] = workspace'[q]
    <3>1. CASE q = p
      BY <1>1, <2>2, <2>5, <2>6, <2>9, <3>1
    <3>2. CASE q # p
      <4>1. q \in Paths \ (Ahead \cup meanwhile) /\ pc = "recompute"
        BY <2>3, <2>4, <2>9, <3>2
      <4> QED BY <1>0, <1>1, <2>2, <2>3, <4>1 DEF WalkedTruly
    <3> QED BY <3>1, <3>2
  <2>10. pc' = "recompute" => walk'.targets = changeset'.targets
    BY <1>0, <2>2, <2>3 DEF WalkedTruly
  <2>11. WalkedTruly'
    BY <2>7, <2>8, <2>9, <2>10 DEF WalkedTruly
  <2> QED BY <1>3, <1>4, <1>5, <1>6, <2>2, <2>3, <2>11 DEF WorkspaceInv
<1>11. CASE InspectPath
  <2>1. PICK p \in walk.listed :
          walk' = [walk EXCEPT !.listed = @ \ {p}, !.files[p] = workspace[p]]
    BY <1>11 DEF InspectPath
  <2>2. p \in Paths /\ workspace[p] \in State /\ walk.files \in [Paths -> State]
    BY <1>4, <2>1 DEF WalkRecord
  <2>3. /\ walk'.unlisted = walk.unlisted /\ walk'.listed = walk.listed \ {p}
        /\ walk'.files = [walk.files EXCEPT ![p] = workspace[p]]
        /\ walk'.targets = walk.targets
    BY <1>4, <2>1 DEF WalkRecord
  <2>4. walk' \in WalkRecord
    <3>1. walk'.files \in [Paths -> State]
      BY <2>2, <2>3
    <3>2. walk' = [targets |-> walk'.targets, unlisted |-> walk'.unlisted,
                   listed |-> walk'.listed, files |-> walk'.files]
      BY <1>4, <2>1 DEF WalkRecord
    <3>3. /\ walk.targets \in SUBSET Paths /\ walk.unlisted \in SUBSET Paths
          /\ walk.listed \in SUBSET Paths
      BY <1>4 DEF WalkRecord
    <3> QED BY <2>3, <3>1, <3>2, <3>3 DEF WalkRecord
  <2>5. /\ pc \in Walking /\ walk.unlisted = {}
        /\ UNCHANGED <<pc, changeset, meanwhile>>
    BY <1>11 DEF InspectPath, written
  <2>6. Ahead' = Ahead \ {p}
    BY <2>3, <2>5 DEF Ahead
  <2>7. \A q \in Ahead' : walk'.files[q] = Absent
    <3>1. Ahead \subseteq Paths
      BY <1>4 DEF Ahead, WalkRecord
    <3> QED BY <1>0, <2>2, <2>3, <2>5, <2>6, <3>1 DEF WalkedTruly
  <2>8. ASSUME NEW q \in Paths \ (Ahead' \cup touched')
        PROVE  walk'.files[q] = baseline'[q]
    <3>1. CASE q = p
      <4>1. workspace[p] = baseline[p]
        BY <1>0, <1>1, <1>2, <2>8, <3>1 DEF Copied
      <4> QED BY <1>1, <2>2, <2>3, <3>1, <4>1
    <3>2. CASE q # p
      <4>1. q \in Paths \ (Ahead \cup touched)
        BY <1>1, <2>6, <2>8, <3>2
      <4>2. walk'.files[q] = walk.files[q]
        BY <2>2, <2>3, <3>2
      <4> QED BY <1>0, <1>1, <2>5, <4>1, <4>2 DEF WalkedTruly
    <3> QED BY <3>1, <3>2
  <2>9. ASSUME pc' = "recompute", NEW q \in Paths \ (Ahead' \cup meanwhile')
        PROVE  walk'.files[q] = workspace'[q]
    <3>1. CASE q = p
      BY <1>1, <2>2, <2>3, <3>1
    <3>2. CASE q # p
      <4>1. q \in Paths \ (Ahead \cup meanwhile) /\ pc = "recompute"
        BY <2>5, <2>6, <2>9, <3>2
      <4>2. walk'.files[q] = walk.files[q]
        BY <2>2, <2>3, <3>2
      <4> QED BY <1>0, <1>1, <2>5, <4>1, <4>2 DEF WalkedTruly
    <3> QED BY <3>1, <3>2
  <2>10. pc' = "recompute" => walk'.targets = changeset'.targets
    BY <1>0, <2>3, <2>5 DEF WalkedTruly
  <2>11. WalkedTruly'
    BY <2>7, <2>8, <2>9, <2>10 DEF WalkedTruly
  <2> QED BY <1>3, <1>4, <1>5, <1>6, <2>4, <2>5, <2>11 DEF WorkspaceInv
<1> QED BY <1>7, <1>8, <1>9, <1>10, <1>11 DEF WalkStep

(* A change set, and what is compared with it.                             *)
LEMMA DecisionKeeps ==
  ASSUME WorkspaceInv, DecisionStep
  PROVE  WorkspaceInv'
<1>0. WellFormed /\ Copied /\ WalkedTruly /\ Compared /\ ChangesAreTheAgents
  BY DEF WorkspaceInv
<1>1. UNCHANGED <<at, source, entries, baseline, workspace, changeset,
                  touched>>
  BY DEF DecisionStep, CompareChangesets, ReadTarget, Report, Confirm,
         capture, written
<1>2. pc \in Materialised /\ pc' \in {"work", "detect", "permitted"}
  BY DEF DecisionStep, CompareChangesets, ReadTarget, Report, Confirm,
         Materialised, Walking, Detecting
<1>3. /\ pc' \in Materialised /\ pc' \notin Walking
      /\ pc' \notin {"write", "materialize"}
  BY <1>2 DEF Materialised, Walking, Detecting
<1>4. Copied' /\ WalkedTruly' /\ ChangesAreTheAgents'
  BY <1>0, <1>1, <1>2, <1>3 DEF Copied, WalkedTruly, ChangesAreTheAgents
<1>5. walk' \in WalkRecord
  <2>1. walk' = walk \/ walk' = NoWalk
    BY DEF DecisionStep, CompareChangesets, ReadTarget, Report, Confirm
  <2> QED BY <1>0, <2>1, RecordsAreTyped DEF WellFormed
<1>6. ASSUME report' \in ReportRecord
      PROVE  WellFormed'
  BY <1>0, <1>1, <1>2, <1>3, <1>5, <1>6 DEF WellFormed
<1>7. /\ workspace \in [Paths -> State] /\ baseline \in [Paths -> State]
      /\ walk.files \in [Paths -> State]
  BY <1>0, <1>2 DEF WellFormed, WalkRecord
<1>8. CASE CompareChangesets
  <2> DEFINE current == Changes(baseline, walk.files, walk.targets)
             targets == {c.path : c \in Scope(current, "TARGET")}
  <2>1. PICK others \in BOOLEAN :
          report' = [result |-> "none", changes |-> current, left |-> targets,
                     blocked |-> \/ others \/ confirmed # changeset
                                 \/ current # changeset.changes
                                 \/ Scope(current, "UNRELATED") # {},
                     seen |-> NoFiles]
    BY <1>8 DEF CompareChangesets, Recompute
  <2>2. current \in SUBSET Change
    BY <1>7, ChangesAreTyped
  <2>3. targets \in SUBSET Paths
    BY <2>2 DEF Scope, Change
  <2>4. \A c \in current : c.path \in targets \/ c \in Scope(current, "UNRELATED")
    BY <2>2 DEF Scope, Change
  <2>5. /\ UNCHANGED <<confirmed, meanwhile>> /\ pc = "recompute"
        /\ pc' = "detect"
    BY <1>8 DEF CompareChangesets, written
  <2>6. Ahead = {} /\ pc \in Walking
    BY <1>8 DEF CompareChangesets, Walked, Ahead, Walking
  <2>7. /\ walk.targets = changeset.targets
        /\ \A p \in Paths \ meanwhile : walk.files[p] = workspace[p]
    BY <1>0, <2>5, <2>6 DEF WalkedTruly
  <2>8. Found(report.changes)'
    <3>1. report'.changes = Changes(baseline', walk.files, changeset'.targets)
      BY <1>1, <2>1, <2>7
    <3>2. \A p \in Paths \ meanwhile' : walk.files[p] = workspace'[p]
      BY <1>1, <2>5, <2>7
    <3> QED BY <1>7, <3>1, <3>2 DEF Found
  <2> HIDE DEF current, targets
  <2>9. WellFormed'
    <3>1. report' \in ReportRecord
      BY <2>1, <2>2, <2>3, RecordsAreTyped DEF ReportRecord
    <3> QED BY <1>6, <3>1
  <2>10. Compared'
    <3>1. report'.changes = current /\ report'.left = targets
      BY <2>1
    <3>2. ASSUME ~report'.blocked
          PROVE  /\ confirmed' = changeset'
                 /\ current = changeset'.changes
                 /\ Scope(current, "UNRELATED") = {}
      BY <1>1, <2>1, <2>5, <3>2
    <3>3. ASSUME ~report'.blocked
          PROVE  \A c \in current : c.path \in targets
      BY <2>4, <3>2, <3>3
    <3> QED BY <2>5, <2>8, <3>1, <3>2, <3>3 DEF Compared
  <2> QED BY <1>4, <2>9, <2>10 DEF WorkspaceInv
<1>9. CASE ReadTarget
  <2>1. PICK c \in report.changes :
          /\ c.path \in report.left
          /\ report' = [report EXCEPT
                           !.left = @ \ {c.path},
                           !.seen[c.path] = source[c.path],
                           !.blocked = @ \/ TargetConflict(c, source[c.path])]
    BY <1>9 DEF ReadTarget
  <2>2. UNCHANGED <<pc, confirmed, meanwhile>> /\ pc = "detect"
    BY <1>9 DEF ReadTarget, written
  <2>3. c.path \in Paths /\ source[c.path] \in State
    BY <1>0, <2>1 DEF WellFormed, ReportRecord
  <2>4. /\ report'.changes = report.changes
        /\ report'.left = report.left \ {c.path}
        /\ report'.seen = [report.seen EXCEPT ![c.path] = source[c.path]]
        /\ report'.blocked = (report.blocked \/ TargetConflict(c, source[c.path]))
        /\ report'.result = report.result
    BY <1>0, <2>1 DEF WellFormed, ReportRecord
  <2>5. TargetConflict(c, source[c.path]) \in BOOLEAN
    BY DEF TargetConflict, Unsupported
  <2>6. WellFormed'
    <3>1. report'.seen \in [Paths -> State] /\ report'.blocked \in BOOLEAN
      BY <1>0, <2>3, <2>4, <2>5 DEF WellFormed, ReportRecord
    <3> QED BY <1>0, <1>6, <2>1, <2>4, <3>1 DEF WellFormed, ReportRecord
  <2>7. Found(report.changes)
    BY <1>0, <2>2 DEF Compared
  <2>8. \A d \in report.changes : d.path = c.path => d = c
    BY <2>1, <2>7 DEF Changes, Found
  <2>9. ASSUME ~report'.blocked, NEW d \in report.changes,
               d.path \notin report'.left
        PROVE  ~TargetConflict(d, report'.seen[d.path])
    <3>1. ~report.blocked /\ ~TargetConflict(c, source[c.path])
      BY <2>4, <2>9
    <3>2. d.path \in Paths /\ report.seen \in [Paths -> State]
      BY <1>0 DEF WellFormed, Change, ReportRecord
    <3>3. CASE d.path = c.path
      BY <2>3, <2>4, <2>8, <3>1, <3>2, <3>3
    <3>4. CASE d.path # c.path
      <4>1. d.path \notin report.left
        BY <2>4, <2>9, <3>4
      <4>2. report'.seen[d.path] = report.seen[d.path]
        BY <2>4, <3>2, <3>4
      <4> QED BY <1>0, <2>2, <3>1, <4>1, <4>2 DEF Compared
    <3> QED BY <3>3, <3>4
  <2>10. Compared'
    <3>1. Found(report.changes)'
      BY <1>1, <2>2, <2>4, <2>7 DEF Found
    <3>2. ASSUME ~report'.blocked
          PROVE  /\ confirmed' = changeset'
                 /\ report'.changes = changeset'.changes
                 /\ Scope(report'.changes, "UNRELATED") = {}
      <4>1. ~report.blocked
        BY <2>4, <3>2
      <4> QED BY <1>0, <1>1, <2>2, <2>4, <4>1 DEF Compared
    <3>3. pc' # "permitted"
      BY <2>2
    <3> QED BY <2>4, <2>9, <3>1, <3>2, <3>3 DEF Compared
  <2> QED BY <1>4, <2>6, <2>10 DEF WorkspaceInv
<1>10. CASE Report
  <2>1. UNCHANGED confirmed
    BY <1>10 DEF Report
  <2>2. CASE report.blocked
    <3>1. pc' = "work" /\ report' = NoReport
      BY <1>10, <2>2 DEF Report
    <3> QED BY <1>4, <1>6, <3>1, RecordsAreTyped DEF WorkspaceInv, Compared
  <2>3. CASE ~report.blocked
    <3>1. /\ pc' = "permitted" /\ pc = "detect" /\ report.left = {}
          /\ report' = [report EXCEPT !.result = "permitted"]
          /\ UNCHANGED meanwhile
      BY <1>10, <2>3 DEF Report
    <3>2. /\ report'.changes = report.changes /\ report'.left = report.left
          /\ report'.seen = report.seen /\ report'.blocked = report.blocked
          /\ report' \in ReportRecord
      BY <1>0, <3>1 DEF WellFormed, ReportRecord
    <3>3. Found(report.changes)'
      BY <1>0, <1>1, <3>1, <3>2 DEF Compared, Found
    <3>4. Compared'
      BY <1>0, <1>1, <2>1, <2>3, <3>1, <3>2, <3>3 DEF Compared
    <3> QED BY <1>4, <1>6, <3>2, <3>4 DEF WorkspaceInv
  <2> QED BY <2>2, <2>3
<1>11. CASE Confirm
  <2>1. report' = report /\ pc' = "work"
    BY <1>11 DEF Confirm
  <2>2. report' \in ReportRecord
    BY <1>0, <2>1 DEF WellFormed
  <2> QED BY <1>4, <1>6, <2>1, <2>2 DEF WorkspaceInv, Compared
<1> QED BY <1>8, <1>9, <1>10, <1>11 DEF DecisionStep

(* The user edits the repository, the agent its copy.                      *)
LEMMA EditsKeep ==
  ASSUME WorkspaceInv, UserEdits \/ AgentEdits \/ PublishIgnored
  PROVE  WorkspaceInv'
<1>0. WellFormed /\ Copied /\ WalkedTruly /\ Compared /\ ChangesAreTheAgents
  BY DEF WorkspaceInv
<1>1. UNCHANGED <<pc, at, entries, baseline, walk, changeset, confirmed,
                  report>>
  BY DEF UserEdits, AgentEdits, PublishIgnored, capture, decision
<1>2. CASE UserEdits
  <2>1. UNCHANGED <<workspace, touched, meanwhile>>
    BY <1>2 DEF UserEdits, written
  <2>2. source' \in [Paths -> State]
    BY <1>0, <1>2 DEF WellFormed, UserEdits, State, Paths
  <2>3. WellFormed'
    BY <1>0, <1>1, <2>1, <2>2 DEF WellFormed
  <2>4. Copied' /\ ChangesAreTheAgents'
    BY <1>0, <1>1, <2>1 DEF Copied, ChangesAreTheAgents
  <2>5. WalkedTruly'
    BY <1>0, <1>1, <2>1 DEF WalkedTruly, Ahead
  <2>6. Compared'
    BY <1>0, <1>1, <2>1 DEF Compared, Found
  <2> QED BY <2>3, <2>4, <2>5, <2>6 DEF WorkspaceInv
<1>3. CASE AgentEdits \/ PublishIgnored
  <2>1. pc \in Materialised /\ UNCHANGED source
    BY <1>3 DEF AgentEdits, PublishIgnored
  <2>2. workspace \in [Paths -> State] /\ pc # "write"
    BY <1>0, <2>1 DEF WellFormed, Materialised, Walking, Detecting
  <2>3. PICK p \in Paths, c \in State : Write(p, c)
    <3>1. CASE AgentEdits
      BY <3>1, WorkspaceAssumption DEF AgentEdits, Paths, State
    <3>2. CASE PublishIgnored
      BY <1>0, <3>2 DEF PublishIgnored, WellFormed, Paths
    <3> QED BY <1>3, <3>1, <3>2
  <2>4. /\ workspace' \in [Paths -> State]
        /\ \A q \in Paths \ {p} : workspace'[q] = workspace[q]
        /\ touched' = touched \cup {p}
        /\ pc \in Detecting => meanwhile' = meanwhile \cup {p}
    BY <2>2, <2>3 DEF Write
  <2>5. WellFormed'
    BY <1>0, <1>1, <2>1, <2>4 DEF WellFormed
  <2>6. Copied'
    BY <1>0, <1>1, <2>1, <2>2, <2>4 DEF Copied
  <2>7. WalkedTruly'
    <3>1. Ahead' = Ahead
      BY <1>1 DEF Ahead
    <3>2. pc = "recompute" => meanwhile' = meanwhile \cup {p}
      BY <2>4 DEF Detecting
    <3> QED BY <1>0, <1>1, <2>4, <3>1, <3>2 DEF WalkedTruly
  <2>8. ASSUME pc \in {"detect", "permitted"}
        PROVE  Found(report.changes)'
    <3>1. meanwhile' = meanwhile \cup {p}
      BY <2>4, <2>8 DEF Detecting
    <3>2. Found(report.changes)
      BY <1>0, <2>8 DEF Compared
    <3> QED BY <1>1, <2>4, <3>1, <3>2 DEF Found
  <2>9. Compared'
    BY <1>0, <1>1, <2>8 DEF Compared
  <2>10. ChangesAreTheAgents'
    BY <1>0, <1>1, <2>4 DEF ChangesAreTheAgents
  <2> QED BY <2>5, <2>6, <2>7, <2>9, <2>10 DEF WorkspaceInv
<1> QED BY <1>2, <1>3

LEMMA WorkspaceInvariant == Spec => []WorkspaceInv
<1>1. Init => WorkspaceInv
  BY Initially
<1>2. WorkspaceInv /\ [Next]_vars => WorkspaceInv'
  <2> SUFFICES ASSUME WorkspaceInv, [Next]_vars PROVE WorkspaceInv'
    OBVIOUS
  <2>1. CASE CaptureStep
    BY <2>1, CaptureKeeps
  <2>2. CASE MakeDirectory \/ WriteEntry \/ MaterializeFails
    BY <2>2, MaterializeKeeps
  <2>3. CASE WalkStep
    BY <2>3, WalkKeeps
  <2>4. CASE DecisionStep
    BY <2>4, DecisionKeeps
  <2>5. CASE UserEdits \/ AgentEdits \/ PublishIgnored
    BY <2>5, EditsKeep
  <2>6. CASE UNCHANGED vars
    BY <2>6 DEF vars, capture, decision, written, WorkspaceInv, WellFormed,
                Copied, WalkedTruly, Ahead, Compared, Found,
                ChangesAreTheAgents
  <2> QED BY <2>1, <2>2, <2>3, <2>4, <2>5, <2>6
          DEF Next, CaptureStep, WalkStep, DecisionStep
<1> QED BY <1>1, <1>2, PTL DEF Spec

-----------------------------------------------------------------------------
(* Whatever the user edits and whatever failed before, every change of a   *)
(* change set is of a path that was written to in the workspace.           *)
THEOREM AgentIsToBlame == Spec => []ChangesAreTheAgents
<1>1. WorkspaceInv => ChangesAreTheAgents
  BY DEF WorkspaceInv
<1> QED BY <1>1, WorkspaceInvariant, PTL

(* What may be written back is what the user confirmed, within the target  *)
(* paths, and what the workspace holds of every path but those written to  *)
(* since detect_conflicts was called, whatever the agent writes during the *)
(* walks and between them.                                                 *)
THEOREM PermissionIsConfirmed == Spec => []PermittedIsConfirmed
<1>1. WorkspaceInv => PermittedIsConfirmed
  <2> SUFFICES ASSUME WorkspaceInv, pc = "permitted" PROVE PermittedIsConfirmed
    BY DEF PermittedIsConfirmed
  <2>1. /\ confirmed = changeset /\ report.changes = confirmed.changes
        /\ Scope(confirmed.changes, "UNRELATED") = {}
        /\ Found(confirmed.changes)
    BY DEF WorkspaceInv, Compared
  <2>2. PICK contents \in [Paths -> State] :
          /\ confirmed.changes
               = Changes(baseline, contents, confirmed.targets)
          /\ \A p \in Paths \ meanwhile : contents[p] = workspace[p]
    BY <2>1 DEF Found
  <2>3. \A c \in confirmed.changes :
          c.path \in confirmed.targets \/ c.scope = "UNRELATED"
    BY <2>2 DEF Changes
  <2>4. \A c \in confirmed.changes : c.path \in confirmed.targets
    BY <2>1, <2>3 DEF Scope
  <2>5. ASSUME NEW p \in Paths \ meanwhile
        PROVE  {c.after : c \in {d \in confirmed.changes : d.path = p}}
                  = {workspace[p]} \ {baseline[p]}
    <3> DEFINE change(q) ==
                 [path |-> q, before |-> baseline[q], after |-> contents[q],
                  scope |-> IF q \in confirmed.targets THEN "TARGET"
                            ELSE "UNRELATED"]
    <3>1. confirmed.changes
            = {change(q) : q \in {r \in Paths : baseline[r] # contents[r]}}
      BY <2>2 DEF Changes
    <3>2. /\ \A q : change(q).path = q /\ change(q).after = contents[q]
          /\ contents[p] = workspace[p]
      BY <2>2
    <3> HIDE DEF change
    <3>3. {d \in confirmed.changes : d.path = p}
            = IF baseline[p] = workspace[p] THEN {} ELSE {change(p)}
      BY <3>1, <3>2
    <3> QED BY <3>2, <3>3
  <2> QED BY <2>1, <2>4, <2>5 DEF PermittedIsConfirmed
<1> QED BY <1>1, WorkspaceInvariant, PTL

(* Each target, when it was looked at, was as the baseline or the agent    *)
(* has it: nothing the user wrote since is replaced.                       *)
THEOREM UserWorkIsKept == Spec => []NothingNewReplaced
<1>1. WorkspaceInv => NothingNewReplaced
  <2> SUFFICES ASSUME WorkspaceInv, pc = "permitted", NEW c \in report.changes
               PROVE  report.seen[c.path] \in
                        {Absent, c.after} \cup
                        (IF c.path \in Ignored THEN {} ELSE {baseline[c.path]})
    BY DEF NothingNewReplaced
  <2>1. ~TargetConflict(c, report.seen[c.path])
    BY DEF WorkspaceInv, Compared
  <2>2. c.before = baseline[c.path]
    BY DEF WorkspaceInv, Compared, Found, Changes
  <2> QED BY <2>1, <2>2 DEF TargetConflict, Unsupported
<1> QED BY <1>1, WorkspaceInvariant, PTL

(***************************************************************************)
(* TaskWorkspace: a baseline is of one moment. The last three states the   *)
(* repository was in, the stages, explain what a capture has read so far:  *)
(* each read was at one of them, and in the order of the passes.           *)
(***************************************************************************)

(* The part of the invariant of the copy that the capture's needs.         *)
Sound ==
    /\ at \in 1..Len(Order) /\ source \in [Paths -> State]
    /\ entries \in [Paths -> State]

Now == [r \in Listed |-> source[r]]

(* The repository before, between and after the user's last two edits.     *)
Moment(before, between, k) ==
    IF k = 0 THEN before ELSE IF k = 1 THEN between ELSE Now

(* The two paths cannot have been as they were read at one moment.         *)
Torn(before, between, first, second) ==
    /\ first # second /\ {first, second} \subseteq Recorded
    /\ entries[first] = before[first] /\ before[first] # source[first]
    /\ entries[second] = source[second] /\ source[second] # between[second]

(* The paths the second pass has still to read                             *)
Unrepeated ==
    {Order[k] : k \in {i \in DOMAIN Order :
                          pc = "pass" \/ (pc = "repeat" /\ i >= at)}}

(* The last two edits, of first and then of second, and the stages at      *)
(* which the candidates and the status were read                           *)
Course(before, between, first, second, g, h) ==
    /\ before \in [Listed -> State] /\ between \in [Listed -> State]
    /\ first \in Listed /\ second \in Listed
    /\ g \in 0..2 /\ h \in 0..2
    /\ edits <= 1 => before = between
    /\ edits = 0 => between = Now
    /\ \A r \in Listed : r # first => before[r] = between[r]
    /\ \A r \in Listed : r # second => between[r] = source[r]

(* What was read when                                                      *)
ReadInOrder(before, between, g, h) ==
    /\ pc # "candidates" =>
          git.candidates = Candidates(Moment(before, between, g))
    /\ pc \notin {"candidates", "status"} =>
          g <= h /\ git.status = Status(Moment(before, between, h))
    /\ \A r \in Recorded :
          IF r \in git.candidates
          THEN \E k \in h..2 : entries[r] = Moment(before, between, k)[r]
          ELSE entries[r] = Absent

Remembered(before, between) ==
    \A m \in {before, between, Now} :
        (\A r \in Recorded : m[r] = entries[r]) => m \in moments

Noticed(before, between, first, second) ==
    Torn(before, between, first, second) =>
        /\ entries[first] # Absent /\ equal => first \in Unrepeated
        /\ pc = "status again" /\ equal => git.candidates = Candidates(source)

Explained(before, between, first, second, g, h) ==
    /\ Course(before, between, first, second, g, h)
    /\ ReadInOrder(before, between, g, h)
    /\ Remembered(before, between)
    /\ Noticed(before, between, first, second)

SnapshotInv ==
    /\ edits \in Nat /\ equal \in BOOLEAN
    /\ BaselineIsASnapshot
    /\ pc \in Capturing => \A r \in Listed \ Recorded : entries[r] = Absent
    /\ pc \in Capturing /\ edits <= 2 =>
          \E before, between \in [Listed -> State], first, second \in Listed,
             g, h \in 0..2 :
              Explained(before, between, first, second, g, h)

-----------------------------------------------------------------------------
LEMMA PathsFromOrder ==
  /\ Listed \subseteq Paths
  /\ DOMAIN Order = 1..Len(Order)
  /\ \A i, j \in 1..Len(Order) : Order[i] = Order[j] => i = j
BY WorkspaceAssumption, LenProperties DEF Paths

LEMMA StartsAsSnapshot ==
  ASSUME Init, TearingEdits \in Nat
  PROVE  SnapshotInv
<1> DEFINE p == Order[1]
<1>1. source \in [Paths -> State] /\ Now \in [Listed -> State] /\ p \in Listed
  BY PathsFromOrder, OrderListsPaths DEF Init, Now
<1>2. Recorded = {} /\ entries = NoFiles /\ moments = {Now} /\ edits = 0 /\ pc = "candidates"
  BY DEF Init, Recorded, Now
<1>3. Course(Now, Now, p, p, 0, 0)
  BY <1>1, <1>2 DEF Course, Now
<1>4. ReadInOrder(Now, Now, 0, 0) /\ Remembered(Now, Now)
      /\ Noticed(Now, Now, p, p)
  BY <1>2 DEF ReadInOrder, Remembered, Noticed, Torn
<1>5. edits \in Nat /\ equal \in BOOLEAN /\ BaselineIsASnapshot
  BY DEF Init, BaselineIsASnapshot
<1>6. \A r \in Listed : entries[r] = Absent
  BY <1>2, PathsFromOrder DEF NoFiles
<1> QED
  BY <1>1, <1>3, <1>4, <1>5, <1>6 DEF SnapshotInv, Explained

(* The step that records a path.                                           *)
LEMMA CaptureRecords ==
  ASSUME Sound, CaptureEntry
  PROVE  /\ Order[at] \in Listed /\ Order[at] \notin Recorded
         /\ Recorded' = Recorded \cup {Order[at]}
         /\ \A r \in Recorded : entries'[r] = entries[r]
         /\ pc' \in {"pass", "repeat"}
         /\ \A r \in Listed : r \in Unrepeated'
<1>1. /\ at \in 1..Len(Order) /\ pc = "pass"
      /\ \/ at < Len(Order) /\ at' = at + 1 /\ pc' = "pass"
         \/ at = Len(Order) /\ at' = 1 /\ pc' = "repeat"
  BY OrderListsPaths DEF Sound, CaptureEntry, Advance
<1>2. Recorded = {Order[k] : k \in {i \in 1..Len(Order) : i < at}}
  BY <1>1, PathsFromOrder DEF Recorded
<1>3. Recorded' = {Order[k] : k \in {i \in 1..Len(Order) : i < at + 1}}
  <2>1. CASE pc' = "pass"
    BY <1>1, <2>1, PathsFromOrder DEF Recorded
  <2>2. CASE pc' = "repeat"
    <3>1. Recorded' = {Order[k] : k \in 1..Len(Order)}
      BY <2>2, PathsFromOrder DEF Recorded
    <3>2. {i \in 1..Len(Order) : i < at + 1} = 1..Len(Order)
      BY <1>1, <2>2, OrderListsPaths
    <3> QED
      BY <3>1, <3>2
  <2> QED
    BY <1>1, <2>1, <2>2
<1>4. Order[at] \in Listed /\ Order[at] \notin Recorded
  <2>1. ASSUME NEW k \in 1..Len(Order), k < at
        PROVE  Order[k] # Order[at]
    <3>1. k # at /\ at \in 1..Len(Order)
      BY <1>1, <2>1
    <3> QED
      BY <3>1, PathsFromOrder
  <2> QED
    BY <1>1, <1>2, <2>1, OrderListsPaths
<1>5. Recorded' = Recorded \cup {Order[at]}
  BY <1>1, <1>2, <1>3
<1>6. \A r \in Recorded : entries'[r] = entries[r]
  <2>1. Recorded \subseteq Paths /\ entries \in [Paths -> State]
    BY <1>2, PathsFromOrder, OrderListsPaths DEF Sound
  <2> QED
    BY <2>1, <1>4 DEF CaptureEntry
<1>7. \A r \in Listed : r \in Unrepeated'
  <2>1. Unrepeated' = {Order[k] : k \in 1..Len(Order)}
    <3>1. {i \in 1..Len(Order) : pc' = "pass" \/ (pc' = "repeat" /\ i >= at')}
            = 1..Len(Order)
      <4>1. pc' = "pass" \/ (pc' = "repeat" /\ at' = 1)
        BY <1>1
      <4> QED
        BY <4>1
    <3> QED
      BY <3>1, PathsFromOrder DEF Unrepeated
  <2> QED
    BY <2>1, OrderListsPaths
<1> QED
  BY <1>1, <1>4, <1>5, <1>6, <1>7

LEMMA CaptureKeepsSnapshot ==
  ASSUME SnapshotInv, Sound, CaptureEntry
  PROVE  SnapshotInv'
<1> DEFINE p == Order[at]
<1>1. /\ pc = "pass" /\ pc' \in {"pass", "repeat"} /\ pc \in Capturing
      /\ UNCHANGED <<source, git, equal, edits, tear>>
      /\ moments' = {m \in moments : m[p] = entries'[p]}
      /\ entries' = IF p \in git.candidates
                    THEN [entries EXCEPT ![p] = source[p]] ELSE entries
  BY CaptureRecords DEF CaptureEntry, Capturing
<1>2. /\ p \in Listed /\ p \notin Recorded
      /\ Recorded' = Recorded \cup {p}
      /\ \A r \in Recorded : entries'[r] = entries[r]
  BY CaptureRecords
<1>3. ASSUME edits <= 2,
             NEW a \in [Listed -> State], NEW b \in [Listed -> State],
             NEW first \in Listed, NEW second \in Listed,
             NEW g \in 0..2, NEW h \in 0..2,
             Explained(a, b, first, second, g, h)
      PROVE  Explained(a, b, first, second, g, h)'
  <2> USE <1>3 DEF Explained
  <2>1. Now' = Now /\ \A k : Moment(a, b, k)' = Moment(a, b, k)
    BY <1>1 DEF Now, Moment
  <2>2. Course(a, b, first, second, g, h)'
    BY <1>1, <1>3, <2>1 DEF Course
  <2>3. entries'[p] = IF p \in git.candidates THEN source[p] ELSE Absent
    <3>1. entries[p] = Absent /\ entries \in [Paths -> State] /\ p \in Paths
      BY <1>1, <1>2, PathsFromOrder DEF SnapshotInv, Sound
    <3> QED
      BY <1>1, <3>1
  <2>4. ReadInOrder(a, b, g, h)'
    <3>1. /\ git.candidates = Candidates(Moment(a, b, g))
          /\ g <= h /\ git.status = Status(Moment(a, b, h))
      BY <1>1, <1>3 DEF ReadInOrder
    <3>2. ASSUME NEW r \in Recorded'
          PROVE  IF r \in git.candidates
                 THEN \E k \in h..2 : entries'[r] = Moment(a, b, k)[r]
                 ELSE entries'[r] = Absent
      <4>1. CASE r \in Recorded
        BY <1>2, <1>3, <4>1 DEF ReadInOrder
      <4>2. CASE r = p
        <5>1. Moment(a, b, 2)[p] = source[p]
          BY <1>2 DEF Moment, Now
        <5>2. 2 \in h..2
          BY <1>3
        <5> QED
          BY <2>3, <4>2, <5>1, <5>2
      <4> QED
        BY <1>2, <3>2, <4>1, <4>2
    <3> QED
      BY <1>1, <2>1, <3>1, <3>2 DEF ReadInOrder
  <2>5. Remembered(a, b)'
    <3>1. ASSUME NEW m \in {a, b, Now}, \A r \in Recorded' : m[r] = entries'[r]
          PROVE  m \in moments'
      BY <1>1, <1>2, <1>3, <3>1 DEF Remembered
    <3> QED
      BY <2>1, <3>1 DEF Remembered
  <2>6. Noticed(a, b, first, second)'
    BY <1>1, <1>3, CaptureRecords DEF Noticed
  <2> QED
    BY <2>2, <2>4, <2>5, <2>6
<1>4. \A r \in Listed \ Recorded' : entries'[r] = Absent
  BY <1>1, <1>2, PathsFromOrder DEF SnapshotInv, Sound
<1>5. edits' \in Nat /\ equal' \in BOOLEAN /\ BaselineIsASnapshot'
  BY <1>1 DEF SnapshotInv, BaselineIsASnapshot
<1>6. pc' \in Capturing
  BY <1>1 DEF Capturing
<1>7. ASSUME edits' <= 2
      PROVE  \E a, b \in [Listed -> State], first, second \in Listed,
                g, h \in 0..2 :
                 Explained(a, b, first, second, g, h)'
  BY <1>1, <1>3, <1>7 DEF SnapshotInv
<1> QED
  BY <1>4, <1>5, <1>6, <1>7 DEF SnapshotInv

(* The subprocesses of git before the first pass.                          *)
LEMMA GitKeepsSnapshot ==
  ASSUME SnapshotInv, Sound, ListCandidates \/ ReadStatus
  PROVE  SnapshotInv'
<1>1. /\ pc \in {"candidates", "status"} /\ pc' \in {"status", "pass"}
      /\ pc = "candidates" <=> pc' = "status"
      /\ pc = "status" => at' = 1
      /\ UNCHANGED <<source, entries, equal, moments, edits, tear>>
  BY DEF ListCandidates, ReadStatus
<1>2. Recorded = {} /\ Recorded' = {}
  <2>1. Recorded = {}
    BY <1>1 DEF Recorded
  <2>2. CASE pc = "candidates"
    BY <1>1, <2>2 DEF Recorded
  <2>3. CASE pc = "status"
    <3>1. {i \in 1..Len(Order) : i < at'} = {}
      BY <1>1, <2>3, OrderListsPaths
    <3> QED
      BY <1>1, <2>1, <2>3, <3>1, PathsFromOrder DEF Recorded
  <2> QED
    BY <1>1, <2>1, <2>2, <2>3
<1>3. ASSUME edits <= 2,
             NEW a \in [Listed -> State], NEW b \in [Listed -> State],
             NEW first \in Listed, NEW second \in Listed,
             NEW g \in 0..2, NEW h \in 0..2,
             Explained(a, b, first, second, g, h)
      PROVE  \E i \in 0..2, k \in 0..2 :
                Explained(a, b, first, second, i, k)'
  <2>1. Now' = Now /\ (\A k : Moment(a, b, k)' = Moment(a, b, k))
        /\ Moment(a, b, 2) = Now
    BY <1>1 DEF Now, Moment
  <2>2. Candidates(source) = Candidates(Now) /\ Status(source) = Status(Now)
    BY DEF Candidates, Status, Now
  <2>3. \A i, k \in 0..2 : Course(a, b, first, second, i, k)'
    BY <1>1, <1>3, <2>1 DEF Explained, Course
  <2>4. Remembered(a, b)' /\ Noticed(a, b, first, second)'
    BY <1>1, <1>2, <1>3, <2>1 DEF Explained, Remembered, Noticed, Torn
  <2>5. CASE ListCandidates
    <3>1. ReadInOrder(a, b, 2, 2)'
      BY <1>1, <1>2, <2>1, <2>2, <2>5 DEF ListCandidates, ReadInOrder
    <3> QED
      BY <2>3, <2>4, <3>1 DEF Explained
  <2>6. CASE ReadStatus
    <3>1. ReadInOrder(a, b, g, 2)'
      BY <1>1, <1>2, <1>3, <2>1, <2>2, <2>6 DEF ReadStatus, ReadInOrder, Explained
    <3> QED
      BY <2>3, <2>4, <3>1 DEF Explained
  <2> QED
    BY <2>5, <2>6
<1>4. \A r \in Listed \ Recorded' : entries'[r] = Absent
  BY <1>1, <1>2 DEF SnapshotInv, Capturing
<1>5. edits' \in Nat /\ equal' \in BOOLEAN /\ BaselineIsASnapshot'
  BY <1>1 DEF SnapshotInv, BaselineIsASnapshot
<1>6. ASSUME edits' <= 2
      PROVE  \E a, b \in [Listed -> State], first, second \in Listed,
                g, h \in 0..2 :
                 Explained(a, b, first, second, g, h)'
  BY <1>1, <1>3, <1>6 DEF SnapshotInv, Capturing
<1> QED
  BY <1>4, <1>5, <1>6 DEF SnapshotInv

(* The second pass, and the candidates listed again.                       *)
LEMMA SecondLookKeepsSnapshot ==
  ASSUME SnapshotInv, Sound, RepeatEntry \/ ListAgain
  PROVE  SnapshotInv'
<1>1. /\ pc \in {"repeat", "candidates again"} /\ at \in 1..Len(Order)
      /\ pc' \in {"repeat", "candidates again", "status again"}
      /\ UNCHANGED <<source, git, entries, moments, edits, tear>>
      /\ equal' \in BOOLEAN /\ (equal' => equal)
  <2>1. equal \in BOOLEAN /\ at \in 1..Len(Order)
    BY DEF SnapshotInv, Sound
  <2>2. CASE RepeatEntry
    <3>1. \/ equal' = equal
          \/ equal' = (equal /\ source[Order[at]] = entries[Order[at]])
      BY <2>2 DEF RepeatEntry
    <3>2. equal' \in BOOLEAN /\ (equal' => equal)
      <4>1. CASE equal' = equal
        BY <2>1, <4>1
      <4>2. CASE equal' = (equal /\ source[Order[at]] = entries[Order[at]])
        <5>1. equal' \in BOOLEAN
          BY <4>2
        <5>2. equal' => equal
          BY <4>2
        <5> QED
          BY <5>1, <5>2
      <4> QED
        BY <3>1, <4>1, <4>2
    <3>3. /\ pc = "repeat" /\ pc' \in {"repeat", "candidates again"}
          /\ UNCHANGED <<source, git, entries, moments, edits, tear>>
      BY <2>2 DEF RepeatEntry, Advance
    <3> QED
      BY <2>1, <3>2, <3>3
  <2>3. CASE ListAgain
    BY <2>1, <2>3 DEF ListAgain
  <2> QED
    BY <2>2, <2>3
<1>2. Recorded' = Recorded
  BY <1>1 DEF Recorded
<1>3. ASSUME edits <= 2,
             NEW a \in [Listed -> State], NEW b \in [Listed -> State],
             NEW first \in Listed, NEW second \in Listed,
             NEW g \in 0..2, NEW h \in 0..2,
             Explained(a, b, first, second, g, h)
      PROVE  Explained(a, b, first, second, g, h)'
  <2> USE <1>3 DEF Explained
  <2>1. Now' = Now /\ \A k : Moment(a, b, k)' = Moment(a, b, k)
    BY <1>1 DEF Now, Moment
  <2>2. Course(a, b, first, second, g, h)' /\ Remembered(a, b)'
    BY <1>1, <1>2, <2>1 DEF Course, Remembered
  <2>3. ReadInOrder(a, b, g, h)'
    BY <1>1, <1>2, <2>1 DEF ReadInOrder
  <2>4. Noticed(a, b, first, second)'
    <3>1. SUFFICES ASSUME Torn(a, b, first, second)', equal'
          PROVE  /\ entries[first] # Absent => first \in Unrepeated'
                 /\ pc' = "status again" =>
                       git.candidates = Candidates(source)
      BY <1>1 DEF Noticed
    <3>2. Torn(a, b, first, second)
      BY <1>1, <1>2, <3>1 DEF Torn
    <3>3. entries[first] # source[first]
      BY <3>2 DEF Torn
    <3>4. entries[first] # Absent => first \in Unrepeated
      BY <1>1, <3>1, <3>2 DEF Noticed
    <3>5. CASE RepeatEntry
      <4>1. pc = "repeat" /\ pc' \in {"repeat", "candidates again"}
        BY <3>5 DEF RepeatEntry, Advance
      <4>2. ASSUME entries[first] # Absent
            PROVE  first \in Unrepeated'
        <5>1. PICK i \in 1..Len(Order) : i >= at /\ first = Order[i]
          BY <3>4, <4>1, <4>2, PathsFromOrder DEF Unrepeated
        <5>2. Order[at] # first
          BY <3>1, <3>3, <3>5, <4>2 DEF RepeatEntry
        <5>3. i >= at + 1 /\ at < Len(Order)
          <6>1. i # at /\ at \in 1..Len(Order) /\ Len(Order) \in Nat
            BY <1>1, <5>1, <5>2, OrderListsPaths
          <6> QED
            BY <5>1, <6>1
        <5>4. pc' = "repeat" /\ at' = at + 1
          BY <3>5, <4>1, <5>3 DEF RepeatEntry, Advance
        <5> QED
          BY <5>1, <5>3, <5>4, PathsFromOrder DEF Unrepeated
      <4> QED
        BY <4>1, <4>2
    <3>6. CASE ListAgain
      <4>1. Unrepeated = {}
        BY <3>6 DEF ListAgain, Unrepeated
      <4> QED
        BY <3>1, <3>4, <3>6, <4>1 DEF ListAgain
    <3> QED
      BY <3>5, <3>6
  <2> QED
    BY <2>2, <2>3, <2>4
<1>4. \A r \in Listed \ Recorded' : entries'[r] = Absent
  BY <1>1, <1>2 DEF SnapshotInv, Capturing
<1>5. edits' \in Nat /\ BaselineIsASnapshot'
  BY <1>1 DEF SnapshotInv, BaselineIsASnapshot
<1>6. ASSUME edits' <= 2
      PROVE  \E a, b \in [Listed -> State], first, second \in Listed,
                g, h \in 0..2 :
                 Explained(a, b, first, second, g, h)'
  <2>1. edits <= 2 /\ pc \in Capturing
    BY <1>1, <1>6 DEF Capturing
  <2> QED
    BY <1>3, <2>1 DEF SnapshotInv
<1> QED
  BY <1>1, <1>4, <1>5, <1>6 DEF SnapshotInv

(* Whatever was read was there at one of the stages.                       *)
LEMMA ReadAtAStage ==
  ASSUME NEW a, NEW b, NEW first, NEW second, NEW g, NEW h,
         Explained(a, b, first, second, g, h), NEW r \in Recorded
  PROVE  r \in Listed /\ entries[r] \in {a[r], b[r], source[r]}
<1>1. r \in Listed /\ pc # "candidates"
  BY DEF Recorded, Listed
<1>2. /\ git.candidates = Candidates(Moment(a, b, g))
      /\ IF r \in git.candidates
         THEN \E k \in h..2 : entries[r] = Moment(a, b, k)[r]
         ELSE entries[r] = Absent
  BY <1>1 DEF Explained, ReadInOrder
<1>3. \A k : Moment(a, b, k)[r] \in {a[r], b[r], source[r]}
  BY <1>1 DEF Moment, Now
<1>4. CASE r \in git.candidates
  BY <1>1, <1>2, <1>3, <1>4
<1>5. CASE r \notin git.candidates
  <2>1. Moment(a, b, g)[r] = Absent /\ entries[r] = Absent
    BY <1>1, <1>2, <1>5 DEF Candidates
  <2> QED
    BY <1>1, <1>3, <2>1
<1> QED
  BY <1>4, <1>5

LEMMA FirstStage ==
  ASSUME NEW g \in 0..2, NEW h \in 0..2, g <= h, NEW k \in h..2, k = 0
  PROVE  h = 0 /\ g = 0
OBVIOUS

(* A baseline is taken of what was there at one moment.                    *)
LEMMA AcceptedIsWhole ==
  ASSUME SnapshotInv, Sound, pc = "status again", equal, edits <= 2,
         git.status = Status(source)
  PROVE  moments # {}
<1>1. PICK a \in [Listed -> State], b \in [Listed -> State],
           first \in Listed, second \in Listed, g \in 0..2, h \in 0..2 :
             Explained(a, b, first, second, g, h)
  BY DEF SnapshotInv, Capturing
<1> USE <1>1 DEF Explained
<1>2. /\ git.candidates = Candidates(Moment(a, b, g))
      /\ g <= h /\ git.status = Status(Moment(a, b, h))
      /\ \A r \in Listed :
            IF r \in git.candidates
            THEN \E k \in h..2 : entries[r] = Moment(a, b, k)[r]
            ELSE entries[r] = Absent
  <2>1. \A r \in Listed : r \in Recorded
    BY OrderListsPaths, PathsFromOrder DEF Recorded
  <2> QED
    BY <2>1 DEF ReadInOrder
<1>3. /\ \A r \in Listed : r # first => a[r] = b[r]
      /\ \A r \in Listed : r # second => b[r] = source[r]
      /\ \A r \in Listed : Now[r] = source[r]
  BY DEF Course, Now
<1>4. SUFFICES ASSUME moments = {} PROVE FALSE
  OBVIOUS
<1>5. /\ \E r \in Listed : a[r] # entries[r]
      /\ \E r \in Listed : b[r] # entries[r]
      /\ \E r \in Listed : Now[r] # entries[r]
  BY <1>4 DEF Remembered, Recorded, Listed
<1>6. \A r \in Listed :
         r \in Recorded /\ entries[r] \in {a[r], b[r], source[r]}
  <2>1. \A r \in Listed : r \in Recorded
    BY OrderListsPaths, PathsFromOrder DEF Recorded
  <2> QED
    BY <1>1, <2>1, ReadAtAStage
<1>7. Torn(a, b, first, second)
  <2>2. \A r \in Listed \ {first, second} :
           entries[r] = a[r] /\ entries[r] = b[r] /\ entries[r] = source[r]
    BY <1>3, <1>6
  <2>3. /\ entries[first] # a[first] \/ entries[second] # a[second]
        /\ entries[first] # b[first] \/ entries[second] # b[second]
        /\ entries[first] # source[first] \/ entries[second] # source[second]
    BY <1>3, <1>5, <2>2
  <2>4. first # second
    BY <1>6, <2>3
  <2> QED
    BY <1>3, <1>6, <2>3, <2>4 DEF Torn
<1>8. entries[first] = Absent /\ git.candidates = Candidates(source)
  BY <1>7 DEF Noticed, Unrepeated
<1>9. /\ a[first] = Absent /\ b[first] # Absent /\ source[first] # Absent
      /\ b[first] = source[first]
  BY <1>3, <1>7, <1>8 DEF Torn
<1>10. CASE first \in git.candidates
  <2>1. h = 0 /\ g = 0
    <3>1. PICK k \in h..2 : entries[first] = Moment(a, b, k)[first]
      BY <1>2, <1>10
    <3>2. k = 0
      BY <1>3, <1>8, <1>9, <3>1 DEF Moment
    <3> QED
      BY <1>2, <3>1, <3>2, FirstStage
  <2>2. HEAD[first] # Absent
    BY <1>2, <1>9, <1>10, <2>1 DEF Moment, Candidates
  <2>3. Status(a)[first] = "deleted" /\ Status(source)[first] # "deleted"
    BY <1>9, <2>2 DEF Status
  <2> QED
    BY <1>2, <2>1, <2>3 DEF Moment
<1>11. CASE first \notin git.candidates
  BY <1>8, <1>9, <1>11 DEF Candidates
<1> QED
  BY <1>10, <1>11

LEMMA EndKeepsSnapshot ==
  ASSUME SnapshotInv, Sound, FinishBaseline \/ CaptureFails,
         TearingEdits \in Nat, TearingEdits <= 3
  PROVE  SnapshotInv'
<1>1. edits' = 0 /\ equal' = TRUE /\ pc' \in {"materialize", "refused"}
  BY DEF FinishBaseline, CaptureFails
<1>2. \/ tear' = tear
      \/ /\ FinishBaseline /\ equal /\ git.status = Status(source)
         /\ tear' = IF moments # {} THEN 0 ELSE edits
  BY DEF FinishBaseline, CaptureFails
<1>3. BaselineIsASnapshot'
  <2>1. edits \in Nat
    BY DEF SnapshotInv
  <2>2. CASE tear' = tear
    BY <2>2 DEF SnapshotInv, BaselineIsASnapshot
  <2>3. CASE FinishBaseline /\ equal /\ git.status = Status(source) /\ edits <= 2
    BY <1>2, <2>3, AcceptedIsWhole DEF FinishBaseline, BaselineIsASnapshot
  <2>4. CASE ~(edits <= 2)
    BY <1>2, <2>1, <2>2, <2>4 DEF BaselineIsASnapshot
  <2> QED
    BY <1>2, <2>2, <2>3, <2>4
<1> QED
  BY <1>1, <1>3 DEF SnapshotInv, Capturing

(* An edit ends the stage before the last: what was read at the two before *)
(* was the same, as long as this is the first edit or the second.          *)
LEMMA EditKeepsSnapshot ==
  ASSUME SnapshotInv, Sound, UserEdits, pc \in Capturing
  PROVE  SnapshotInv'
<1>1. PICK p \in Listed, c \in State :
         source' = [source EXCEPT ![p] = c] /\ c # source[p]
  BY DEF UserEdits
<1>2. /\ edits' = edits + 1 /\ edits \in Nat
      /\ UNCHANGED <<pc, at, git, entries, equal, tear>>
  BY DEF UserEdits, SnapshotInv
<1>3. /\ source \in [Paths -> State] /\ source' \in [Paths -> State]
      /\ Now \in [Listed -> State] /\ Now' \in [Listed -> State]
      /\ \A r \in Listed : Now[r] = source[r] /\ Now'[r] = source'[r]
      /\ \A r \in Listed : r # p => source'[r] = source[r]
  BY <1>1, PathsFromOrder DEF Sound, Now
<1>4. Recorded' = Recorded /\ Unrepeated' = Unrepeated
  BY <1>2 DEF Recorded, Unrepeated
<1>5. ASSUME edits <= 1,
             NEW a \in [Listed -> State], NEW b \in [Listed -> State],
             NEW first \in Listed, NEW second \in Listed,
             NEW g \in 0..2, NEW h \in 0..2,
             Explained(a, b, first, second, g, h),
             NEW now \in [Listed -> State], now = Now
      PROVE  \E i, k \in 0..2 : Explained(b, now, second, p, i, k)'
  <2> USE <1>5 DEF Explained
  <2>a. a = b
    BY DEF Course
  <2> DEFINE Before(k) == IF k = 0 THEN 0 ELSE k - 1
  <2>1. \A k \in 0..2 : Before(k) \in 0..2
        /\ Moment(b, now, Before(k))' = Moment(a, b, k)
    BY <2>a DEF Moment
  <2>2. Course(b, now, second, p, Before(g), Before(h))'
    BY <1>2, <1>3, <2>1 DEF Course
  <2>3. ReadInOrder(b, now, Before(g), Before(h))'
    <3>1. ASSUME NEW r \in Recorded, r \in git.candidates
          PROVE  \E k \in Before(h)..2 :
                    entries[r] = Moment(b, now, k)'[r]
      <4>1. PICK k \in h..2 : entries[r] = Moment(a, b, k)[r]
        BY <3>1 DEF ReadInOrder
      <4>2. k \in 0..2 /\ Before(k) \in Before(h)..2
        BY <1>5, <4>1
      <4> QED
        BY <2>1, <4>1, <4>2
    <3>2. /\ pc # "candidates" =>
                git.candidates = Candidates(Moment(b, now, Before(g)))'
          /\ pc \notin {"candidates", "status"} =>
                /\ Before(g) <= Before(h)
                /\ git.status = Status(Moment(b, now, Before(h)))'
      BY <2>1 DEF ReadInOrder
    <3> QED
      BY <1>2, <1>4, <3>1, <3>2 DEF ReadInOrder
  <2>4. Remembered(b, now)'
    <3>1. \A m \in {b, now} :
             (\A r \in Recorded : m[r] = entries[r]) => m \in moments
      BY DEF Remembered
    <3>2. moments \subseteq moments'
      BY DEF UserEdits
    <3>3. (\A r \in Recorded : source'[r] = entries[r]) => Now' \in moments'
      BY DEF UserEdits, Now
    <3>4. \A r \in Recorded : r \in Listed
      BY DEF Recorded, Listed
    <3>5. (\A r \in Recorded : Now'[r] = entries[r]) => Now' \in moments'
      BY <1>3, <3>3, <3>4
    <3> QED
      BY <1>2, <1>4, <3>1, <3>2, <3>5 DEF Remembered
  <2>5. Noticed(b, now, second, p)'
    <3>1. SUFFICES ASSUME Torn(b, now, second, p)' PROVE FALSE
      BY DEF Noticed
    <3>2. /\ p # second /\ p \in Recorded
          /\ entries[p] = source'[p] /\ source'[p] # now[p]
      BY <1>2, <1>4, <3>1 DEF Torn
    <3>3. entries[p] \in {a[p], b[p], source[p]}
      BY <3>2, ReadAtAStage
    <3>4. b[p] = source[p] /\ now[p] = source[p]
      BY <1>3, <3>2 DEF Course
    <3> QED
      BY <2>a, <3>2, <3>3, <3>4
  <2> QED
    BY <2>1, <2>2, <2>3, <2>4, <2>5
<1>6. \A r \in Listed \ Recorded' : entries'[r] = Absent
  BY <1>2, <1>4 DEF SnapshotInv
<1>7. edits' \in Nat /\ equal' \in BOOLEAN /\ BaselineIsASnapshot'
  BY <1>2 DEF SnapshotInv, BaselineIsASnapshot
<1>8. ASSUME edits' <= 2
      PROVE  \E a, b \in [Listed -> State], first, second \in Listed,
                g, h \in 0..2 :
                 Explained(a, b, first, second, g, h)'
  <2>1. PICK a \in [Listed -> State], b \in [Listed -> State],
             first \in Listed, second \in Listed, g \in 0..2, h \in 0..2 :
               Explained(a, b, first, second, g, h)
    BY <1>2, <1>8 DEF SnapshotInv
  <2>2. PICK now \in [Listed -> State] : now = Now
    BY <1>3
  <2>3. \E i, k \in 0..2 : Explained(b, now, second, p, i, k)'
    BY <1>2, <1>5, <1>8, <2>1, <2>2
  <2> QED
    BY <2>1, <2>2, <2>3
<1> QED
  BY <1>6, <1>7, <1>8 DEF SnapshotInv

LEMMA SnapshotStep ==
  ASSUME SnapshotInv, Sound, [Next]_vars,
         TearingEdits \in Nat, TearingEdits <= 3
  PROVE  SnapshotInv'
<1>1. CASE ListCandidates \/ ReadStatus
  BY <1>1, GitKeepsSnapshot
<1>2. CASE CaptureEntry
  BY <1>2, CaptureKeepsSnapshot
<1>3. CASE RepeatEntry \/ ListAgain
  BY <1>3, SecondLookKeepsSnapshot
<1>4. CASE FinishBaseline \/ CaptureFails
  BY <1>4, EndKeepsSnapshot
<1>5. CASE UserEdits /\ pc \in Capturing
  BY <1>5, EditKeepsSnapshot
<1>6. ASSUME pc \notin Capturing, pc' \notin Capturing,
             edits' \in Nat, UNCHANGED <<equal, tear>>
      PROVE  SnapshotInv'
  BY <1>6 DEF SnapshotInv, BaselineIsASnapshot
<1>7. CASE UserEdits /\ pc \notin Capturing
  BY <1>6, <1>7 DEF UserEdits, SnapshotInv
<1>8. CASE \/ MakeDirectory \/ WriteEntry \/ MaterializeFails
           \/ WalkStep \/ DecisionStep \/ AgentEdits \/ PublishIgnored
  <2>1. /\ pc \notin Capturing /\ pc' \notin Capturing
        /\ UNCHANGED <<edits, equal, tear>>
    <3>1. CASE MakeDirectory \/ WriteEntry \/ MaterializeFails
      BY <3>1 DEF MakeDirectory, WriteEntry, MaterializeFails, Advance,
                  Capturing, capture
    <3>2. CASE WalkStep
      BY <3>2 DEF WalkStep, ComputeChangeset, Detect, ListPath, InspectPath,
                  WalkFails, FinishChangeset, Walking, Capturing, capture
    <3>3. CASE DecisionStep
      BY <3>3 DEF DecisionStep, CompareChangesets, ReadTarget, Report,
                  Confirm, Capturing, capture
    <3>4. CASE AgentEdits \/ PublishIgnored
      BY <3>4 DEF AgentEdits, PublishIgnored, Materialised, Walking,
                  Detecting, Capturing, capture
    <3> QED BY <1>8, <3>1, <3>2, <3>3, <3>4
  <2> QED
    BY <1>6, <2>1 DEF SnapshotInv
<1>9. CASE UNCHANGED vars
  <2>1. UNCHANGED <<source, git, entries, moments, pc, at, equal, edits, tear>>
    BY <1>9 DEF vars, capture
  <2>2. ASSUME NEW a, NEW b, NEW first, NEW second, NEW g, NEW h,
               Explained(a, b, first, second, g, h)
        PROVE  Explained(a, b, first, second, g, h)'
    <3>1. /\ Recorded' = Recorded /\ Now' = Now
          /\ \A k : Moment(a, b, k)' = Moment(a, b, k)
      BY <2>1 DEF Recorded, Now, Moment
    <3>2. Course(a, b, first, second, g, h)' /\ ReadInOrder(a, b, g, h)'
      BY <2>1, <2>2, <3>1 DEF Explained, Course, ReadInOrder
    <3>3. Remembered(a, b)' /\ Noticed(a, b, first, second)'
      BY <2>1, <2>2, <3>1
         DEF Explained, Remembered, Noticed, Torn, Unrepeated
    <3> QED
      BY <3>2, <3>3 DEF Explained
  <2>3. SnapshotInv /\ Recorded' = Recorded
    BY <2>1 DEF Recorded
  <2> QED
    BY <2>1, <2>2, <2>3 DEF SnapshotInv, BaselineIsASnapshot
<1> QED
  BY <1>1, <1>2, <1>3, <1>4, <1>5, <1>7, <1>8, <1>9
     DEF Next, WalkStep, DecisionStep

(* The capture accepts as a baseline only what the repository was at one   *)
(* moment of it, unless the user made three edits or more meanwhile.       *)
THEOREM BaselineIsOfOneMoment ==
  ASSUME TearingEdits \in Nat, TearingEdits <= 3
  PROVE  Spec => []BaselineIsASnapshot
<1>1. Init => SnapshotInv
  BY StartsAsSnapshot
<1>2. WorkspaceInv => Sound
  BY DEF WorkspaceInv, WellFormed, Sound
<1>3. WorkspaceInv /\ SnapshotInv /\ [Next]_vars => SnapshotInv'
  BY <1>2, SnapshotStep
<1>4. SnapshotInv => BaselineIsASnapshot
  BY DEF SnapshotInv
<1>5. Spec => []WorkspaceInv
  BY WorkspaceInvariant
<1> QED
  BY <1>1, <1>3, <1>4, <1>5, PTL DEF Spec

-----------------------------------------------------------------------------
(***************************************************************************)
(* SyntheticGit: status is complete, the index moves as a whole.           *)
(***************************************************************************)

Operation == [kind : GitOperation \cup {"none"}, paths : SUBSET GitPaths,
              left : SUBSET GitPaths, read : [GitPaths -> Snapshot]]

Feedback == [kind : GitOperation \cup {"none"},
             disposition : {"none", "ACCEPTED", "REJECTED", "INTERNAL_FAILURE"},
             paths : SUBSET GitPaths]

Typed ==
    /\ tree \in [Files -> Snapshot]
    /\ anchor \in [GitPaths -> Snapshot]
    /\ index \in [GitPaths -> Snapshot]
    /\ operation \in Operation
    /\ feedback \in Feedback
    /\ quiet \in BOOLEAN

(* While nobody edits, a status that has begun has left out only what is   *)
(* nowhere, and what it has read is still what the workspace has.          *)
ReadIsCurrent ==
    operation.kind = "STATUS" /\ quiet =>
        \A f \in Files :
            /\ f \notin operation.paths => index[f] = NoFile /\ tree[f] = NoFile
            /\ f \in operation.paths \ operation.left =>
                  operation.read[f] = tree[f]

GitInv == Typed /\ ReadIsCurrent /\ StatusHidesNothing

-----------------------------------------------------------------------------
LEMMA GitInitially == GitInit => GitInv
<1> SUFFICES ASSUME GitInit PROVE GitInv
  OBVIOUS
<1>1. Typed
  BY LinksLeadToFiles DEF GitInit, Typed, Operation, Feedback, NoOperation,
                          NoFeedback, GitPaths, Snapshot
<1>2. ReadIsCurrent /\ StatusHidesNothing
  BY DEF GitInit, ReadIsCurrent, StatusHidesNothing, NoOperation, NoFeedback
<1> QED BY <1>1, <1>2 DEF GitInv

LEMMA TypedStep ==
  ASSUME Typed, [GitNext]_gitVars
  PROVE  Typed'
<1> USE DEF Typed, Operation, Feedback, GitOperation
<1>1. CASE Begin
  <2>1. NoOperation.read \in [GitPaths -> Snapshot]
    BY DEF NoOperation, Snapshot
  <2>2. PICK kind \in GitOperation, paths \in SUBSET GitPaths :
          Start(kind, paths, paths)
    <3>1. CASE Start("STATUS", Relevant, Relevant)
      BY <3>1 DEF Relevant
    <3>2. CASE LET indexed == {p \in GitPaths : index[p] # NoFile}
               IN Start("DIFF", indexed, indexed)
      BY <3>2
    <3>3. CASE \E paths \in (SUBSET GitPaths) \ {{}} : Start("STAGE", paths, paths)
      BY <3>3
    <3> QED BY <1>1, <3>1, <3>2, <3>3 DEF Begin
  <2> QED BY <2>1, <2>2 DEF Start, NoFeedback
<1>2. CASE ReadNext
  <2>1. PICK p \in operation.left : operation' = ReadFile(p)
    BY <1>2 DEF ReadNext
  <2>2. (IF p \in Links THEN tree[LinkTo[p]] ELSE tree[p]) \in Snapshot
    BY <2>1, LinksLeadToFiles DEF GitPaths
  <2>3. operation' \in Operation
    BY <2>1, <2>2 DEF ReadFile
  <2> QED BY <1>2, <2>3 DEF ReadNext
<1>3. CASE ReadFails
  BY <1>3 DEF ReadFails, Return, NoOperation, Snapshot
<1>4. CASE ReportStatus \/ Diff \/ CachedDiff
  BY <1>4 DEF ReportStatus, StatusPaths, Diff, CachedDiff, Different, Return,
              NoOperation, Snapshot
<1>5. CASE Stage
  BY <1>5 DEF Stage, Return, NoOperation, Snapshot
<1>6. CASE Unstage
  BY <1>6 DEF Unstage, Return, NoOperation, Snapshot
<1>7. CASE EditFile
  BY <1>7 DEF EditFile, NoFeedback, Snapshot
<1>8. CASE UNCHANGED gitVars
  BY <1>8 DEF gitVars
<1> QED BY <1>1, <1>2, <1>3, <1>4, <1>5, <1>6, <1>7, <1>8 DEF GitNext

LEMMA ReadStep ==
  ASSUME Typed, ReadIsCurrent, [GitNext]_gitVars
  PROVE  ReadIsCurrent'
<1> USE DEF ReadIsCurrent
<1>1. CASE Begin
  BY <1>1 DEF Begin, Start, Relevant, Present, GitPaths, NoOperation
<1>2. CASE ReadNext
  <2>1. PICK p \in operation.left : operation' = ReadFile(p)
    BY <1>2 DEF ReadNext
  <2>2. /\ operation'.kind = operation.kind
        /\ operation'.paths = operation.paths
        /\ operation'.left = operation.left \ {p}
    BY <2>1 DEF Typed, Operation, ReadFile
  <2>3. ASSUME NEW f \in Files
        PROVE  operation'.read[f] = IF f = p THEN tree[f] ELSE operation.read[f]
    BY <2>1, <2>3, LinksLeadToFiles DEF Typed, Operation, ReadFile, GitPaths
  <2> QED BY <1>2, <2>2, <2>3 DEF ReadNext
<1>3. CASE ReadFails \/ ReportStatus \/ Diff \/ CachedDiff \/ Stage \/ Unstage
  <2>1. operation' = NoOperation
    BY <1>3 DEF ReadFails, ReportStatus, Diff, CachedDiff, Stage, Unstage,
                Return
  <2> QED BY <2>1 DEF NoOperation
<1>4. CASE EditFile
  BY <1>4 DEF EditFile
<1>5. CASE UNCHANGED gitVars
  BY <1>5 DEF gitVars
<1> QED BY <1>1, <1>2, <1>3, <1>4, <1>5 DEF GitNext

(* What a status names: a file whose content in the workspace is not that  *)
(* of the anchor is staged so, or read differently from its entry.         *)
LEMMA StatusStep ==
  ASSUME Typed, ReadIsCurrent, StatusHidesNothing,
         [GitNext]_gitVars
  PROVE  StatusHidesNothing'
<1> USE DEF StatusHidesNothing
<1>1. CASE ReportStatus
  <2>1. /\ operation.kind = "STATUS" /\ operation.left = {}
        /\ feedback'.paths = StatusPaths
        /\ UNCHANGED <<anchor, index, tree, quiet>>
    BY <1>1 DEF ReportStatus, Read, Return
  <2>2. ASSUME quiet, NEW f \in Files, tree[f] # anchor[f]
        PROVE  f \in StatusPaths
    BY <2>1, <2>2 DEF ReadIsCurrent, StatusPaths, Different, GitPaths
  <2> QED BY <2>1, <2>2
<1>2. CASE Begin \/ EditFile
  BY <1>2 DEF Begin, Start, EditFile, NoFeedback
<1>3. CASE ReadNext
  BY <1>3 DEF ReadNext
<1>4. CASE ReadFails
  BY <1>4 DEF ReadFails, Return
<1>5. CASE Diff \/ CachedDiff \/ Stage \/ Unstage
  <2>1. feedback'.kind \in {"DIFF", "CACHED_DIFF", "STAGE", "UNSTAGE"}
    BY <1>5 DEF Diff, CachedDiff, Stage, Unstage, Return
  <2> QED BY <2>1
<1>6. CASE UNCHANGED gitVars
  BY <1>6 DEF gitVars
<1> QED BY <1>1, <1>2, <1>3, <1>4, <1>5, <1>6 DEF GitNext

LEMMA GitInvariant == GitSpec => []GitInv
<1>1. GitInit => GitInv
  BY GitInitially
<1>2. GitInv /\ [GitNext]_gitVars => GitInv'
  BY TypedStep, ReadStep, StatusStep DEF GitInv
<1> QED BY <1>1, <1>2, PTL DEF GitSpec

-----------------------------------------------------------------------------
(* Between two edits, an accepted status names every file that is not what *)
(* the baseline has, whatever was staged or unstaged before.               *)
THEOREM StatusIsComplete ==
  GitSpec => []StatusHidesNothing
<1>1. GitInv => StatusHidesNothing
  BY DEF GitInv
<1>2. GitSpec => []GitInv
  BY GitInvariant
<1> QED BY <1>1, <1>2, PTL

(* The index only changes with an operation that was accepted, to what the *)
(* operation has read of all of its paths or back to the anchor.           *)
THEOREM IndexIsAtomic == GitSpec => IndexMovesWhole
<1> DEFINE Whole ==
             index' # index =>
                /\ feedback'.disposition = "ACCEPTED"
                /\ \A p \in GitPaths :
                      index'[p] = IF p \notin feedback'.paths THEN index[p]
                                  ELSE IF feedback'.kind = "STAGE"
                                  THEN operation.read[p] ELSE anchor[p]
<1>1. ASSUME Typed, [GitNext]_gitVars PROVE Whole
  <2>1. CASE Stage
    BY <2>1 DEF Stage, Return
  <2>2. CASE Unstage
    BY <2>2 DEF Unstage, Return
  <2>3. CASE Begin \/ ReadNext \/ ReadFails \/ ReportStatus \/ Diff \/ CachedDiff
    BY <2>3 DEF Begin, Start, ReadNext, ReadFails, ReportStatus, Diff,
                CachedDiff
  <2>4. CASE EditFile \/ UNCHANGED gitVars
    BY <2>4 DEF EditFile, gitVars
  <2> QED BY <1>1, <2>1, <2>2, <2>3, <2>4 DEF GitNext
<1>2. GitInv => Typed
  BY DEF GitInv
<1>3. GitSpec => []GitInv
  BY GitInvariant
<1>4. Typed /\ [GitNext]_gitVars => [Whole]_gitVars
  BY <1>1
<1> QED BY <1>2, <1>3, <1>4, PTL DEF GitSpec, IndexMovesWhole

-----------------------------------------------------------------------------
(***************************************************************************)
(* IgnoredInput: what a result of materialize_ignored_input says is so     *)
(***************************************************************************)

AttemptLabels == {"check", "mkdir", "open", "temporary", "write", "link",
                  "sync", "match", "unlink", "verify", "close",
                  "match_published", "remove_published", "match_temporary",
                  "remove_temporary", "match_directory", "remove_directory",
                  "close_denied", "done"}

InputTyped == InputTypeOK /\ callPc \in [Attempts -> AttemptLabels]

(* What an attempt has made, it holds a receipt for or has forgotten, and  *)
(* it reaches its files; its directory is the one it made, or has slipped. *)
Accounted(a) ==
    /\ target = a => "published" \in owns[a] \/ "target" \in forgot[a]
    /\ temporary = a => "temporary" \in owns[a] \cup forgot[a]
    /\ directory = a => "directory" \in owns[a] \cup forgot[a]
    /\ a \in {target, temporary} => Reaches(a)
    /\ "directory" \in owns[a] => opened[a] = a \/ "directory" \in slipped

(* Where an attempt is, and what that says of the names.                   *)
OnItsWay(a) ==
    /\ callPc[a] \in {"check", "mkdir", "open"} =>
          a \notin {target, temporary} /\ "directory" \notin owns[a]
    /\ callPc[a] \in {"check", "mkdir"} =>
          directory # a /\ "directory" \notin forgot[a]
    /\ callPc[a] \in {"link", "sync", "match", "unlink", "verify", "close"} =>
          a \in whole
    /\ callPc[a] = "close" =>
          target = a \/ a \in taken \/ "target" \in slipped

(* What an attempt has looked at, it removes, or the name has slipped.     *)
Looked(a) ==
    /\ callPc[a] = "remove_published" => target = a \/ "target" \in slipped
    /\ callPc[a] \in {"unlink", "remove_temporary"} =>
          temporary = a \/ "temporary" \in slipped
    /\ (\/ callPc[a] = "remove_directory"
        \/ callPc[a] = "open" /\ "directory" \in forgot[a]) =>
          directory = a \/ "directory" \in slipped

(* What each step of the cleanup leaves to the next, if it is complete.    *)
CleanedUp(a) ==
    complete[a] =>
        /\ callPc[a] \in {"match_temporary", "remove_temporary",
                          "match_directory", "remove_directory",
                          "close_denied"} =>
              (target = a => "target" \in forgot[a])
        /\ callPc[a] \in {"match_directory", "remove_directory",
                          "close_denied"} =>
              (temporary = a => "temporary" \in forgot[a])
        /\ callPc[a] = "close_denied" =>
              (directory = a => "directory" \in forgot[a])

(* A result is only there when the attempt has ended, and is true.         *)
ResultHolds(a) ==
    /\ result[a] # "none" => callPc[a] = "done"
    /\ result[a] = "permitted" =>
          /\ a \in whole
          /\ target = a \/ a \in taken \/ "target" \in slipped
    /\ result[a] = "denied" /\ complete[a] =>
          /\ target = a => "target" \in forgot[a]
          /\ temporary = a => "temporary" \in forgot[a]
          /\ directory = a => "directory" \in forgot[a]

AttemptInv(a) ==
    Accounted(a) /\ OnItsWay(a) /\ Looked(a) /\ CleanedUp(a) /\ ResultHolds(a)

InputInv == InputTyped /\ \A a \in Attempts : AttemptInv(a)

(* What a step of another attempt, or of the agent, leaves of this one     *)
Spared(a) ==
    /\ callPc'[a] = callPc[a] /\ opened'[a] = opened[a] /\ owns'[a] = owns[a]
    /\ complete'[a] = complete[a] /\ result'[a] = result[a]
    /\ a \in whole => a \in whole'
    /\ slipped \subseteq slipped' /\ taken \subseteq taken'
    /\ forgot'[a] \in {forgot[a], forgot[a] \cup {"target"}}
    /\ target' = a => \/ target = a
                      \/ temporary = a /\ "target" \in forgot'[a]
    /\ temporary' = a => temporary = a
    /\ directory' = a => directory = a
    /\ a \in {target', temporary'} => directory' = directory
    /\ target = a =>
          /\ target' = a \/ a \in taken' \/ "target" \in slipped'
          /\ callPc[a] = "remove_published" =>
                target' = a \/ "target" \in slipped'
    /\ temporary = a /\ callPc[a] \in {"unlink", "remove_temporary"} =>
          temporary' = a \/ "temporary" \in slipped'
    /\ directory = a /\ (\/ callPc[a] = "remove_directory"
                         \/ callPc[a] = "open" /\ "directory" \in forgot[a]) =>
          directory' = a \/ "directory" \in slipped'

-----------------------------------------------------------------------------
LEMMA InputInitially == InputInit => InputInv
<1> SUFFICES ASSUME InputInit PROVE InputInv
  OBVIOUS
<1>1. InputTyped
  BY DEF InputInit, InputTyped, InputTypeOK, AttemptLabels
<1>2. ASSUME NEW a \in Attempts PROVE AttemptInv(a)
  BY DistinctNames DEF InputInit, AttemptInv, Accounted, OnItsWay, Looked,
                       CleanedUp, ResultHolds
<1> QED BY <1>1, <1>2 DEF InputInv

LEMMA SparedKeeps ==
  ASSUME NEW a \in Attempts, AttemptInv(a), Spared(a)
  PROVE  AttemptInv(a)'
<1> USE DEF Spared, AttemptInv
<1>1. Accounted(a)'
  BY DEF Accounted, Reaches
<1>2. OnItsWay(a)'
  BY DEF OnItsWay
<1>3. Looked(a)'
  BY DEF Looked
<1>4. CleanedUp(a)'
  BY DEF CleanedUp, Accounted
<1>5. ResultHolds(a)'
  BY DEF ResultHolds
<1> QED BY <1>1, <1>2, <1>3, <1>4, <1>5

LEMMA InputTypedStep ==
  ASSUME InputTyped, [InputNext]_inputVars
  PROVE  InputTyped'
<1> USE DistinctNames DEF InputTyped, InputTypeOK, Goto, files, agent
<1>1. ASSUME NEW b \in Attempts, Check(b), UNCHANGED agent
      PROVE  InputTyped'
  BY <1>1 DEF AttemptLabels, Check, Finish
<1>2. ASSUME NEW b \in Attempts, MakeParent(b), UNCHANGED agent
      PROVE  InputTyped'
  BY <1>2 DEF AttemptLabels, MakeParent, Fail
<1>3. ASSUME NEW b \in Attempts, OpenDirectory(b), UNCHANGED agent
      PROVE  InputTyped'
  BY <1>3 DEF AttemptLabels, OpenDirectory, Receipt, Fail
<1>4. ASSUME NEW b \in Attempts, CreateTemporary(b), UNCHANGED agent
      PROVE  InputTyped'
  BY <1>4 DEF AttemptLabels, CreateTemporary, Receipt, Fail
<1>5. ASSUME NEW b \in Attempts, WriteTemporary(b), UNCHANGED agent
      PROVE  InputTyped'
  BY <1>5 DEF AttemptLabels, WriteTemporary, Fail
<1>6. ASSUME NEW b \in Attempts, LinkTarget(b), UNCHANGED agent
      PROVE  InputTyped'
  BY <1>6 DEF AttemptLabels, LinkTarget, Receipt, Fail
<1>7. ASSUME NEW b \in Attempts, Sync(b), UNCHANGED agent
      PROVE  InputTyped'
  BY <1>7 DEF AttemptLabels, Sync, Fail
<1>8. ASSUME NEW b \in Attempts, MatchOwn(b), UNCHANGED agent
      PROVE  InputTyped'
  BY <1>8 DEF AttemptLabels, MatchOwn, Matches, Fail
<1>9. ASSUME NEW b \in Attempts, UnlinkTemporary(b), UNCHANGED agent
      PROVE  InputTyped'
  BY <1>9 DEF AttemptLabels, UnlinkTemporary, Unlinked, Fail
<1>10. ASSUME NEW b \in Attempts, VerifyTarget(b), UNCHANGED agent
      PROVE  InputTyped'
  BY <1>10 DEF AttemptLabels, VerifyTarget, Matches, Fail
<1>11. ASSUME NEW b \in Attempts, Close(b), UNCHANGED agent
      PROVE  InputTyped'
  BY <1>11 DEF AttemptLabels, Close, Finish
<1>12. ASSUME NEW b \in Attempts, CloseDenied(b), UNCHANGED agent
      PROVE  InputTyped'
  BY <1>12 DEF AttemptLabels, CloseDenied, Finish
<1>13. ASSUME NEW b \in Attempts, MatchPublished(b), UNCHANGED agent
      PROVE  InputTyped'
  BY <1>13 DEF AttemptLabels, MatchPublished, Matches, Proceed, NotRemoved
<1>14. ASSUME NEW b \in Attempts, RemovePublished(b), UNCHANGED agent
      PROVE  InputTyped'
  <2>1. UNCHANGED <<opened, owns, result, directory, temporary, whole, forgot>>
    BY <1>14 DEF RemovePublished
  <2>2. target' \in {target, None}
    BY <1>14 DEF RemovePublished, Unlinked
  <2>3. callPc' \in [Attempts -> AttemptLabels]
    BY <1>14 DEF RemovePublished, Proceed, NotRemoved, AttemptLabels
  <2>4. complete' \in [Attempts -> BOOLEAN]
    BY <1>14 DEF RemovePublished, Proceed, NotRemoved
  <2> QED BY <1>14, <2>1, <2>2, <2>3, <2>4
<1>15. ASSUME NEW b \in Attempts, MatchTemporary(b), UNCHANGED agent
      PROVE  InputTyped'
  BY <1>15 DEF AttemptLabels, MatchTemporary, Matches, Proceed, NotRemoved
<1>16. ASSUME NEW b \in Attempts, RemoveTemporary(b), UNCHANGED agent
      PROVE  InputTyped'
  <2>1. UNCHANGED <<opened, owns, result, directory, target, whole, forgot>>
    BY <1>16 DEF RemoveTemporary
  <2>2. temporary' \in {temporary, None}
    BY <1>16 DEF RemoveTemporary, Unlinked
  <2>3. callPc' \in [Attempts -> AttemptLabels]
    BY <1>16 DEF RemoveTemporary, Proceed, NotRemoved, AttemptLabels
  <2>4. complete' \in [Attempts -> BOOLEAN]
    BY <1>16 DEF RemoveTemporary, Proceed, NotRemoved
  <2> QED BY <1>16, <2>1, <2>2, <2>3, <2>4
<1>17. ASSUME NEW b \in Attempts, MatchDirectory(b), UNCHANGED agent
      PROVE  InputTyped'
  BY <1>17 DEF AttemptLabels, MatchDirectory, Proceed, NotRemoved
<1>18. ASSUME NEW b \in Attempts, RemoveDirectory(b), UNCHANGED agent
      PROVE  InputTyped'
  <2>1. UNCHANGED <<opened, owns, result, temporary, target, whole, forgot>>
    BY <1>18 DEF RemoveDirectory
  <2>2. directory' \in {directory, None}
    BY <1>18 DEF RemoveDirectory
  <2>3. callPc' \in [Attempts -> AttemptLabels]
    BY <1>18 DEF RemoveDirectory, Proceed, NotRemoved, AttemptLabels
  <2>4. complete' \in [Attempts -> BOOLEAN]
    BY <1>18 DEF RemoveDirectory, Proceed, NotRemoved
  <2> QED BY <1>18, <2>1, <2>2, <2>3, <2>4
<1>19. ASSUME NEW b \in Attempts, Die(b), UNCHANGED agent
      PROVE  InputTyped'
  BY <1>19 DEF AttemptLabels, Die
<1>20. CASE OtherWrites
  <2>1. UNCHANGED <<callPc, opened, owns, complete, result, whole, forgot>>
    BY <1>20 DEF OtherWrites
  <2>2. otherWrites' \in Nat
    BY <1>20 DEF OtherWrites
  <2>3. /\ directory' \in {directory, None, Other}
        /\ temporary' \in {temporary, None, Other}
        /\ target' \in {target, None, Other}
    BY <1>20 DEF OtherWrites
  <2>4. slipped' \subseteq slipped \cup {"directory", "temporary", "target"}
    BY <1>20 DEF OtherWrites, Slip
  <2>5. taken' \subseteq Attempts
    BY <1>20 DEF OtherWrites
  <2> QED BY <2>1, <2>2, <2>3, <2>4, <2>5
<1>21. CASE UNCHANGED inputVars
  BY <1>21 DEF inputVars
<1> QED BY <1>1, <1>2, <1>3, <1>4, <1>5, <1>6, <1>7, <1>8, <1>9, <1>10, <1>11,
           <1>12, <1>13, <1>14, <1>15, <1>16, <1>17, <1>18, <1>19, <1>20, <1>21
          DEF InputNext, Step

(* What an attempt does leaves its own account in order.                   *)
LEMMA OwnStep ==
  ASSUME InputInv, NEW b \in Attempts, Step(b)
  PROVE  AttemptInv(b)'
<1> USE DistinctNames DEF Goto, files, agent
<1>0. InputTyped /\ AttemptInv(b) /\ UNCHANGED agent
  BY DEF InputInv, Step
<1>1. CASE Check(b)
  <2> USE <1>0, <1>1 DEF InputTyped, InputTypeOK, AttemptInv, Check, Finish
  <2>1. Accounted(b)'
    BY DEF Accounted, OnItsWay, Looked, Reaches
  <2>2. OnItsWay(b)' /\ Looked(b)'
    BY DEF OnItsWay, Looked, Accounted, Reaches
  <2>3. CleanedUp(b)' /\ ResultHolds(b)'
    BY DEF CleanedUp, ResultHolds, Accounted, OnItsWay, Reaches
  <2> QED BY <2>1, <2>2, <2>3
<1>2. CASE MakeParent(b)
  <2> USE <1>0, <1>2 DEF InputTyped, InputTypeOK, AttemptInv, MakeParent, Fail
  <2>1. Accounted(b)'
    BY DEF Accounted, OnItsWay, Looked, Reaches
  <2>2. OnItsWay(b)' /\ Looked(b)'
    BY DEF OnItsWay, Looked, Accounted, Reaches
  <2>3. CleanedUp(b)' /\ ResultHolds(b)'
    BY DEF CleanedUp, ResultHolds, Accounted, OnItsWay, Reaches
  <2> QED BY <2>1, <2>2, <2>3
<1>3. CASE OpenDirectory(b)
  <2> USE <1>0, <1>3 DEF InputTyped, InputTypeOK, AttemptInv, OpenDirectory,
          Receipt, Fail
  <2>1. Accounted(b)'
    BY DEF Accounted, OnItsWay, Looked, Reaches
  <2>2. OnItsWay(b)' /\ Looked(b)'
    BY DEF OnItsWay, Looked, Accounted, Reaches
  <2>3. CleanedUp(b)' /\ ResultHolds(b)'
    BY DEF CleanedUp, ResultHolds, Accounted, OnItsWay, Reaches
  <2> QED BY <2>1, <2>2, <2>3
<1>4. CASE CreateTemporary(b)
  <2> USE <1>0, <1>4 DEF InputTyped, InputTypeOK, AttemptInv, CreateTemporary,
          Receipt, Fail
  <2>1. Accounted(b)'
    BY DEF Accounted, OnItsWay, Looked, Reaches
  <2>2. OnItsWay(b)' /\ Looked(b)'
    BY DEF OnItsWay, Looked, Accounted, Reaches
  <2>3. CleanedUp(b)' /\ ResultHolds(b)'
    BY DEF CleanedUp, ResultHolds, Accounted, OnItsWay, Reaches
  <2> QED BY <2>1, <2>2, <2>3
<1>5. CASE WriteTemporary(b)
  <2> USE <1>0, <1>5 DEF InputTyped, InputTypeOK, AttemptInv, WriteTemporary,
          Fail
  <2>1. Accounted(b)'
    BY DEF Accounted, OnItsWay, Looked, Reaches
  <2>2. OnItsWay(b)' /\ Looked(b)'
    BY DEF OnItsWay, Looked, Accounted, Reaches
  <2>3. CleanedUp(b)' /\ ResultHolds(b)'
    BY DEF CleanedUp, ResultHolds, Accounted, OnItsWay, Reaches
  <2> QED BY <2>1, <2>2, <2>3
<1>6. CASE LinkTarget(b)
  <2> USE <1>0, <1>6 DEF InputTyped, InputTypeOK, AttemptInv, LinkTarget,
          Receipt, Fail
  <2>1. Accounted(b)'
    BY DEF Accounted, OnItsWay, Looked, Reaches
  <2>2. OnItsWay(b)' /\ Looked(b)'
    BY DEF OnItsWay, Looked, Accounted, Reaches
  <2>3. CleanedUp(b)' /\ ResultHolds(b)'
    BY DEF CleanedUp, ResultHolds, Accounted, OnItsWay, Reaches
  <2> QED BY <2>1, <2>2, <2>3
<1>7. CASE Sync(b)
  <2> USE <1>0, <1>7 DEF InputTyped, InputTypeOK, AttemptInv, Sync, Fail
  <2>1. Accounted(b)'
    BY DEF Accounted, OnItsWay, Looked, Reaches
  <2>2. OnItsWay(b)' /\ Looked(b)'
    BY DEF OnItsWay, Looked, Accounted, Reaches
  <2>3. CleanedUp(b)' /\ ResultHolds(b)'
    BY DEF CleanedUp, ResultHolds, Accounted, OnItsWay, Reaches
  <2> QED BY <2>1, <2>2, <2>3
<1>8. CASE MatchOwn(b)
  <2> USE <1>0, <1>8 DEF InputTyped, InputTypeOK, AttemptInv, MatchOwn,
          Matches, Fail
  <2>1. Accounted(b)'
    BY DEF Accounted, OnItsWay, Looked, Reaches
  <2>2. OnItsWay(b)' /\ Looked(b)'
    BY DEF OnItsWay, Looked, Accounted, Reaches
  <2>3. CleanedUp(b)' /\ ResultHolds(b)'
    BY DEF CleanedUp, ResultHolds, Accounted, OnItsWay, Reaches
  <2> QED BY <2>1, <2>2, <2>3
<1>9. CASE UnlinkTemporary(b)
  <2> USE <1>0, <1>9 DEF InputTyped, InputTypeOK, AttemptInv, UnlinkTemporary,
          Unlinked, Fail
  <2>1. Accounted(b)'
    BY DEF Accounted, OnItsWay, Looked, Reaches
  <2>2. OnItsWay(b)' /\ Looked(b)'
    BY DEF OnItsWay, Looked, Accounted, Reaches
  <2>3. CleanedUp(b)' /\ ResultHolds(b)'
    BY DEF CleanedUp, ResultHolds, Accounted, OnItsWay, Reaches
  <2> QED BY <2>1, <2>2, <2>3
<1>10. CASE VerifyTarget(b)
  <2> USE <1>0, <1>10 DEF InputTyped, InputTypeOK, AttemptInv, VerifyTarget,
          Matches, Fail
  <2>1. Accounted(b)'
    BY DEF Accounted, OnItsWay, Looked, Reaches
  <2>2. OnItsWay(b)' /\ Looked(b)'
    BY DEF OnItsWay, Looked, Accounted, Reaches
  <2>3. CleanedUp(b)' /\ ResultHolds(b)'
    BY DEF CleanedUp, ResultHolds, Accounted, OnItsWay, Reaches
  <2> QED BY <2>1, <2>2, <2>3
<1>11. CASE Close(b)
  <2> USE <1>0, <1>11 DEF InputTyped, InputTypeOK, AttemptInv, Close, Finish
  <2>1. Accounted(b)'
    BY DEF Accounted, OnItsWay, Looked, Reaches
  <2>2. OnItsWay(b)' /\ Looked(b)'
    BY DEF OnItsWay, Looked, Accounted, Reaches
  <2>3. CleanedUp(b)' /\ ResultHolds(b)'
    BY DEF CleanedUp, ResultHolds, Accounted, OnItsWay, Reaches
  <2> QED BY <2>1, <2>2, <2>3
<1>12. CASE CloseDenied(b)
  <2> USE <1>0, <1>12 DEF InputTyped, InputTypeOK, AttemptInv, CloseDenied,
          Finish
  <2>1. Accounted(b)'
    BY DEF Accounted, OnItsWay, Looked, Reaches
  <2>2. OnItsWay(b)' /\ Looked(b)'
    BY DEF OnItsWay, Looked, Accounted, Reaches
  <2>3. CleanedUp(b)' /\ ResultHolds(b)'
    BY DEF CleanedUp, ResultHolds, Accounted, OnItsWay, Reaches
  <2> QED BY <2>1, <2>2, <2>3
<1>13. CASE MatchPublished(b)
  <2> USE <1>0, <1>13 DEF InputTyped, InputTypeOK, AttemptInv, MatchPublished,
          Matches, Proceed, NotRemoved
  <2>1. Accounted(b)'
    BY DEF Accounted, OnItsWay, Looked, Reaches
  <2>2. OnItsWay(b)' /\ Looked(b)'
    BY DEF OnItsWay, Looked, Accounted, Reaches
  <2>3. CleanedUp(b)' /\ ResultHolds(b)'
    BY DEF CleanedUp, ResultHolds, Accounted, OnItsWay, Reaches
  <2> QED BY <2>1, <2>2, <2>3
<1>14. CASE RemovePublished(b)
  <2> USE <1>0, <1>14 DEF InputTyped, InputTypeOK, AttemptInv, RemovePublished,
          Unlinked, Proceed, NotRemoved
  <2>1. Accounted(b)'
    BY DEF Accounted, OnItsWay, Looked, Reaches
  <2>2. OnItsWay(b)' /\ Looked(b)'
    BY DEF OnItsWay, Looked, Accounted, Reaches
  <2>3. CleanedUp(b)' /\ ResultHolds(b)'
    BY DEF CleanedUp, ResultHolds, Accounted, OnItsWay, Reaches
  <2> QED BY <2>1, <2>2, <2>3
<1>15. CASE MatchTemporary(b)
  <2> USE <1>0, <1>15 DEF InputTyped, InputTypeOK, AttemptInv, MatchTemporary,
          Matches, Proceed, NotRemoved
  <2>1. Accounted(b)'
    BY DEF Accounted, OnItsWay, Looked, Reaches
  <2>2. OnItsWay(b)' /\ Looked(b)'
    BY DEF OnItsWay, Looked, Accounted, Reaches
  <2>3. CleanedUp(b)' /\ ResultHolds(b)'
    BY DEF CleanedUp, ResultHolds, Accounted, OnItsWay, Reaches
  <2> QED BY <2>1, <2>2, <2>3
<1>16. CASE RemoveTemporary(b)
  <2> USE <1>0, <1>16 DEF InputTyped, InputTypeOK, AttemptInv, RemoveTemporary,
          Unlinked, Proceed, NotRemoved
  <2>1. Accounted(b)'
    BY DEF Accounted, OnItsWay, Looked, Reaches
  <2>2. OnItsWay(b)' /\ Looked(b)'
    BY DEF OnItsWay, Looked, Accounted, Reaches
  <2>3. CleanedUp(b)' /\ ResultHolds(b)'
    BY DEF CleanedUp, ResultHolds, Accounted, OnItsWay, Reaches
  <2> QED BY <2>1, <2>2, <2>3
<1>17. CASE MatchDirectory(b)
  <2> USE <1>0, <1>17 DEF InputTyped, InputTypeOK, AttemptInv, MatchDirectory,
          Proceed, NotRemoved
  <2>1. Accounted(b)'
    BY DEF Accounted, OnItsWay, Looked, Reaches
  <2>2. OnItsWay(b)' /\ Looked(b)'
    BY DEF OnItsWay, Looked, Accounted, Reaches
  <2>3. CleanedUp(b)' /\ ResultHolds(b)'
    BY DEF CleanedUp, ResultHolds, Accounted, OnItsWay, Reaches
  <2> QED BY <2>1, <2>2, <2>3
<1>18. CASE RemoveDirectory(b)
  <2> USE <1>0, <1>18 DEF InputTyped, InputTypeOK, AttemptInv, RemoveDirectory,
          Proceed, NotRemoved
  <2>1. Accounted(b)'
    BY DEF Accounted, OnItsWay, Looked, Reaches
  <2>2. OnItsWay(b)' /\ Looked(b)'
    BY DEF OnItsWay, Looked, Accounted, Reaches
  <2>3. CleanedUp(b)' /\ ResultHolds(b)'
    BY DEF CleanedUp, ResultHolds, Accounted, OnItsWay, Reaches
  <2> QED BY <2>1, <2>2, <2>3
<1>19. CASE Die(b)
  <2> USE <1>0, <1>19 DEF InputTyped, InputTypeOK, AttemptInv, Die
  <2>1. Accounted(b)'
    BY DEF Accounted, OnItsWay, Looked, Reaches
  <2>2. OnItsWay(b)' /\ Looked(b)'
    BY DEF OnItsWay, Looked, Accounted, Reaches
  <2>3. CleanedUp(b)' /\ ResultHolds(b)'
    BY DEF CleanedUp, ResultHolds, Accounted, OnItsWay, Reaches
  <2> QED BY <2>1, <2>2, <2>3
<1> QED BY <1>1, <1>2, <1>3, <1>4, <1>5, <1>6, <1>7, <1>8, <1>9, <1>10, <1>11,
           <1>12, <1>13, <1>14, <1>15, <1>16, <1>17, <1>18, <1>19 DEF Step

(* It takes nothing from another attempt, unless a name has slipped.       *)
LEMMA OthersAreSpared ==
  ASSUME InputInv, NEW a \in Attempts, NEW b \in Attempts, a # b, Step(b)
  PROVE  Spared(a)
<1> USE DistinctNames DEF Goto, files, agent
<1>0. InputTyped /\ AttemptInv(a) /\ AttemptInv(b) /\ UNCHANGED agent
  BY DEF InputInv, Step
<1>1. CASE Check(b)
  BY <1>0, <1>1 DEF InputTyped, InputTypeOK, AttemptInv, Spared, Check, Finish
<1>2. CASE MakeParent(b)
  BY <1>0, <1>2 DEF InputTyped, InputTypeOK, AttemptInv, Spared, MakeParent,
          Fail, Accounted, Looked, Reaches
<1>3. CASE OpenDirectory(b)
  BY <1>0, <1>3 DEF InputTyped, InputTypeOK, AttemptInv, Spared, OpenDirectory,
          Receipt, Fail, Accounted, Looked, Reaches
<1>4. CASE CreateTemporary(b)
  BY <1>0, <1>4 DEF InputTyped, InputTypeOK, AttemptInv, Spared,
          CreateTemporary, Receipt, Fail, Accounted, Looked, Reaches
<1>5. CASE WriteTemporary(b)
  BY <1>0, <1>5 DEF InputTyped, InputTypeOK, AttemptInv, Spared,
          WriteTemporary, Fail
<1>6. CASE LinkTarget(b)
  BY <1>0, <1>6 DEF InputTyped, InputTypeOK, AttemptInv, Spared, LinkTarget,
          Receipt, Fail, Accounted, Looked, Reaches
<1>7. CASE Sync(b)
  BY <1>0, <1>7 DEF InputTyped, InputTypeOK, AttemptInv, Spared, Sync, Fail
<1>8. CASE MatchOwn(b)
  BY <1>0, <1>8 DEF InputTyped, InputTypeOK, AttemptInv, Spared, MatchOwn,
          Matches, Fail
<1>9. CASE UnlinkTemporary(b)
  BY <1>0, <1>9 DEF InputTyped, InputTypeOK, AttemptInv, Spared,
          UnlinkTemporary, Unlinked, Fail, Accounted, Looked, Reaches
<1>10. CASE VerifyTarget(b)
  BY <1>0, <1>10 DEF InputTyped, InputTypeOK, AttemptInv, Spared, VerifyTarget,
          Matches, Fail
<1>11. CASE Close(b)
  BY <1>0, <1>11 DEF InputTyped, InputTypeOK, AttemptInv, Spared, Close, Finish
<1>12. CASE CloseDenied(b)
  BY <1>0, <1>12 DEF InputTyped, InputTypeOK, AttemptInv, Spared, CloseDenied,
          Finish
<1>13. CASE MatchPublished(b)
  BY <1>0, <1>13 DEF InputTyped, InputTypeOK, AttemptInv, Spared,
          MatchPublished, Matches, Proceed, NotRemoved
<1>14. CASE RemovePublished(b)
  BY <1>0, <1>14 DEF InputTyped, InputTypeOK, AttemptInv, Spared,
          RemovePublished, Unlinked, Proceed, NotRemoved, Accounted, Looked,
          Reaches
<1>15. CASE MatchTemporary(b)
  BY <1>0, <1>15 DEF InputTyped, InputTypeOK, AttemptInv, Spared,
          MatchTemporary, Matches, Proceed, NotRemoved
<1>16. CASE RemoveTemporary(b)
  BY <1>0, <1>16 DEF InputTyped, InputTypeOK, AttemptInv, Spared,
          RemoveTemporary, Unlinked, Proceed, NotRemoved, Accounted, Looked,
          Reaches
<1>17. CASE MatchDirectory(b)
  BY <1>0, <1>17 DEF InputTyped, InputTypeOK, AttemptInv, Spared,
          MatchDirectory, Proceed, NotRemoved
<1>18. CASE RemoveDirectory(b)
  BY <1>0, <1>18 DEF InputTyped, InputTypeOK, AttemptInv, Spared,
          RemoveDirectory, Proceed, NotRemoved, Accounted, Looked, Reaches
<1>19. CASE Die(b)
  BY <1>0, <1>19 DEF InputTyped, InputTypeOK, AttemptInv, Spared, Die
<1> QED BY <1>1, <1>2, <1>3, <1>4, <1>5, <1>6, <1>7, <1>8, <1>9, <1>10, <1>11,
           <1>12, <1>13, <1>14, <1>15, <1>16, <1>17, <1>18, <1>19 DEF Step

(* Nor does the agent, between a look and the removal, but then it slips.  *)
LEMMA AgentSpares ==
  ASSUME InputInv, NEW a \in Attempts, OtherWrites
  PROVE  Spared(a)
<1> USE DistinctNames DEF InputInv, InputTyped, InputTypeOK, AttemptInv,
                          OtherWrites, Slip, Between, Spared
<1>1. CASE UNCHANGED <<temporary, target, taken>>
  BY <1>1 DEF Accounted
<1>2. CASE UNCHANGED <<directory, target, taken>>
  BY <1>2 DEF Accounted
<1>3. CASE UNCHANGED <<directory, temporary>>
  BY <1>3 DEF Accounted
<1> QED BY <1>1, <1>2, <1>3

LEMMA InputInvariant == InputSpec => []InputInv
<1>1. InputInit => InputInv
  BY InputInitially
<1>2. InputInv /\ [InputNext]_inputVars => InputInv'
  <2> SUFFICES ASSUME InputInv, [InputNext]_inputVars PROVE InputInv'
    OBVIOUS
  <2>1. InputTyped'
    BY InputTypedStep DEF InputInv
  <2>2. CASE OtherWrites
    BY <2>1, <2>2, AgentSpares, SparedKeeps DEF InputInv
  <2>3. ASSUME NEW b \in Attempts, Step(b) PROVE InputInv'
    <3>1. AttemptInv(b)'
      BY <2>3, OwnStep
    <3>2. ASSUME NEW a \in Attempts, a # b PROVE AttemptInv(a)'
      BY <2>3, <3>2, OthersAreSpared, SparedKeeps DEF InputInv
    <3> QED BY <2>1, <3>1, <3>2 DEF InputInv
  <2>4. CASE UNCHANGED inputVars
    BY <2>1, <2>4 DEF InputInv, AttemptInv, Accounted, OnItsWay, Looked,
                      CleanedUp, ResultHolds, Reaches, inputVars, files, agent
  <2> QED BY <2>2, <2>3, <2>4 DEF InputNext
<1> QED BY <1>1, <1>2, PTL DEF InputSpec

-----------------------------------------------------------------------------
(* An attempt that reports its input as published has its whole file under *)
(* the name, and stays right, whatever other attempts do; only the agent   *)
(* takes it away, or lets an attempt remove what it has not looked at.     *)
THEOREM PublicationHolds == InputSpec => []PublishedIsWhole
<1>1. InputInv => PublishedIsWhole
  BY DEF InputInv, AttemptInv, ResultHolds, PublishedIsWhole
<1>2. InputSpec => []InputInv
  BY InputInvariant
<1> QED BY <1>1, <1>2, PTL

(* A refusal that says its cleanup was complete has left nothing behind    *)
(* but what it could not open or stat and what another attempt has linked, *)
(* whatever the agent makes, removes and replaces meanwhile.               *)
THEOREM RefusalHolds == InputSpec => []DeniedLeavesNothing
<1>1. InputInv => DeniedLeavesNothing
  BY DEF InputInv, AttemptInv, ResultHolds, DeniedLeavesNothing
<1>2. InputSpec => []InputInv
  BY InputInvariant
<1> QED BY <1>1, <1>2, PTL

(* No attempt, however it fails or cleans up, replaces or removes the file *)
(* or directory of another one or of the agent, unless the agent changed   *)
(* the name between the look at it and its removal.                        *)
THEOREM OwnFilesOnly == InputSpec => OnlyItsOwn
<1> DEFINE AllOwn == /\ RemovesOwn("target", target, target')
                     /\ RemovesOwn("temporary", temporary, temporary')
                     /\ RemovesOwn("directory", directory, directory')
<1>1. ASSUME InputInv, [InputNext]_inputVars PROVE AllOwn
  <2> USE DEF Goto, files, RemovesOwn
  <2>0. callPc \in [Attempts -> AttemptLabels]
    BY <1>1 DEF InputInv, InputTyped
  <2>1. ASSUME NEW a \in Attempts, UnlinkTemporary(a) \/ RemoveTemporary(a)
        PROVE  AllOwn
    <3>1. temporary = a \/ "temporary" \in slipped
      BY <1>1, <2>1 DEF InputInv, AttemptInv, Looked, UnlinkTemporary,
                        RemoveTemporary
    <3>2. /\ UNCHANGED <<target, directory>>
          /\ temporary' # temporary => callPc'[a] # callPc[a]
      BY <2>0, <2>1 DEF UnlinkTemporary, RemoveTemporary, Fail, Proceed,
                        NotRemoved
    <3> QED BY <3>1, <3>2
  <2>2. ASSUME NEW a \in Attempts, RemovePublished(a) PROVE AllOwn
    <3>1. target = a \/ "target" \in slipped
      BY <1>1, <2>2 DEF InputInv, AttemptInv, Looked, RemovePublished
    <3>2. /\ UNCHANGED <<temporary, directory>>
          /\ callPc'[a] # callPc[a]
      BY <2>0, <2>2 DEF RemovePublished, Proceed, NotRemoved
    <3> QED BY <3>1, <3>2
  <2>3. ASSUME NEW a \in Attempts, RemoveDirectory(a) PROVE AllOwn
    <3>1. directory = a \/ "directory" \in slipped
      BY <1>1, <2>3 DEF InputInv, AttemptInv, Looked, RemoveDirectory
    <3>2. /\ UNCHANGED <<temporary, target>>
          /\ callPc'[a] # callPc[a]
      BY <2>0, <2>3 DEF RemoveDirectory, Proceed, NotRemoved
    <3> QED BY <3>1, <3>2
  <2>4. ASSUME NEW a \in Attempts,
               MakeParent(a) \/ CreateTemporary(a) \/ LinkTarget(a)
        PROVE  AllOwn
    BY <2>4 DEF MakeParent, CreateTemporary, LinkTarget
  <2>5. ASSUME NEW a \in Attempts,
               \/ Check(a) \/ OpenDirectory(a) \/ WriteTemporary(a) \/ Sync(a)
               \/ MatchOwn(a) \/ VerifyTarget(a) \/ Close(a)
               \/ MatchPublished(a) \/ MatchTemporary(a) \/ MatchDirectory(a)
               \/ CloseDenied(a) \/ Die(a)
        PROVE  AllOwn
    BY <2>5 DEF Check, OpenDirectory, WriteTemporary, Sync, MatchOwn,
                VerifyTarget, Close, MatchPublished, MatchTemporary,
                MatchDirectory, CloseDenied, Die
  <2>6. CASE OtherWrites \/ UNCHANGED inputVars
    BY <2>6 DEF OtherWrites, inputVars
  <2> HIDE DEF AllOwn
  <2> QED BY <1>1, <2>1, <2>2, <2>3, <2>4, <2>5, <2>6 DEF InputNext, Step
<1>2. InputInv /\ [InputNext]_inputVars => [AllOwn]_inputVars
  BY <1>1
<1>3. InputSpec => []InputInv
  BY InputInvariant
<1> QED BY <1>2, <1>3, PTL DEF InputSpec, OnlyItsOwn
=============================================================================
