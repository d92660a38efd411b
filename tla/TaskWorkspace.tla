---------------------------- MODULE TaskWorkspace ----------------------------
(***************************************************************************)
(* The task workspace of one task, from the user's repository and back to  *)
(* its door: build_baseline (workspace/manifest.py), materialize_workspace *)
(* (materialize.py), compute_changeset (changeset.py) and detect_conflicts *)
(* (transaction/conflicts.py), while the user edits the repository and the *)
(* agent edits the workspace, at any time and between any two steps.  No   *)
(* lock keeps either of them out.                                          *)
(*                                                                         *)
(* A content stands for all that is compared of an entry: digest, kind,    *)
(* executable bit and link target.  The service that calls the four in     *)
(* turn is external: it may compute and confirm change sets at any time.   *)
(***************************************************************************)
EXTENDS Naturals, Sequences

CONSTANTS
    Order,              \* the paths git knows or may know, in its order
    Ignored,            \* paths that .gitignore excludes
    Contents,
    AgentContents,      \* those of them that the agent writes
    IgnoredContent,     \* what the ignored files hold
    HEAD,               \* content of each path of Order in HEAD and index
    TargetPaths,        \* sets of target_paths to ask for, Paths for None
    MaxCaptureEdits,    \* bound: edits of the user during build_baseline
    MaxUserEdits,       \* bound: edits of the user afterwards
    MaxAgentEdits,      \* bound: edits of the agent
    TearingEdits        \* edits it takes to tear a baseline

Absent == "absent"
Listed == {Order[i] : i \in DOMAIN Order}
Paths == Listed \cup Ignored
State == Contents \cup {Absent}

ASSUME WorkspaceAssumption ==
    /\ Order \in Seq(Listed) /\ Order # <<>>
    /\ \A i, j \in DOMAIN Order : Order[i] = Order[j] => i = j
    /\ Listed \cap Ignored = {}
    /\ Absent \notin Contents
    /\ AgentContents \subseteq Contents /\ IgnoredContent \in Contents
    /\ HEAD \in [Listed -> State]
    /\ TargetPaths \subseteq SUBSET Paths

VARIABLES
    pc,                 \* where the service is
    at,                 \* position in Order of the path in work
    source,             \* the user's repository
    git,                \* initial_state, as far as it has been read
    entries,            \* entries of build_baseline, Absent for none
    equal,              \* what was read again is what was read before
    baseline,           \* the BaselineManifest
    workspace,          \* the directory of the TaskWorkspace
    walk,               \* a walk of compute_changeset through the workspace
    changeset,          \* the ChangeSet last computed
    confirmed,          \* the ApplyConfirmation
    report,             \* detect_conflicts, while and after it runs
    edits,              \* edits of the user in this part
    work,               \* edits of the agent
    moments,            \* history: what the repository was during the capture,
                        \* as far as it agrees with the entries read
    tear,               \* history: edits that tore the baseline, 0 if whole
    touched,            \* history: paths written to in the workspace
    meanwhile           \* history: those of them written to since
                        \* detect_conflicts was called

capture == <<git, entries, equal, moments>>
decision == <<walk, changeset, confirmed, report>>
written == <<touched, meanwhile>>
vars == <<pc, at, source, capture, baseline, workspace, decision, edits, work,
          tear, written>>

-----------------------------------------------------------------------------
(* Data *)

NoFiles == [p \in Paths |-> Absent]
NoDirectory == <<>>
NoChangeSet == [targets |-> {}, changes |-> {}]
Walk(targets, unlisted) ==
    [targets |-> targets, unlisted |-> unlisted, listed |-> {},
     files |-> NoFiles]
NoWalk == Walk({}, {})
NoReport == [result |-> "none", changes |-> {}, left |-> {}, blocked |-> FALSE,
             seen |-> NoFiles]
NoGit == [candidates |-> {}, status |-> <<>>]

\* git ls-files --cached --others --exclude-standard
Candidates(files) == {p \in Listed : HEAD[p] # Absent \/ files[p] # Absent}

\* git status, diff --cached and diff, by path: no contents
Status(files) ==
    [p \in Listed |->
        IF files[p] = HEAD[p] THEN "clean"
        ELSE IF HEAD[p] = Absent THEN "untracked"
        ELSE IF files[p] = Absent THEN "deleted" ELSE "modified"]

Init ==
    /\ pc = "candidates" /\ at = 1
    /\ source \in {f \in [Paths -> State] :
                    \A p \in Ignored : f[p] = IgnoredContent}
    /\ git = NoGit /\ entries = NoFiles /\ equal = TRUE
    /\ baseline = NoFiles
    /\ workspace = NoDirectory
    /\ walk = NoWalk
    /\ changeset = NoChangeSet
    /\ confirmed = NoChangeSet
    /\ report = NoReport
    /\ edits = 0 /\ work = 0
    /\ moments = {[p \in Listed |-> source[p]]}
    /\ tear = 0
    /\ touched = {} /\ meanwhile = {}

-----------------------------------------------------------------------------
(* build_baseline *)

Capturing == {"candidates", "status", "pass", "repeat", "candidates again",
              "status again"}

\* The subprocesses of _capture_git_state run one after the other.
ListCandidates ==
    /\ pc = "candidates"
    /\ git' = [git EXCEPT !.candidates = Candidates(source)]
    /\ pc' = "status"
    /\ UNCHANGED <<at, source, entries, equal, moments, baseline, workspace,
                   decision, edits, work, tear, written>>

ReadStatus ==
    /\ pc = "status"
    /\ git' = [git EXCEPT !.status = Status(source)]
    /\ pc' = "pass" /\ at' = 1
    /\ UNCHANGED <<source, entries, equal, moments, baseline, workspace,
                   decision, edits, work, tear, written>>

\* To the next path of Order, or to what follows the last one
Advance(next) ==
    IF at < Len(Order) THEN at' = at + 1 /\ UNCHANGED pc
    ELSE at' = 1 /\ pc' = next

\* _capture_entry: inspect, read and inspect again are one step, as they
\* yield what was there when the file was inspected first.
CaptureEntry ==
    /\ pc = "pass"
    /\ entries' = IF Order[at] \in git.candidates
                  THEN [entries EXCEPT ![Order[at]] = source[Order[at]]]
                  ELSE entries
    /\ moments' = {m \in moments : m[Order[at]] = entries'[Order[at]]}
    /\ Advance("repeat")
    /\ UNCHANGED <<source, git, equal, baseline, workspace, decision, edits,
                   work, tear, written>>

\* Mutant: the entries are not captured a second time.
RepeatEntry_Once ==
    /\ pc = "repeat"
    /\ Advance("candidates again")
    /\ UNCHANGED <<source, capture, baseline, workspace, decision, edits,
                   work, tear, written>>

\* The second pass reads the entries of the first; one that is gone raises.
RepeatEntry ==
    /\ pc = "repeat"
    /\ LET p == Order[at] IN
       \/ /\ entries[p] = Absent
          /\ UNCHANGED equal
       \/ /\ entries[p] # Absent /\ source[p] # Absent
          /\ equal' = (equal /\ source[p] = entries[p])
    /\ Advance("candidates again")
    /\ UNCHANGED <<source, git, entries, moments, baseline, workspace,
                   decision, edits, work, tear, written>>

ListAgain ==
    /\ pc = "candidates again"
    /\ equal' = (equal /\ git.candidates = Candidates(source))
    /\ pc' = "status again"
    /\ UNCHANGED <<at, source, git, entries, moments, baseline, workspace,
                   decision, edits, work, tear, written>>

FinishBaseline ==
    /\ pc = "status again"
    /\ IF equal /\ git.status = Status(source)
       THEN /\ baseline' = entries
            /\ pc' = "materialize"
            /\ tear' = IF moments # {} THEN 0 ELSE edits
       ELSE /\ pc' = "refused"
            /\ UNCHANGED <<baseline, tear>>
    /\ at' = 1 /\ edits' = 0
    /\ git' = NoGit /\ entries' = NoFiles /\ equal' = TRUE /\ moments' = {}
    /\ UNCHANGED <<source, workspace, decision, work, written>>

\* An entry that cannot be inspected, a limit, a git that fails, ...
CaptureFails ==
    /\ pc \in Capturing
    /\ pc' = "refused" /\ at' = 1 /\ edits' = 0
    /\ git' = NoGit /\ entries' = NoFiles /\ equal' = TRUE /\ moments' = {}
    /\ UNCHANGED <<source, baseline, workspace, decision, work, tear, written>>

-----------------------------------------------------------------------------
(* materialize_workspace *)

MakeDirectory ==
    /\ pc = "materialize"
    /\ IF workspace = NoDirectory
       THEN workspace' = NoFiles /\ pc' = "write"
       ELSE UNCHANGED workspace /\ pc' = "refused"
    /\ UNCHANGED <<at, source, capture, baseline, decision, edits, work, tear,
                   written>>

\* Mutant: the entry is copied from the repository.
WriteEntry_FromSource ==
    /\ pc = "write"
    /\ workspace' = [workspace EXCEPT ![Order[at]] = source[Order[at]]]
    /\ Advance("work")
    /\ UNCHANGED <<source, capture, baseline, decision, edits, work, tear,
                   written>>

WriteEntry ==
    /\ pc = "write"
    /\ workspace' = [workspace EXCEPT ![Order[at]] = baseline[Order[at]]]
    /\ Advance("work")
    /\ UNCHANGED <<source, capture, baseline, decision, edits, work, tear,
                   written>>

\* A write fails, after which rmtree ignores its own errors, or the process
\* dies; the caller may try again with the same destination.
MaterializeFails ==
    /\ pc = "write"
    /\ workspace' \in {NoDirectory, workspace}
    /\ pc' = "materialize" /\ at' = 1
    /\ UNCHANGED <<source, capture, baseline, decision, edits, work, tear,
                   written>>

-----------------------------------------------------------------------------
(* compute_changeset *)

Walking == {"changeset", "recompute"}
Detecting == {"recompute", "detect", "permitted"}
Materialised == {"work"} \cup Walking \cup Detecting

ComputeChangeset ==
    /\ pc = "work"
    /\ \E targets \in TargetPaths : walk' = Walk(targets, Paths)
    /\ pc' = "changeset"
    /\ UNCHANGED <<at, source, capture, baseline, workspace, changeset,
                   confirmed, report, edits, work, tear, written>>

\* _workspace_paths: which names there are, one directory entry at a time
ListPath ==
    /\ pc \in Walking
    /\ \E p \in walk.unlisted :
          walk' = [walk EXCEPT
                      !.unlisted = @ \ {p},
                      !.listed = IF workspace[p] = Absent THEN @
                                 ELSE @ \cup {p}]
    /\ UNCHANGED <<pc, at, source, capture, baseline, workspace, changeset,
                   confirmed, report, edits, work, tear, written>>

\* _workspace_snapshot: then what each of those listed holds
InspectPath ==
    /\ pc \in Walking /\ walk.unlisted = {}
    /\ \E p \in walk.listed :
          /\ workspace[p] # Absent
          /\ walk' = [walk EXCEPT !.listed = @ \ {p},
                                  !.files[p] = workspace[p]]
    /\ UNCHANGED <<pc, at, source, capture, baseline, workspace, changeset,
                   confirmed, report, edits, work, tear, written>>

\* ValueError: a listed path that is gone or changes while it is inspected,
\* an entry of another kind, a limit.  detect_conflicts lets it through.
WalkFails ==
    /\ pc \in Walking
    /\ walk' = NoWalk /\ meanwhile' = {}
    /\ pc' = "work"
    /\ UNCHANGED <<at, source, capture, baseline, workspace, changeset,
                   confirmed, report, edits, work, tear, touched>>

\* Of the whole directory: an ignored input that was put there is a change.
Changes(base, files, targets) ==
    {[path |-> p, before |-> base[p], after |-> files[p],
      scope |-> IF p \in targets THEN "TARGET" ELSE "UNRELATED"] :
     p \in {q \in Paths : base[q] # files[q]}}

Walked == walk.unlisted = {} /\ walk.listed = {}

FinishChangeset ==
    /\ pc = "changeset" /\ Walked
    /\ changeset' = [targets |-> walk.targets,
                     changes |-> Changes(baseline, walk.files, walk.targets)]
    /\ walk' = NoWalk
    /\ pc' = "work"
    /\ UNCHANGED <<at, source, capture, baseline, workspace, confirmed, report,
                   edits, work, tear, written>>

-----------------------------------------------------------------------------
(* detect_conflicts *)

Scope(changes, s) == {c \in changes : c.scope = s}

Detect ==
    /\ pc = "work"
    /\ confirmed # NoChangeSet
    /\ walk' = Walk(changeset.targets, Paths)
    /\ pc' = "recompute"
    /\ UNCHANGED <<at, source, capture, baseline, workspace, changeset,
                   confirmed, report, edits, work, tear, written>>

\* Mutant: the confirmation is compared with the change set as it was
\* computed, which is not computed again.
Recompute_Trusted == changeset.changes

\* The change set of the second walk
Recompute == Changes(baseline, walk.files, walk.targets)

\* The other facts that block: another confirmation binding, acceptance, an
\* active transaction, a required recovery, the policy.
CompareChangesets ==
    /\ pc = "recompute" /\ Walked
    /\ \E others \in BOOLEAN :
          report' = [result |-> "none",
                     changes |-> Recompute,
                     left |-> {c.path : c \in Scope(Recompute, "TARGET")},
                     blocked |-> \/ others
                                 \/ confirmed # changeset
                                 \/ Recompute # changeset.changes
                                 \/ Scope(Recompute, "UNRELATED") # {},
                     seen |-> NoFiles]
    /\ walk' = NoWalk
    /\ pc' = "detect"
    /\ UNCHANGED <<at, source, capture, baseline, workspace, changeset,
                   confirmed, edits, work, tear, written>>

\* inspect_supported_entry: all of it but the path that git ignores is about
\* kinds, links, limits and states of a repository the model does not have.
Unsupported(path, current) == path \in Ignored /\ current # Absent

\* Mutant: nothing can be lost where the baseline has nothing.
TargetConflict_NotForNew(change, current) ==
    /\ change.before # Absent
    /\ \/ Unsupported(change.path, current)
       \/ current \notin {change.before, change.after}

\* A target is as the baseline or as the agent has it, or it conflicts.
TargetConflict(change, current) ==
    \/ Unsupported(change.path, current)
    \/ current \notin {change.before, change.after}

\* _target_conflicts reads one path after the other.
ReadTarget ==
    /\ pc = "detect"
    /\ \E c \in report.changes :
          /\ c.path \in report.left
          /\ report' = [report EXCEPT
                           !.left = @ \ {c.path},
                           !.seen[c.path] = source[c.path],
                           !.blocked = @ \/ TargetConflict(c, source[c.path])]
    /\ UNCHANGED <<pc, at, source, capture, baseline, workspace, walk,
                   changeset, confirmed, edits, work, tear, written>>

\* A task that may not apply goes back to work.
Report ==
    /\ pc = "detect" /\ report.left = {}
    /\ IF report.blocked
       THEN pc' = "work" /\ report' = NoReport /\ meanwhile' = {}
       ELSE /\ pc' = "permitted" /\ UNCHANGED meanwhile
            /\ report' = [report EXCEPT !.result = "permitted"]
    /\ UNCHANGED <<at, source, capture, baseline, workspace, walk, changeset,
                   confirmed, edits, work, tear, touched>>

-----------------------------------------------------------------------------
(* The others *)

\* The paths the first pass is through with
Recorded ==
    LET passed(k) == IF pc = "pass" THEN k < at
                     ELSE pc \notin {"candidates", "status"}
    IN {Order[k] : k \in {i \in DOMAIN Order : passed(i)}}

UserEdits ==
    /\ edits < IF pc \in Capturing THEN MaxCaptureEdits ELSE MaxUserEdits
    /\ \/ \E p \in Listed, c \in State :
             c # source[p] /\ source' = [source EXCEPT ![p] = c]
       \/ \E p \in Ignored :
             /\ pc \notin Capturing /\ source[p] # Absent
             /\ source' = [source EXCEPT ![p] = Absent]
    /\ edits' = edits + 1
    /\ moments' = IF /\ pc \in Capturing
                     /\ \A p \in Recorded : source'[p] = entries[p]
                  THEN moments \cup {[p \in Listed |-> source'[p]]}
                  ELSE moments
    /\ UNCHANGED <<pc, at, git, entries, equal, baseline, workspace, decision,
                   work, tear, written>>

Write(p, c) ==
    /\ workspace' = [workspace EXCEPT ![p] = c]
    /\ touched' = touched \cup {p}
    /\ meanwhile' = IF pc \in Detecting THEN meanwhile \cup {p} ELSE {}

\* The agent's tools, in the sandbox
AgentEdits ==
    /\ pc \in Materialised /\ work < MaxAgentEdits
    /\ \E p \in Listed, c \in AgentContents \cup {Absent} :
          c # workspace[p] /\ Write(p, c)
    /\ work' = work + 1
    /\ UNCHANGED <<pc, at, source, capture, baseline, decision, edits, tear>>

\* materialize_ignored_input; IgnoredInput has its steps.
PublishIgnored ==
    /\ pc \in Materialised
    /\ \E p \in Ignored :
          /\ source[p] # Absent /\ workspace[p] = Absent
          /\ Write(p, source[p])
    /\ UNCHANGED <<pc, at, source, capture, baseline, decision, edits, work,
                   tear>>

\* The user confirms the change set that was computed last.
Confirm ==
    /\ pc = "work" /\ changeset # NoChangeSet
    /\ confirmed' = changeset
    /\ UNCHANGED <<pc, at, source, capture, baseline, workspace, walk,
                   changeset, report, edits, work, tear, written>>

Next ==
    \/ ListCandidates \/ ReadStatus \/ CaptureEntry \/ RepeatEntry \/ ListAgain
    \/ FinishBaseline \/ CaptureFails
    \/ MakeDirectory \/ WriteEntry \/ MaterializeFails
    \/ ComputeChangeset \/ ListPath \/ InspectPath \/ WalkFails
    \/ FinishChangeset \/ Detect \/ CompareChangesets \/ ReadTarget \/ Report
    \/ UserEdits \/ AgentEdits \/ PublishIgnored \/ Confirm

Spec == Init /\ [][Next]_vars

-----------------------------------------------------------------------------
(* Properties *)

\* A baseline is what the repository was at one moment of the capture, unless
\* the user made TearingEdits edits meanwhile: the two passes of
\* build_baseline and the git state around them leave no smaller gap.
BaselineIsASnapshot == tear = 0 \/ tear >= TearingEdits

\* The change set blames the agent for nothing that others did: whatever the
\* user edits during or after the capture, and whatever failed before, every
\* change is of a path that was written to in the workspace.
ChangesAreTheAgents == \A c \in changeset.changes : c.path \in touched

\* What is permitted to be written back is what the user has confirmed, stays
\* inside the target paths, and is what the workspace holds: whatever was
\* written to it before detect_conflicts was called, during the walks or
\* between them, is in what was confirmed.  Only a path that is written to
\* while detect_conflicts runs, or after it, may differ.
PermittedIsConfirmed ==
    pc = "permitted" =>
        /\ confirmed = changeset /\ report.changes = confirmed.changes
        /\ \A c \in confirmed.changes : c.path \in confirmed.targets
        /\ \A p \in Paths \ meanwhile :
              {c.after : c \in {d \in confirmed.changes : d.path = p}}
                = {workspace[p]} \ {baseline[p]}

\* A permitted write-back replaces nothing the user has written since the
\* baseline: each target, when it was looked at, was what the baseline or the
\* agent has there, and an ignored file is never replaced.
NothingNewReplaced ==
    pc = "permitted" =>
        \A c \in report.changes :
            report.seen[c.path] \in
                {Absent, c.after} \cup
                (IF c.path \in Ignored THEN {} ELSE {baseline[c.path]})
=============================================================================
