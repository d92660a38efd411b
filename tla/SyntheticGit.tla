----------------------------- MODULE SyntheticGit -----------------------------
(***************************************************************************)
(* The git that the agent sees (workspace/synthetic_git.py): an anchor     *)
(* taken from the baseline and an index in memory; no repository.  One     *)
(* operation runs at a time, under the lock of the context, and reads the  *)
(* task workspace file by file while tools may change it.                  *)
(***************************************************************************)
EXTENDS Naturals

CONSTANTS
    Files,              \* paths of regular files
    Links,              \* symlinks of the baseline, which nobody changes
    LinkTo,             \* the file each of them leads to
    GitContents,
    MaxEdits            \* bound: edits by the agent's tools

NoFile == "absent"
LinkText == "link"      \* what the baseline has as the content of a link
GitPaths == Files \cup Links
Snapshot == GitContents \cup {LinkText, NoFile}

ASSUME LinksLeadToFiles ==
    /\ Files \cap Links = {}
    /\ LinkTo \in [Links -> Files]
    /\ {NoFile, LinkText} \cap GitContents = {}

VARIABLES
    anchor,             \* context._anchor
    index,              \* context._index, NoFile for no entry
    tree,               \* the regular files of the task workspace
    operation,          \* the operation that runs, NoOperation if none
    feedback,           \* what the last one returned
    gitEdits,           \* edits so far
    quiet               \* history: no edit since the operation began

gitVars == <<anchor, index, tree, operation, feedback, gitEdits, quiet>>

-----------------------------------------------------------------------------
(* Data *)

GitOperation == {"STATUS", "DIFF", "CACHED_DIFF", "STAGE", "UNSTAGE"}

NoOperation == [kind |-> "none", paths |-> {}, left |-> {},
                read |-> [p \in GitPaths |-> NoFile]]

NoFeedback == [kind |-> "none", disposition |-> "none", paths |-> {}]

\* What is under a name of the workspace now: os.lstat, os.scandir
Present(p) == p \in Files => tree[p] # NoFile

Different(before, after) == {p \in GitPaths : before[p] # after[p]}

\* A workspace that has just been materialized; the index is the anchor.
GitInit ==
    /\ tree \in [Files -> GitContents \cup {NoFile}]
    /\ \A l \in Links : tree[LinkTo[l]] # NoFile
    /\ anchor = [p \in GitPaths |-> IF p \in Links THEN LinkText ELSE tree[p]]
    /\ index = anchor
    /\ operation = NoOperation
    /\ feedback = NoFeedback
    /\ gitEdits = 0
    /\ quiet = TRUE

-----------------------------------------------------------------------------
(* SyntheticGit.run *)

Return(kind, disposition, paths) ==
    /\ operation' = NoOperation
    /\ feedback' = [kind |-> kind, disposition |-> disposition, paths |-> paths]

\* The paths status looks at
Relevant == {p \in GitPaths : index[p] # NoFile \/ Present(p)}

Start(kind, paths, left) ==
    /\ operation' = [kind |-> kind, paths |-> paths, left |-> left,
                     read |-> NoOperation.read]
    /\ feedback' = NoFeedback
    /\ quiet' = TRUE
    /\ UNCHANGED <<anchor, index, tree, gitEdits>>

\* diff looks at the index only.
Begin ==
    /\ operation = NoOperation
    /\ \/ Start("STATUS", Relevant, Relevant)
       \/ LET indexed == {p \in GitPaths : index[p] # NoFile}
          IN Start("DIFF", indexed, indexed)
       \/ \E paths \in (SUBSET GitPaths) \ {{}} : Start("STAGE", paths, paths)

\* A known path is one of the anchor or the index.
Known(p) == anchor[p] # NoFile \/ index[p] # NoFile

\* _snapshot_from_supported reads through a link.
ReadFile(p) ==
    [operation EXCEPT !.left = @ \ {p},
                      !.read[p] = IF p \in Links THEN tree[LinkTo[p]] ELSE tree[p]]

\* Mutant: stage writes to the index as it reads.
ReadNext_StagesAtOnce ==
    /\ \E p \in operation.left :
          /\ ~(p \in Links /\ tree[LinkTo[p]] = NoFile)
          /\ operation.kind = "STAGE" => Present(p) \/ Known(p)
          /\ operation' = ReadFile(p)
          /\ index' = IF operation.kind = "STAGE"
                      THEN [index EXCEPT ![p] = ReadFile(p).read[p]] ELSE index
    /\ UNCHANGED <<anchor, tree, feedback, gitEdits, quiet>>

\* A link that leads nowhere is rejected, and so is a path to stage that is
\* nowhere; a file that changes while it is read, a limit, ... is a failure.
ReadNext ==
    /\ \E p \in operation.left :
          /\ ~(p \in Links /\ tree[LinkTo[p]] = NoFile)
          /\ operation.kind = "STAGE" => Present(p) \/ Known(p)
          /\ operation' = ReadFile(p)
    /\ UNCHANGED <<anchor, index, tree, feedback, gitEdits, quiet>>

ReadFails ==
    /\ operation.left # {}
    /\ \E disposition \in {"REJECTED", "INTERNAL_FAILURE"} :
          Return(operation.kind, disposition, {})
    /\ UNCHANGED <<anchor, index, tree, gitEdits, quiet>>

Read(kind) == operation.kind = kind /\ operation.left = {}

\* Mutant: status compares the workspace with the index only.
StatusPaths_NotCached ==
    {p \in operation.paths : index[p] # operation.read[p]}

StatusPaths ==
    Different(anchor, index)
    \cup {p \in operation.paths : index[p] # operation.read[p]}

ReportStatus ==
    /\ Read("STATUS")
    /\ Return("STATUS", "ACCEPTED", StatusPaths)
    /\ UNCHANGED <<anchor, index, tree, gitEdits, quiet>>

Diff ==
    /\ Read("DIFF")
    /\ Return("DIFF", "ACCEPTED",
              {p \in operation.paths : index[p] # operation.read[p]})
    /\ UNCHANGED <<anchor, index, tree, gitEdits, quiet>>

CachedDiff ==
    /\ operation = NoOperation
    /\ Return("CACHED_DIFF", "ACCEPTED", Different(anchor, index))
    /\ UNCHANGED <<anchor, index, tree, gitEdits, quiet>>

Stage ==
    /\ Read("STAGE")
    /\ index' = [p \in GitPaths |-> IF p \in operation.paths
                                 THEN operation.read[p] ELSE index[p]]
    /\ Return("STAGE", "ACCEPTED", operation.paths)
    /\ UNCHANGED <<anchor, tree, gitEdits, quiet>>

Unstage ==
    /\ operation = NoOperation
    /\ \E paths \in (SUBSET GitPaths) \ {{}} :
          IF \A p \in paths : Known(p)
          THEN /\ index' = [p \in GitPaths |-> IF p \in paths THEN anchor[p]
                                            ELSE index[p]]
               /\ Return("UNSTAGE", "ACCEPTED", paths)
          ELSE Return("UNSTAGE", "REJECTED", {}) /\ UNCHANGED index
    /\ UNCHANGED <<anchor, tree, gitEdits, quiet>>

\* A tool of the agent writes or deletes a file, at any time.
EditFile ==
    /\ gitEdits < MaxEdits
    /\ \E f \in Files, c \in GitContents \cup {NoFile} :
          c # tree[f] /\ tree' = [tree EXCEPT ![f] = c]
    /\ gitEdits' = gitEdits + 1
    /\ quiet' = FALSE
    /\ feedback' = NoFeedback
    /\ UNCHANGED <<anchor, index, operation>>

GitNext ==
    \/ Begin \/ ReadNext \/ ReadFails \/ ReportStatus \/ Diff \/ CachedDiff \/ Stage
    \/ Unstage \/ EditFile

GitSpec == GitInit /\ [][GitNext]_gitVars

-----------------------------------------------------------------------------
(* Properties *)

\* Status hides nothing: after an edit that ended before it began, however
\* much of it was staged, unstaged or deleted, it names every file that is
\* not what the baseline has.
StatusHidesNothing ==
    feedback.kind = "STATUS" /\ feedback.disposition = "ACCEPTED" /\ quiet =>
        {f \in Files : tree[f] # anchor[f]} \subseteq feedback.paths

\* Stage is all or nothing: the index only changes to what a whole operation
\* that was accepted has read, or back to the anchor.
IndexMovesWhole ==
    [][index' # index =>
         /\ feedback'.disposition = "ACCEPTED"
         /\ \A p \in GitPaths :
               index'[p] = IF p \notin feedback'.paths THEN index[p]
                           ELSE IF feedback'.kind = "STAGE"
                           THEN operation.read[p] ELSE anchor[p]]_gitVars
=============================================================================
