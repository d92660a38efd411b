----------------------------- MODULE IgnoredInput -----------------------------
(***************************************************************************)
(* materialize_ignored_input (workspace/ignored.py): calls, at once or one *)
(* after the other, that put the same approved ignored file into the task  *)
(* workspace, below a directory that may have to be made.  One step for    *)
(* each system call of _publish_copy and of its cleanup; any of them may   *)
(* fail and any call may die.  Meanwhile the tools of the agent, which     *)
(* owns the workspace, make, remove and replace the three names.           *)
(*                                                                         *)
(* A file or directory is the inode of the attempt that made it, or Other. *)
(* An inode is not used again: an attempt has its own open until it        *)
(* returns.  The temporary name is a hash of path and content: the same    *)
(* for all.                                                                *)
(***************************************************************************)

EXTENDS Naturals

CONSTANTS
    Attempts,           \* calls with the same approval
    None, Other,        \* no file; a file of somebody else
    MaxOtherWrites      \* bound: what the agent does to the three names

ASSUME DistinctNames ==
    None \notin Attempts /\ Other \notin Attempts \cup {None}

VARIABLES
    callPc,             \* the next system call of each attempt
    opened,             \* the directory it has open
    owns,               \* its receipts: "directory", "temporary", "published"
    complete,           \* cleanup_complete
    result,             \* what it has returned
    directory, temporary, target,       \* the inode of each name
    whole,              \* inodes that are written, protected and flushed
    forgot,             \* history: what is of it and it has no receipt for
    otherWrites,        \* number of them
    slipped,            \* history: names the agent changed while an attempt
                        \* was between its look at one and what it then did
    taken               \* history: attempts whose published file the agent
                        \* removed or replaced

files == <<directory, temporary, target, whole>>
agent == <<otherWrites, slipped, taken>>
inputVars == <<callPc, opened, owns, complete, result, files, forgot, agent>>

-----------------------------------------------------------------------------
InputInit ==
    /\ callPc = [a \in Attempts |-> "check"]
    /\ opened = [a \in Attempts |-> None]
    /\ owns = [a \in Attempts |-> {}]
    /\ complete = [a \in Attempts |-> TRUE]
    /\ result = [a \in Attempts |-> "none"]
    /\ directory \in {None, Other}
    /\ temporary = None
    /\ target = None
    /\ whole = {}
    /\ forgot = [a \in Attempts |-> {}]
    /\ otherWrites = 0 /\ slipped = {} /\ taken = {}

\* A name in a directory that is not there any more cannot be reached.
Reaches(a) == directory # None /\ opened[a] = directory

Goto(a, label) == callPc' = [callPc EXCEPT ![a] = label]

Receipt(a, phase) == owns' = [owns EXCEPT ![a] = @ \cup {phase}]

\* The except clause of _publish_copy: first the target is removed, ...
Fail(a) == Goto(a, "match_published")

-----------------------------------------------------------------------------
(* materialize_ignored_input before and after the publication *)

\* Bindings, approval, limits and the source, all checked before anything is
\* written; what is denied here has done nothing.
Check(a) ==
    /\ callPc[a] = "check"
    /\ \/ Goto(a, "mkdir") /\ UNCHANGED result
       \/ Goto(a, "done") /\ result' = [result EXCEPT ![a] = "denied"]
    /\ UNCHANGED <<opened, owns, complete, files, forgot>>

Finish(a, r, c) ==
    /\ Goto(a, "done")
    /\ result' = [result EXCEPT ![a] = r]
    /\ complete' = [complete EXCEPT ![a] = c]

\* _close_descriptors; after a failure the target is not taken back.
Close(a) ==
    /\ callPc[a] = "close"
    /\ \/ Finish(a, "permitted", TRUE)
       \/ Finish(a, "denied", FALSE)
    /\ UNCHANGED <<opened, owns, files, forgot>>

CloseDenied(a) ==
    /\ callPc[a] = "close_denied"
    /\ \/ Finish(a, "denied", complete[a])
       \/ Finish(a, "denied", FALSE)
    /\ UNCHANGED <<opened, owns, files, forgot>>

-----------------------------------------------------------------------------
(* _publish_copy *)

\* A directory that is made is owned only when it has been opened; the receipt
\* is for the one that was opened.
MakeParent(a) ==
    /\ callPc[a] = "mkdir"
    /\ \/ /\ directory = None
          /\ directory' = a
          /\ forgot' = [forgot EXCEPT ![a] = @ \cup {"directory"}]
          /\ Goto(a, "open")
       \/ directory # None /\ Goto(a, "open") /\ UNCHANGED <<directory, forgot>>
       \/ Fail(a) /\ UNCHANGED <<directory, forgot>>
    /\ UNCHANGED <<opened, owns, complete, result, temporary, target, whole>>

OpenDirectory(a) ==
    /\ callPc[a] = "open"
    /\ \/ /\ directory # None
          /\ opened' = [opened EXCEPT ![a] = directory]
          /\ Goto(a, "temporary")
          /\ IF "directory" \in forgot[a]
             THEN /\ Receipt(a, "directory")
                  /\ forgot' = [forgot EXCEPT ![a] = @ \ {"directory"}]
             ELSE UNCHANGED <<owns, forgot>>
       \/ Fail(a) /\ UNCHANGED <<opened, owns, forgot>>
    /\ UNCHANGED <<complete, result, files>>

\* O_EXCL; the receipt needs an fstat, which may fail.
CreateTemporary(a) ==
    /\ callPc[a] = "temporary"
    /\ \/ /\ Reaches(a) /\ temporary = None
          /\ temporary' = a
          /\ \/ Receipt(a, "temporary") /\ Goto(a, "write") /\ UNCHANGED forgot
             \/ /\ forgot' = [forgot EXCEPT ![a] = @ \cup {"temporary"}]
                /\ Fail(a) /\ UNCHANGED owns
       \/ Fail(a) /\ UNCHANGED <<temporary, owns, forgot>>
    /\ UNCHANGED <<opened, complete, result, directory, target, whole>>

\* Mutant: an error of write or fsync is ignored.
WriteTemporary_Unchecked(a) ==
    /\ callPc[a] = "write"
    /\ Goto(a, "link")
    /\ whole' \in {whole, whole \cup {a}}
    /\ UNCHANGED <<opened, owns, complete, result, directory, temporary,
                   target, forgot>>

\* All of write, digest, fchmod and fsync
WriteTemporary(a) ==
    /\ callPc[a] = "write"
    /\ \/ whole' = whole \cup {a} /\ Goto(a, "link")
       \/ Fail(a) /\ UNCHANGED whole
    /\ UNCHANGED <<opened, owns, complete, result, directory, temporary,
                   target, forgot>>

\* link does not replace a target; FileExistsError is TARGET_CONFLICT.  It
\* links what the temporary name has now; the receipt is for the own file.
LinkTarget(a) ==
    /\ callPc[a] = "link"
    /\ \/ /\ Reaches(a) /\ temporary # None /\ target = None
          /\ target' = temporary
          /\ forgot' = IF temporary \in Attempts \ {a}
                       THEN [forgot EXCEPT ![temporary] = @ \cup {"target"}]
                       ELSE forgot
          /\ Receipt(a, "published") /\ Goto(a, "sync")
       \/ Fail(a) /\ UNCHANGED <<target, owns, forgot>>
    /\ UNCHANGED <<opened, complete, result, directory, temporary, whole>>

\* fsync of the directory, before and after the temporary name is removed,
\* and the final look at target and root
Sync(a) ==
    /\ callPc[a] = "sync"
    /\ Goto(a, "match") \/ Fail(a)
    /\ UNCHANGED <<opened, owns, complete, result, files, forgot>>

\* _receipt_matches: a stat of the name, and is it the file of the receipt?
Matches(a, file) == Reaches(a) /\ file = a

MatchOwn(a) ==
    /\ callPc[a] = "match"
    /\ \/ Matches(a, temporary) /\ Goto(a, "unlink")
       \/ Fail(a)
    /\ UNCHANGED <<opened, owns, complete, result, files, forgot>>

\* unlink goes by the name and takes what is there now; to find nothing is
\* as good.
Unlinked(a, file) == IF Reaches(a) THEN None ELSE file

UnlinkTemporary(a) ==
    /\ callPc[a] = "unlink"
    /\ \/ /\ temporary' = Unlinked(a, temporary)
          /\ owns' = [owns EXCEPT ![a] = @ \ {"temporary"}]
          /\ Goto(a, "verify")
       \/ Fail(a) /\ UNCHANGED <<temporary, owns>>
    /\ UNCHANGED <<opened, complete, result, directory, target, whole, forgot>>

VerifyTarget(a) ==
    /\ callPc[a] = "verify"
    /\ \/ Matches(a, target) /\ Goto(a, "close")
       \/ Fail(a)
    /\ UNCHANGED <<opened, owns, complete, result, files, forgot>>

-----------------------------------------------------------------------------
(* _cleanup_owned: for each receipt, a look and then the removal by name *)

Proceed(a, next) ==
    /\ Goto(a, next)
    /\ UNCHANGED complete

NotRemoved(a, next) ==
    /\ Goto(a, next)
    /\ complete' = [complete EXCEPT ![a] = FALSE]

\* Mutant: the target is forgotten.
MatchPublished_Kept(a) ==
    /\ callPc[a] = "match_published"
    /\ Proceed(a, "match_temporary")
    /\ UNCHANGED <<opened, owns, result, files, forgot>>

MatchPublished(a) ==
    /\ callPc[a] = "match_published"
    /\ IF "published" \notin owns[a] THEN Proceed(a, "match_temporary")
       ELSE \/ Matches(a, target) /\ Proceed(a, "remove_published")
            \/ NotRemoved(a, "match_temporary")
    /\ UNCHANGED <<opened, owns, result, files, forgot>>

RemovePublished(a) ==
    /\ callPc[a] = "remove_published"
    /\ \/ target' = Unlinked(a, target) /\ Proceed(a, "match_temporary")
       \/ NotRemoved(a, "match_temporary") /\ UNCHANGED target
    /\ UNCHANGED <<opened, owns, result, directory, temporary, whole, forgot>>

\* Mutant: whoever fails removes the temporary name.
MatchTemporary_ByName(a) ==
    /\ callPc[a] = "match_temporary"
    /\ Proceed(a, "remove_temporary")
    /\ UNCHANGED <<opened, owns, result, files, forgot>>

MatchTemporary(a) ==
    /\ callPc[a] = "match_temporary"
    /\ IF "temporary" \notin owns[a] THEN Proceed(a, "match_directory")
       ELSE \/ Matches(a, temporary) /\ Proceed(a, "remove_temporary")
            \/ NotRemoved(a, "match_directory")
    /\ UNCHANGED <<opened, owns, result, files, forgot>>

RemoveTemporary(a) ==
    /\ callPc[a] = "remove_temporary"
    /\ \/ temporary' = Unlinked(a, temporary) /\ Proceed(a, "match_directory")
       \/ NotRemoved(a, "match_directory") /\ UNCHANGED temporary
    /\ UNCHANGED <<opened, owns, result, directory, target, whole, forgot>>

\* The receipt of the directory is for the one that was opened.
MatchDirectory(a) ==
    /\ callPc[a] = "match_directory"
    /\ IF "directory" \notin owns[a] THEN Proceed(a, "close_denied")
       ELSE \/ Reaches(a) /\ Proceed(a, "remove_directory")
            \/ NotRemoved(a, "close_denied")
    /\ UNCHANGED <<opened, owns, result, files, forgot>>

\* rmdir fails when the directory is in use.
RemoveDirectory(a) ==
    /\ callPc[a] = "remove_directory"
    /\ \/ /\ temporary = None /\ target = None
          /\ directory' = None
          /\ Proceed(a, "close_denied")
       \/ NotRemoved(a, "close_denied") /\ UNCHANGED directory
    /\ UNCHANGED <<opened, owns, result, temporary, target, whole, forgot>>

-----------------------------------------------------------------------------
(* The environment *)

Die(a) ==
    /\ callPc[a] # "done"
    /\ Goto(a, "done")
    /\ UNCHANGED <<opened, owns, complete, result, files, forgot>>

Step(a) ==
    /\ \/ Check(a) \/ MakeParent(a) \/ OpenDirectory(a) \/ CreateTemporary(a)
       \/ WriteTemporary(a) \/ LinkTarget(a) \/ Sync(a) \/ MatchOwn(a)
       \/ UnlinkTemporary(a) \/ VerifyTarget(a) \/ Close(a)
       \/ MatchPublished(a) \/ RemovePublished(a) \/ MatchTemporary(a)
       \/ RemoveTemporary(a) \/ MatchDirectory(a) \/ RemoveDirectory(a)
       \/ CloseDenied(a) \/ Die(a)
    /\ UNCHANGED agent

\* Between the look of _receipt_matches and the removal of that name, or
\* between mkdir and the open of what was made
Between(name) ==
    \E a \in Attempts :
        \/ name = "target" /\ callPc[a] = "remove_published"
        \/ name = "temporary" /\ callPc[a] \in {"unlink", "remove_temporary"}
        \/ name = "directory" /\ \/ callPc[a] = "remove_directory"
                                 \/ callPc[a] = "open" /\ "directory" \in forgot[a]

Slip(name) == slipped' = IF Between(name) THEN slipped \cup {name} ELSE slipped

\* A tool of the agent makes, removes or replaces one of the three names.
OtherWrites ==
    /\ otherWrites < MaxOtherWrites
    /\ otherWrites' = otherWrites + 1
    /\ \/ /\ temporary = None /\ target = None
          /\ directory' \in {None, Other} \ {directory}
          /\ Slip("directory")
          /\ UNCHANGED <<temporary, target, taken>>
       \/ /\ directory # None
          /\ temporary' \in {None, Other} \ {temporary}
          /\ Slip("temporary")
          /\ UNCHANGED <<directory, target, taken>>
       \/ /\ directory # None
          /\ target' \in {None, Other} \ {target}
          /\ Slip("target")
          /\ taken' = taken \cup ({target} \cap Attempts)
          /\ UNCHANGED <<directory, temporary>>
    /\ UNCHANGED <<callPc, opened, owns, complete, result, whole, forgot>>

InputNext == OtherWrites \/ \E a \in Attempts : Step(a)

InputSpec == InputInit /\ [][InputNext]_inputVars

-----------------------------------------------------------------------------
(* Properties *)

\* Every variable keeps its type.
InputTypeOK ==
    /\ opened \in [Attempts -> Attempts \cup {None, Other}]
    /\ owns \in [Attempts -> SUBSET {"directory", "temporary", "published"}]
    /\ complete \in [Attempts -> BOOLEAN]
    /\ result \in [Attempts -> {"none", "permitted", "denied"}]
    /\ directory \in Attempts \cup {None, Other}
    /\ temporary \in Attempts \cup {None, Other}
    /\ target \in Attempts \cup {None, Other}
    /\ whole \subseteq Attempts
    /\ forgot \in [Attempts -> SUBSET {"directory", "temporary", "target"}]
    /\ otherWrites \in Nat
    /\ slipped \subseteq {"directory", "temporary", "target"}
    /\ taken \subseteq Attempts

\* An attempt that reports its input as published has its whole file under
\* the name, and stays right: no other attempt, however it fails or cleans
\* up, replaces or removes it, so that one approval is used once.  Only the
\* agent may: by taking it away, or by changing the name just when another
\* attempt, which has looked at it, is about to remove it.
PublishedIsWhole ==
    \A a \in Attempts :
        result[a] = "permitted" =>
            /\ a \in whole
            /\ target = a \/ a \in taken \/ "target" \in slipped

\* A refusal with a complete cleanup leaves nothing of the attempt in the
\* workspace, whatever the agent does to it meanwhile, except for what it
\* made and could not open or stat, and for its temporary file if another
\* attempt has linked that instead of its own.
DeniedLeavesNothing ==
    \A a \in Attempts :
        result[a] = "denied" /\ complete[a] =>
            /\ target = a => "target" \in forgot[a]
            /\ temporary = a => "temporary" \in forgot[a]
            /\ directory = a => "directory" \in forgot[a]

\* What was under a name before a step and is gone after it was of an attempt
\* that took the step, or the name has slipped.
RemovesOwn(name, before, after) ==
    before \notin {None, after} /\ callPc' # callPc =>
        \/ \E a \in Attempts : before = a /\ callPc'[a] # callPc[a]
        \/ name \in slipped

\* An attempt removes and replaces only what it has made itself: neither the
\* temporary file or the directory of another one nor a file of the agent,
\* though names come and go around it.  The exception is a name that the
\* agent changed between the look of an attempt and its removal.
OnlyItsOwn ==
    [][/\ RemovesOwn("target", target, target')
       /\ RemovesOwn("temporary", temporary, temporary')
       /\ RemovesOwn("directory", directory, directory')]_inputVars
=============================================================================
