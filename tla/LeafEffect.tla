----------------------------- MODULE LeafEffect -----------------------------
(***************************************************************************)
(* How transaction/apply.py changes one leaf of the target repository, as  *)
(* a step function on what the directory holds.                            *)
(*                                                                         *)
(* A leaf is the content under the entry's own name, under its quarantine  *)
(* name, and under the temporary name of each digest the transaction may   *)
(* write ("old" for the original content, "new" for the planned one).      *)
(* Content is abstracted to whose it is: "partial" is a temporary file     *)
(* whose write was interrupted, "user" anything the plan does not know.    *)
(*                                                                         *)
(* _conditional_leaf_effect replaces content exp by content des ("absent"  *)
(* for no file) in the order link, verify, unlink, create, write, publish, *)
(* untemp, unquar; every system call is one step, so a crash or a user     *)
(* edit can come between any two.  It ends at "done", at "failed"          *)
(* (_ApplyFailure: the leaf was put back) or at "uncertain"                *)
(* (UncertainEffectError).                                                 *)
(*                                                                         *)
(* An operator Name_Slip is Name with a plausible slip: no specification   *)
(* uses it; putting it in Name's place must break a property.              *)
(***************************************************************************)

Contents == {"absent", "old", "new", "user", "partial"}
Leaf     == [name : Contents, quar : Contents,
             temp : [{"old", "new"} -> Contents]]
LeafEnds == {"done", "failed", "uncertain"}
EffectSteps == {"link", "verify", "unlink", "create", "write", "publish",
                "untemp", "unquar", "discard", "restore", "requar"}
ResolveSteps == {"rtemp", "rquar", "rfree"}

NoTemp == [d \in {"old", "new"} |-> "absent"]

(* A leaf with no file of the transaction beside it. *)
Clean(content) == [name |-> content, quar |-> "absent", temp |-> NoTemp]

Outcome(l, at) == [leaf |-> l, at |-> at]

(* Where _conditional_leaf_effect begins. *)
LeafStart(l, exp) ==
  IF exp # "absent" THEN "link"
  ELSE IF l.name = "absent" /\ l.quar = "absent" THEN "create"
  ELSE "uncertain"

(* os.link(name, quarantine) refuses a missing source or an existing target. *)
Link(l) ==
  IF l.name # "absent" /\ l.quar = "absent"
    THEN Outcome([l EXCEPT !.quar = l.name], "verify")
    ELSE Outcome(l, "uncertain")

Verify(l, exp) ==
  IF l.quar = exp THEN Outcome(l, "unlink")
                  ELSE Outcome([l EXCEPT !.quar = "absent"], "uncertain")

(* os.unlink(name) removes whatever is there by now. *)
Unlink(l, des) ==
  IF l.name = "absent" THEN Outcome(l, "uncertain")
  ELSE Outcome([l EXCEPT !.name = "absent"],
               IF des = "absent" THEN "unquar" ELSE "create")

Create_InPlace(l, des, sym) == Outcome([l EXCEPT !.name = "partial"], "write")

(* A symlink is made in place; a file is first created under its temporary *)
(* name, with O_EXCL.                                                      *)
Create(l, des, sym) ==
  IF sym
    THEN IF l.name = "absent" THEN Outcome([l EXCEPT !.name = des], "unquar")
                              ELSE Outcome(l, "restore")
    ELSE IF l.temp[des] = "absent"
           THEN Outcome([l EXCEPT !.temp[des] = "partial"], "write")
           ELSE Outcome(l, "restore")

Write(l, des) == Outcome([l EXCEPT !.temp[des] = des], "publish")

Publish_Replaces(l, des) == Outcome([l EXCEPT !.name = l.temp[des]], "untemp")

(* os.link(temporary, name) refuses an existing name. *)
Publish(l, des) ==
  IF l.name = "absent" THEN Outcome([l EXCEPT !.name = l.temp[des]], "untemp")
                       ELSE Outcome(l, "discard")

Untemp(l, des) == Outcome([l EXCEPT !.temp[des] = "absent"], "unquar")
Unquar(l)      == Outcome([l EXCEPT !.quar = "absent"], "done")
Discard(l, des) == Outcome([l EXCEPT !.temp[des] = "absent"], "restore")

(* _restore_quarantined after a failed publish: link the quarantine back,  *)
(* refused if the name is taken, then unlink the quarantine.               *)
Restore(l, exp) ==
  IF exp # "absent" /\ l.quar # "absent" /\ l.name = "absent"
    THEN Outcome([l EXCEPT !.name = l.quar], "requar")
    ELSE Outcome(l, "uncertain")

Requar(l) == Outcome([l EXCEPT !.quar = "absent"], "failed")

LeafStep(l, at, exp, des, sym) ==
  CASE at = "link"    -> Link(l)
    [] at = "verify"  -> Verify(l, exp)
    [] at = "unlink"  -> Unlink(l, des)
    [] at = "create"  -> Create(l, des, sym)
    [] at = "write"   -> Write(l, des)
    [] at = "publish" -> Publish(l, des)
    [] at = "untemp"  -> Untemp(l, des)
    [] at = "unquar"  -> Unquar(l)
    [] at = "discard" -> Discard(l, des)
    [] at = "restore" -> Restore(l, exp)
    [] at = "requar"  -> Requar(l)

(* The except clause that an error at step at reaches. *)
Handler(at) ==
  CASE at \in {"link", "verify", "unlink", "restore", "requar"} -> "uncertain"
    [] at \in {"write", "publish", "untemp"} -> "discard"
    [] at \in {"create", "unquar", "discard"} -> "restore"

(* A system call that raises, before or after it took effect; a file that  *)
(* could not be opened was not created.                                    *)
LeafFault(l, at, exp, des, sym) ==
  {Outcome(l, Handler(at))} \cup
  IF at = "create" /\ ~sym THEN {}
  ELSE {Outcome(LeafStep(l, at, exp, des, sym).leaf, Handler(at))}

---------------------------------------------------------------------------
(* _resolve_transaction_artifacts after a crash: disp is the content the   *)
(* interrupted effect displaced, des the one it was writing.               *)
ResolveTemp(l, des) ==
  IF des = "absent" THEN Outcome(l, "rquar")
  ELSE IF l.temp[des] = "absent" THEN Outcome(l, "rquar")
  ELSE IF l.temp[des] = des THEN Outcome([l EXCEPT !.temp[des] = "absent"], "rquar")
  ELSE Outcome(l, "uncertain")

ResolveQuar(l, disp, des) ==
  IF l.quar = "absent" THEN Outcome(l, "done")
  ELSE IF l.quar # disp THEN Outcome(l, "uncertain")
  ELSE IF l.name = "absent" THEN Outcome([l EXCEPT !.name = l.quar], "rfree")
  ELSE IF l.name \in {disp, des} THEN Outcome([l EXCEPT !.quar = "absent"], "done")
  ELSE Outcome(l, "uncertain")

ResolveStep(l, at, disp, des) ==
  CASE at = "rtemp" -> ResolveTemp(l, des)
    [] at = "rquar" -> ResolveQuar(l, disp, des)
    [] at = "rfree" -> Outcome([l EXCEPT !.quar = "absent"], "done")
=============================================================================
