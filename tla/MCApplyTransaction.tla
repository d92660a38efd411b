------------------------- MODULE MCApplyTransaction -------------------------
(***************************************************************************)
(* ApplyTransaction on small change sets: SharedDirectory modifies a file  *)
(* and creates two more in a directory that does not exist yet, AllKinds   *)
(* modifies, deletes and creates.                                          *)
(***************************************************************************)
EXTENDS ApplyTransaction

SharedDirectory == <<"modify", "create", "create">>
AllKinds        == <<"modify", "delete", "create">>
TwoFiles        == <<"modify", "create">>
=============================================================================
