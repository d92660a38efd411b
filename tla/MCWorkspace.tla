----------------------------- MODULE MCWorkspace -----------------------------
(***************************************************************************)
(* TaskWorkspace, IgnoredInput, SyntheticGit and AcceptanceContract in one *)
(* run of TLC.  They share no state, so a behaviour is of one of them,     *)
(* chosen at first, while the others stay as they start.  TaskWorkspace    *)
(* has two parts: the capture, from any repository and with all the edits  *)
(* that may tear it, and the way on from a repository that is as HEAD and  *)
(* nobody edits during the capture.                                        *)
(***************************************************************************)
EXTENDS TaskWorkspace, IgnoredInput, SyntheticGit, AcceptanceContract, TLC

CONSTANTS
    tracked, new, env, c1, c2, c3, f1, l1, g1       \* model values

VARIABLE part

TwoPaths == <<tracked, new>>
OneTracked == tracked :> c1 @@ new :> Absent
TargetSets == {{tracked}, {tracked, new, env}}
LinkedFile == l1 :> f1
AttemptSymmetry == Permutations(Attempts)

PartsInit ==
    /\ part \in {"capture", "workspace", "input", "git", "contract"}
    /\ Init /\ (part # "capture" => \A p \in Listed : source[p] = HEAD[p])
    /\ InputInit /\ (part # "input" => directory = None)
    /\ GitInit /\ (part # "git" => \A f \in Files : tree[f] = g1)
    /\ ContractInit

PartsNext ==
    /\ UNCHANGED part
    /\ \/ /\ Next
          /\ \/ part = "capture" /\ pc \notin Materialised
             \/ part = "workspace" /\ (pc \in Capturing => edits' = 0)
          /\ UNCHANGED <<inputVars, gitVars, contractVars>>
       \/ /\ part = "input" /\ InputNext
          /\ UNCHANGED <<vars, gitVars, contractVars>>
       \/ /\ part = "git" /\ GitNext
          /\ UNCHANGED <<vars, inputVars, contractVars>>
       \/ /\ part = "contract" /\ ContractNext
          /\ UNCHANGED <<vars, inputVars, gitVars>>

PartsSpec ==
    PartsInit /\ [][PartsNext]_<<part, vars, inputVars, gitVars, contractVars>>
=============================================================================
