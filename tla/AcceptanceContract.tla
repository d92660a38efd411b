-------------------------- MODULE AcceptanceContract --------------------------
(***************************************************************************)
(* The acceptance contract of a task (domain/acceptance.py): conditions    *)
(* that machine evidence or a confirmation of the user updates, each in a  *)
(* new version that has to be approved again.                              *)
(*                                                                         *)
(* The contract is a value its caller keeps.  Verifiers and the user see a *)
(* version, and their answers arrive later, in any order and repeatedly;   *)
(* the user approves what is current.                                      *)
(***************************************************************************)
EXTENDS Naturals, Sequences, FiniteSets

CONSTANTS
    Machine, User,      \* conditions, by kind
    Required,           \* those that must pass
    Keys,               \* idempotency keys of confirmations
    Digests,            \* request digests
    Verdicts,           \* what a verifier may find
    MaxVersion,         \* bound: versions of the contract
    MaxSent             \* bound: answers sent

Conditions == Machine \cup User
ConditionStatus == {"NOT_RUN", "PASSED", "FAILED", "BLOCKED"}

ASSUME ConditionsOfOneKind ==
    /\ Machine \cap User = {} /\ Required \subseteq Conditions
    /\ Verdicts \subseteq ConditionStatus \ {"NOT_RUN"} /\ "none" \notin Keys
    /\ MaxVersion \in Nat /\ MaxSent \in Nat

VARIABLES
    version, status, approved, history,         \* the AcceptanceContract
    sent,               \* evidence and commands that were sent
    seen                \* history: what the user approved last

contract == <<version, status, approved, history>>
contractVars == <<contract, sent, seen>>

-----------------------------------------------------------------------------
NoKey == [key |-> "none", digest |-> "none"]

NothingSeen == [version |-> 0, status |-> <<>>]

ContractInit ==
    /\ version = 1
    /\ status = [c \in Conditions |-> "NOT_RUN"]
    /\ approved = FALSE
    /\ history = <<>>
    /\ sent = {}
    /\ seen = NothingSeen

\* Mutant: a change of one condition leaves the approval.
UpdateContract_KeepsApproval(c, new, request) ==
    /\ version' = version + 1
    /\ status' = [status EXCEPT ![c] = new]
    /\ UNCHANGED approved
    /\ history' = Append(history, [condition |-> c, new |-> new,
                                   version |-> version, request |-> request])

\* _updated_contract: the next version, with every other status as it was.
\* Sequences increase; that an identity is not used for two of them, as
\* _new_version_is_valid only compares it with the last one, is assumed.
UpdateContract(c, new, request) ==
    /\ version' = version + 1
    /\ status' = [status EXCEPT ![c] = new]
    /\ approved' = FALSE
    /\ history' = Append(history, [condition |-> c, new |-> new,
                                   version |-> version, request |-> request])

\* What evidence and commands are bound to; commands, inputs, baseline and
\* change set digests are those of the version.
Bound(m) == version = m.version /\ status[m.condition] = m.expected

\* apply_machine_evidence; anything else is refused and changes nothing.
ApplyMachineEvidence ==
    /\ version < MaxVersion
    /\ \E m \in sent :
          /\ m.condition \in Machine
          /\ Bound(m)
          /\ UpdateContract(m.condition, m.new, NoKey)
    /\ UNCHANGED <<sent, seen>>

\* Mutant: only the same request is a repetition.
Prior_SameRequest(request) ==
    {i \in DOMAIN history : history[i].request = request}

\* Events with the idempotency key: a replay if the digest is the same, a
\* conflict if not, and no update in either case.
Prior(request) ==
    {i \in DOMAIN history : history[i].request.key = request.key}

\* apply_user_confirmation
ApplyUserConfirmation ==
    /\ version < MaxVersion
    /\ \E m \in sent :
          /\ m.condition \in User
          /\ Prior(m.request) = {}
          /\ Bound(m)
          /\ UpdateContract(m.condition, m.new, m.request)
    /\ UNCHANGED <<sent, seen>>

Send(c, new, request) ==
    /\ Cardinality(sent) < MaxSent
    /\ sent' = sent \cup {[condition |-> c, version |-> version,
                        expected |-> status[c], new |-> new,
                        request |-> request]}

\* A verifier has run for the version it saw.
Verify ==
    /\ \E c \in Machine, new \in Verdicts : Send(c, new, NoKey)
    /\ UNCHANGED <<contract, seen>>

\* The user confirms or rejects; a client that repeats itself after a
\* conflict may use the key again.
ConfirmOrReject ==
    /\ \E c \in User, new \in {"PASSED", "FAILED"}, k \in Keys, d \in Digests :
          Send(c, new, [key |-> k, digest |-> d])
    /\ UNCHANGED <<contract, seen>>

\* The contract is approved in its current version.
Approve ==
    /\ approved' = TRUE
    /\ seen' = [version |-> version, status |-> status]
    /\ UNCHANGED <<version, status, history, sent>>

\* evaluate, for the version the caller expects
Eligible(expected) ==
    /\ expected = version
    /\ approved
    /\ \A c \in Required : status[c] = "PASSED"

ContractNext ==
    \/ ApplyMachineEvidence \/ ApplyUserConfirmation
    \/ Verify \/ ConfirmOrReject \/ Approve

ContractSpec == ContractInit /\ [][ContractNext]_contractVars

-----------------------------------------------------------------------------
(* Properties *)

\* The last word on a condition
Verdict(c) ==
    LET events == {i \in DOMAIN history : history[i].condition = c}
    IN IF events = {} THEN "NOT_RUN"
       ELSE history[CHOOSE i \in events : \A j \in events : j <= i].new

\* A contract that is eligible for apply was earned and then approved: the
\* last evidence or answer on every required condition was a pass, and the
\* user approved exactly these verdicts after the last of them.
EligibleIsApproved ==
    \A v \in 1..MaxVersion : Eligible(v) =>
        /\ \A c \in Required : Verdict(c) = "PASSED"
        /\ seen = [version |-> v, status |-> status]

\* An idempotency key counts once, however often and in which version an
\* answer arrives: a repeated or delayed one changes nothing.
EachAnswerCountsOnce ==
    \A i, j \in DOMAIN history :
        history[i].request # NoKey
        /\ history[i].request.key = history[j].request.key => i = j
=============================================================================
