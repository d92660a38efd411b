--------------------------- MODULE ProviderGateway ---------------------------
(***************************************************************************)
(* ProviderGateway.execute (agent/provider.py): threads of one process     *)
(* send requests to the provider through one gateway, which counts the     *)
(* requests of its run against llm_requests of the configuration snapshot. *)
(*                                                                         *)
(* The credential provider and the transport are ports that return         *)
(* anything or raise.  Reading, subtracting and writing the counter are    *)
(* steps of their own: only the lock keeps threads apart.                  *)
(***************************************************************************)
EXTENDS Naturals, FiniteSets

CONSTANTS
    Threads,
    RequestLimit,       \* budget_hard_limits["llm_requests"]
    Nobody              \* a model value: the holder of a free lock

ASSUME GatewayAssumption ==
    RequestLimit \in Nat /\ IsFiniteSet(Threads) /\ Nobody \notin Threads

VARIABLES
    gatePc,
    remaining,          \* _remaining_requests
    lock,               \* the thread that holds _budget_lock
    read,               \* what each thread has read of the counter
    response,           \* of the last execute of each thread
    sent                \* history: calls of transport.send

gateVars == <<gatePc, remaining, lock, read, response, sent>>

\* What transport.send may do: raise, return another type, return a result
\* whose fields are invalid or whose digest is another one, or a result.
Answers == {"raised_TimeoutError", "raised_OSError", "raised_other",
            "other_type", "malformed", "tampered",
            "SUCCEEDED", "UNAVAILABLE", "CONFIGURATION_ERROR", "REDIRECT"}

\* The result, the two codes of ProviderError, the second one with a reason of
\* its own for a budget that is used up, or the ValueError of an invalid
\* ProviderRequest
Outcomes == {"SUCCEEDED", "PROVIDER_UNAVAILABLE", "PROVIDER_CONFIGURATION_ERROR",
             "EXHAUSTED", "ValueError", "none"}

OutcomeOf(answer) ==
    CASE answer \in {"raised_TimeoutError", "raised_OSError", "UNAVAILABLE"} ->
             "PROVIDER_UNAVAILABLE"
      [] answer = "SUCCEEDED" -> "SUCCEEDED"
      [] OTHER -> "PROVIDER_CONFIGURATION_ERROR"

-----------------------------------------------------------------------------
GateInit ==
    /\ gatePc = [t \in Threads |-> "idle"]
    /\ remaining = RequestLimit
    /\ lock = Nobody
    /\ read = [t \in Threads |-> 0]
    /\ response = [t \in Threads |-> "none"]
    /\ sent = 0

Continue(t, label) == gatePc' = [gatePc EXCEPT ![t] = label]

Finish(t, what) == Continue(t, "idle") /\ response' = [response EXCEPT ![t] = what]

\* The credential is resolved and the request is built; either may fail, and
\* then nothing of the budget is taken.
Prepare(t) ==
    /\ gatePc[t] = "idle"
    /\ \/ Continue(t, "acquire") /\ response' = [response EXCEPT ![t] = "none"]
       \/ \E why \in {"PROVIDER_CONFIGURATION_ERROR", "ValueError"} : Finish(t, why)
    /\ UNCHANGED <<remaining, lock, read, sent>>

\* Mutant: the counter is used without the lock.
AcquireBudget_NotExclusive(t) ==
    /\ gatePc[t] = "acquire"
    /\ lock' = t
    /\ Continue(t, "check")
    /\ UNCHANGED <<remaining, read, response, sent>>

AcquireBudget(t) ==
    /\ gatePc[t] = "acquire"
    /\ lock = Nobody
    /\ lock' = t
    /\ Continue(t, "check")
    /\ UNCHANGED <<remaining, read, response, sent>>

\* An empty budget raises, which releases the lock.
CheckBudget(t) ==
    /\ gatePc[t] = "check"
    /\ IF remaining = 0
       THEN Finish(t, "EXHAUSTED") /\ lock' = Nobody
       ELSE Continue(t, "read") /\ UNCHANGED <<lock, response>>
    /\ UNCHANGED <<remaining, read, sent>>

ReadBudget(t) ==
    /\ gatePc[t] = "read"
    /\ read' = [read EXCEPT ![t] = remaining]
    /\ Continue(t, "write")
    /\ UNCHANGED <<remaining, lock, response, sent>>

TakeRequest(t) ==
    /\ gatePc[t] = "write"
    /\ remaining' = read[t] - 1
    /\ lock' = Nobody
    /\ Continue(t, "send")
    /\ UNCHANGED <<read, response, sent>>

\* The request is sent without the lock; a failed one is not given back.
Send(t) ==
    /\ gatePc[t] = "send"
    /\ sent' = sent + 1
    /\ Continue(t, "await")
    /\ UNCHANGED <<remaining, lock, read, response>>

Respond(t) ==
    /\ gatePc[t] = "await"
    /\ \E answer \in Answers : Finish(t, OutcomeOf(answer))
    /\ UNCHANGED <<remaining, lock, read, sent>>

GateNext ==
    \E t \in Threads :
        \/ Prepare(t) \/ AcquireBudget(t) \/ CheckBudget(t) \/ ReadBudget(t)
        \/ TakeRequest(t) \/ Send(t) \/ Respond(t)

GateSpec == GateInit /\ [][GateNext]_gateVars

-----------------------------------------------------------------------------
(* Properties *)

GateTypeOK ==
    /\ gatePc \in [Threads -> {"idle", "acquire", "check", "read", "write", "send",
                           "await"}]
    /\ remaining \in 0..RequestLimit
    /\ lock \in Threads \cup {Nobody}
    /\ read \in [Threads -> 0..RequestLimit]
    /\ response \in [Threads -> Outcomes]
    /\ sent \in 0..RequestLimit

\* However many threads race for the last request, no more than the limit are
\* sent; none is lost either: what is not sent or about to be sent is still
\* there, so that a thread is refused for the budget only when it is used up
\* (execute).
BudgetIsExact ==
    /\ sent <= RequestLimit
    /\ remaining + sent + Cardinality({t \in Threads : gatePc[t] = "send"})
           = RequestLimit
    /\ \A t \in Threads : response[t] = "EXHAUSTED" => remaining = 0
=============================================================================
