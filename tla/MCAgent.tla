------------------------------- MODULE MCAgent -------------------------------
(***************************************************************************)
(* AgentLoop, ProviderGateway and ContainerLifecycle in one run of TLC.    *)
(* They share no state, so a behaviour is of one part, chosen at first,    *)
(* while the others stay as they start: the states add up.                 *)
(***************************************************************************)
EXTENDS AgentLoop, ContainerLifecycle, ProviderGateway

VARIABLE part

allVars == <<part, vars, boxVars, gateVars>>

PartsInit ==
    /\ part \in {"loop", "sandbox", "gateway"}
    /\ Init /\ (part # "loop" => ~acceptanceComplete)
    /\ BoxInit
    /\ GateInit

LoopPart == part = "loop" /\ Next /\ UNCHANGED <<part, boxVars, gateVars>>

SandboxPart == part = "sandbox" /\ BoxNext /\ UNCHANGED <<part, vars, gateVars>>

GatewayPart == part = "gateway" /\ GateNext /\ UNCHANGED <<part, vars, boxVars>>

PartsNext == LoopPart \/ SandboxPart \/ GatewayPart

\* The fairness of the parts, and no more
PartsFairness ==
    /\ WF_allVars(LoopPart)
    /\ \A e \in Executions :
          /\ WF_allVars(SandboxPart /\ Invoke(e))
          /\ WF_allVars(SandboxPart /\ TimeOut(e))

PartsSpec == PartsInit /\ [][PartsNext]_allVars /\ PartsFairness

-----------------------------------------------------------------------------
\* AgentLoop.run comes to its end, whatever the provider proposes.
RunReturns == part = "loop" => LoopStops

\* ContainerLifecycle.execute comes to its end, whatever the engine does and
\* however long the command runs.
SandboxReturns == part = "sandbox" => ExecuteReturns
=============================================================================
