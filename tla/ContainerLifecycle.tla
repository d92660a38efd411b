------------------------- MODULE ContainerLifecycle -------------------------
(***************************************************************************)
(* One command in one container (sandbox/lifecycle.py), through the        *)
(* docker command line (sandbox/docker_cli.py): create, start --attach,    *)
(* wait and rm --force, each a subprocess with a timeout.                  *)
(*                                                                         *)
(* A timeout kills the command line, not the request: the engine may have  *)
(* handled it, may never see it, or may handle it after the timeout, and   *)
(* so it is when the connection to the engine breaks and the command line  *)
(* ends with an error.  The engine is external and modelled by what these  *)
(* four commands do.  Only a late create matters: a late start or rm finds *)
(* what it would have found.                                               *)
(***************************************************************************)
EXTENDS Naturals

CONSTANTS
    Executions          \* executions, each with a container name of its own

VARIABLES
    boxPc,              \* the docker command of each execution, or its end
    cli,                \* what its command line is doing
    outcome,            \* execution_status, before the cleanup
    evidence,           \* the ExecutionEvidence returned
    container,          \* the engine's container of this name
    late,               \* a create request that outlives its command line
    exit                \* history: how the command itself ended

boxVars == <<boxPc, cli, outcome, evidence, container, late, exit>>

-----------------------------------------------------------------------------
(* Data *)

DockerOperation == {"create", "start", "wait", "rm"}

ExecutionStatus ==
    {"SUCCEEDED", "FAILED", "TIMED_OUT", "CLEANUP_FAILED", "DOCKER_UNAVAILABLE"}

CleanupStatus == {"COMPLETE", "FAILED", "NOT_REQUIRED"}

NoEvidence == [status |-> "none", cleanup |-> "none"]

\* What DockerCLI.run returns: OSError, TimeoutExpired or an exit code (a
\* SubprocessError is exit code 1, an unreadable wait is no exit code).
Result == {"unavailable", "timeout", "zero", "nonzero"}

BoxInit ==
    /\ boxPc = [e \in Executions |-> "create"]
    /\ cli = [e \in Executions |-> "none"]
    /\ outcome = [e \in Executions |-> "none"]
    /\ evidence = [e \in Executions |-> NoEvidence]
    /\ container = [e \in Executions |-> "absent"]
    /\ late = [e \in Executions |-> "none"]
    /\ exit = [e \in Executions |-> "none"]

-----------------------------------------------------------------------------
(* ContainerLifecycle.execute, between two docker commands *)

Run(e, operation) ==
    /\ boxPc' = [boxPc EXCEPT ![e] = operation]
    /\ UNCHANGED evidence

Return(e, status, cleanup) ==
    /\ boxPc' = [boxPc EXCEPT ![e] = "done"]
    /\ evidence' = [evidence EXCEPT ![e] =
                        [status |-> status, cleanup |-> cleanup]]

\* Mutant: `not exit_code', which is also true of the None of a timeout.
StatusOf_NoneIsZero(result) ==
    CASE result = "unavailable" -> "DOCKER_UNAVAILABLE"
      [] result \in {"timeout", "zero"} -> "SUCCEEDED"
      [] result = "nonzero" -> "FAILED"

\* Status of the execution by the result of start or wait.
StatusOf(result) ==
    CASE result = "unavailable" -> "DOCKER_UNAVAILABLE"
      [] result = "timeout" -> "TIMED_OUT"
      [] result = "zero" -> "SUCCEEDED"
      [] result = "nonzero" -> "FAILED"

\* Only after a timeout is a container looked for: an error is taken to mean
\* that there is none.
AfterCreate(e, result) ==
    \/ /\ result = "unavailable"
       /\ Return(e, "DOCKER_UNAVAILABLE", "NOT_REQUIRED")
       /\ UNCHANGED outcome
    \/ /\ result = "timeout"
       /\ Run(e, "rm")
       /\ outcome' = [outcome EXCEPT ![e] = "TIMED_OUT"]
    \/ /\ result = "nonzero"
       /\ Return(e, "FAILED", "NOT_REQUIRED")
       /\ UNCHANGED outcome
    \/ /\ result = "zero"
       /\ Run(e, "start")
       /\ UNCHANGED outcome

\* Mutant: a failed start returns at once.
AfterStart_NoCleanup(e, result) ==
    \/ /\ result = "zero"
       /\ Run(e, "wait")
       /\ UNCHANGED outcome
    \/ /\ result # "zero"
       /\ Return(e, StatusOf(result), "NOT_REQUIRED")
       /\ UNCHANGED outcome

AfterStart(e, result) ==
    \/ /\ result = "zero"
       /\ Run(e, "wait")
       /\ UNCHANGED outcome
    \/ /\ result # "zero"
       /\ Run(e, "rm")
       /\ outcome' = [outcome EXCEPT ![e] = StatusOf(result)]

AfterWait(e, result) ==
    /\ Run(e, "rm")
    /\ outcome' = [outcome EXCEPT ![e] = StatusOf(result)]

AfterRemove(e, result) ==
    /\ IF result = "zero" THEN Return(e, outcome[e], "COMPLETE")
       ELSE Return(e, "CLEANUP_FAILED", "FAILED")
    /\ UNCHANGED outcome

After(e, result) ==
    /\ cli' = [cli EXCEPT ![e] = "none"]
    /\ CASE boxPc[e] = "create" -> AfterCreate(e, result)
         [] boxPc[e] = "start" -> AfterStart(e, result)
         [] boxPc[e] = "wait" -> AfterWait(e, result)
         [] boxPc[e] = "rm" -> AfterRemove(e, result)

-----------------------------------------------------------------------------
(* DockerCLI.run *)

\* The subprocess cannot be started.
CannotStart(e) ==
    /\ boxPc[e] \in DockerOperation /\ cli[e] = "none"
    /\ After(e, "unavailable")
    /\ UNCHANGED <<container, late, exit>>

Invoke(e) ==
    /\ boxPc[e] \in DockerOperation /\ cli[e] = "none"
    /\ cli' = [cli EXCEPT ![e] = "sent"]
    /\ UNCHANGED <<boxPc, outcome, evidence, container, late, exit>>

\* A create request the engine has not handled yet may survive.
MayOutlive(e) ==
    IF boxPc[e] = "create" /\ cli[e] = "sent"
    THEN \E l \in {"none", "pending"} : late' = [late EXCEPT ![e] = l]
    ELSE UNCHANGED late

\* The command line does not reach the engine, or loses it before or after
\* the engine has handled the request, and ends with an error.
EngineUnreachable(e) ==
    /\ cli[e] # "none"
    /\ After(e, "nonzero")
    /\ MayOutlive(e)
    /\ UNCHANGED <<container, exit>>

\* The engine has handled the request, or (start, wait) sees the end of the
\* container, and the command line ends with this exit code.
Reply(e) ==
    /\ cli[e] \in Result
    /\ After(e, cli[e])
    /\ UNCHANGED <<container, late, exit>>

\* Mutant: no timeout for wait.
TimeOut_NotWait(e) ==
    /\ cli[e] # "none" /\ boxPc[e] # "wait"
    /\ After(e, "timeout")
    /\ UNCHANGED <<container, late, exit>>

\* TimeoutExpired, whatever has happened at the engine.
TimeOut(e) ==
    /\ cli[e] # "none"
    /\ After(e, "timeout")
    /\ MayOutlive(e)
    /\ UNCHANGED <<container, exit>>

\* start --attach carries the output of the command, read with text=True: if
\* it does not decode, the runner raises a ValueError that nobody handles.
Undecodable(e) ==
    /\ boxPc[e] = "start" /\ cli[e] \in Result
    /\ exit[e] # "none"
    /\ boxPc' = [boxPc EXCEPT ![e] = "raised"]
    /\ cli' = [cli EXCEPT ![e] = "none"]
    /\ UNCHANGED <<outcome, evidence, container, late, exit>>

-----------------------------------------------------------------------------
(* The engine *)

Answer(e, result) == cli' = [cli EXCEPT ![e] = result]

EngineCreates(e) ==
    /\ boxPc[e] = "create" /\ cli[e] = "sent"
    /\ container' = [container EXCEPT ![e] = "created"]
    /\ Answer(e, "zero")
    /\ UNCHANGED <<boxPc, outcome, evidence, late, exit>>

\* The name is taken, the image is missing, ...
EngineRefuses(e) ==
    /\ boxPc[e] \in {"create", "start"} /\ cli[e] = "sent"
    /\ Answer(e, "nonzero")
    /\ UNCHANGED <<boxPc, outcome, evidence, container, late, exit>>

EngineCreatesLate(e) ==
    /\ late[e] = "pending"
    /\ late' = [late EXCEPT ![e] = "handled"]
    /\ container' = [container EXCEPT ![e] = "created"]
    /\ UNCHANGED <<boxPc, cli, outcome, evidence, exit>>

\* --attach keeps the command line until the container exits.
EngineStarts(e) ==
    /\ boxPc[e] = "start" /\ cli[e] = "sent" /\ container[e] = "created"
    /\ container' = [container EXCEPT ![e] = "running"]
    /\ cli' = [cli EXCEPT ![e] = "attached"]
    /\ UNCHANGED <<boxPc, outcome, evidence, late, exit>>

ContainerExits(e) ==
    /\ container[e] = "running"
    /\ container' = [container EXCEPT ![e] = "exited"]
    /\ \E code \in {"zero", "nonzero"} :
          /\ exit' = [exit EXCEPT ![e] = code]
          /\ cli' = IF cli[e] = "attached" THEN [cli EXCEPT ![e] = code] ELSE cli
    /\ UNCHANGED <<boxPc, outcome, evidence, late>>

EngineWaited(e) ==
    /\ boxPc[e] = "wait" /\ cli[e] = "sent" /\ container[e] = "exited"
    /\ Answer(e, exit[e])
    /\ UNCHANGED <<boxPc, outcome, evidence, container, late, exit>>

\* rm --force; of a container that is not there, by the version of docker, a
\* success or an error.
EngineRemoves(e) ==
    /\ boxPc[e] = "rm" /\ cli[e] = "sent"
    /\ IF container[e] = "absent"
       THEN \E r \in {"zero", "nonzero"} : Answer(e, r)
       ELSE Answer(e, "zero")
    /\ container' = [container EXCEPT ![e] = "absent"]
    /\ UNCHANGED <<boxPc, outcome, evidence, late, exit>>

Engine(e) ==
    \/ EngineCreates(e) \/ EngineRefuses(e) \/ EngineCreatesLate(e)
    \/ EngineStarts(e) \/ ContainerExits(e) \/ EngineWaited(e)
    \/ EngineRemoves(e)

Harness(e) ==
    \/ CannotStart(e) \/ Invoke(e) \/ EngineUnreachable(e) \/ Reply(e)
    \/ TimeOut(e) \/ Undecodable(e)

BoxNext == \E e \in Executions : Harness(e) \/ Engine(e)

\* subprocess.run starts the command line and returns by its timeout at the
\* latest; nothing is assumed of engine and container.
BoxFairness == \A e \in Executions :
    WF_boxVars(Invoke(e)) /\ WF_boxVars(TimeOut(e))

BoxSpec == BoxInit /\ [][BoxNext]_boxVars /\ BoxFairness

-----------------------------------------------------------------------------
(* Properties *)

\* Every variable keeps its type; evidence has a status and a cleanup status
\* of the closed sets.
BoxTypeOK ==
    /\ boxPc \in [Executions -> DockerOperation \cup {"done", "raised"}]
    /\ cli \in [Executions -> {"none", "sent", "attached", "zero", "nonzero"}]
    /\ outcome \in [Executions -> ExecutionStatus \cup {"none"}]
    /\ evidence \in [Executions ->
          {NoEvidence} \cup [status : ExecutionStatus, cleanup : CleanupStatus]]
    /\ container \in [Executions -> {"absent", "created", "running", "exited"}]
    /\ late \in [Executions -> {"none", "pending", "handled"}]
    /\ exit \in [Executions -> {"none", "zero", "nonzero"}]

\* SUCCEEDED is said of a command that ran to its end and exited with 0.
SuccessIsReal ==
    \A e \in Executions : evidence[e].status = "SUCCEEDED" => exit[e] = "zero"

\* Unless the evidence admits that the cleanup failed, no container is left in
\* which the command was started, running or not.  (One that was created and
\* never started may be: the engine made it, and then the connection broke.)
NothingRan ==
    \A e \in Executions :
        evidence[e].cleanup \in {"COMPLETE", "NOT_REQUIRED"} =>
            container[e] \in {"absent", "created"}

\* A cleanup that is said to be complete has left no container at all, except
\* for one that the engine created after its create had been given up.
CompleteIsClean ==
    \A e \in Executions :
        evidence[e].cleanup = "COMPLETE" /\ late[e] # "handled" =>
            container[e] = "absent"

\* What the evidence of an execution says is so, of the command and of what
\* is left behind it.
EvidenceIsTrue == SuccessIsReal /\ NothingRan /\ CompleteIsClean

\* execute comes to its end, whatever the engine does and however long the
\* command runs.
ExecuteReturns == \A e \in Executions : <>(boxPc[e] \in {"done", "raised"})
=============================================================================
