------------------------------ MODULE JobSystem ------------------------------
(***************************************************************************)
(* The control plane of ControlJobs with the agents of AgentRunner in      *)
(* front of it.  Between them: a request is handled at most once (its      *)
(* nonce is spent), at any time while the agent waits or after it gave up  *)
(* waiting, in any order with other requests, or never; an answer may be   *)
(* lost.  Processes crash anywhere and are started again.                  *)
(***************************************************************************)
EXTENDS ControlJobs, AgentRunner

CONSTANT MaxFaults  \* bound: timeouts, crashes and refusals in a behaviour

ASSUME FaultsAssumption == MaxFaults \in Nat

VARIABLES
  late,    \* requests whose sender gave up before they were handled
  faults   \* how many faults there were

vars == <<controlVars, agentVars, late, faults>>

LateRequest == [agent : Agents, request : Request, nonce : 1 .. MaxFaults]

Init ==
  /\ ControlInit
  /\ \A a \in Agents : capable[a] = "capable"
  /\ AgentInit
  /\ late = {}
  /\ faults = 0

-----------------------------------------------------------------------------
(* The control plane handles a request.                                    *)

CanDispatch(a) == Free(a) /\ QueuedOf(a) # {}
CanProgress(a, r) == OwnedUnder(a, r.job, r.lease) /\ Streamable(r.job, r.sequence)
CanClose(a, r) ==
  WellFormed(r.body) /\ OwnedUnder(a, r.job, r.body.lease) /\ Open(r.job)

Handle(a, r) ==
  \/ r.op = "heartbeat" /\ Heartbeat(a, "capable")
  \/ r.op = "claim" /\ \E j \in Jobs : Dispatch(a, j)
  \/ r.op = "claim" /\ ~CanDispatch(a) /\ UNCHANGED controlVars
  \/ r.op = "poll" /\ UNCHANGED controlVars
  \/ r.op = "progress" /\ Progress(a, r.job, r.lease, r.sequence)
  \/ r.op = "progress" /\ ~CanProgress(a, r) /\ UNCHANGED controlVars
  \/ r.op = "result" /\ Result(a, r.job, r.body)
  \/ r.op = "result" /\ ~CanClose(a, r) /\ UNCHANGED controlVars

View(j) == [job |-> j, lease |-> lease[j], cancel |-> cancelRequested[j]]

\* The job a claim leaves the agent with; a job already held is given again.
ClaimedUnlessRunning(a) == {j \in Oldest(ActiveOf(a)) : state[j] = "DISPATCHED"}
ClaimedJobs(a) == Oldest(ActiveOf(a))

Answer(a, r) ==
  IF r.op = "claim" /\ ClaimedJobs(a) # {}
  THEN View(CHOOSE j \in ClaimedJobs(a) : TRUE)
  ELSE IF r.op = "poll" THEN View(r.job) ELSE NoJob

Serve(p) ==
  /\ call[p] # None
  /\ reply[p] = None
  /\ Handle(Me(p), call[p])
  /\ UNCHANGED <<pc, held, verdict, sequence, call, hostVars, late, faults>>
  /\ reply' = [reply EXCEPT ![p] = Answer(Me(p), call[p])']

ServeLate ==
  \E m \in late :
    /\ Handle(m.agent, m.request)
    /\ late' = late \ {m}
    /\ UNCHANGED <<agentVars, faults>>

-----------------------------------------------------------------------------
\* A request that nobody waits for any more may still be handled.  A heartbeat or
\* a poll that comes late changes nothing, so it is not kept.
Abandoned(p) ==
  {m \in {[agent |-> Me(p), request |-> call[p], nonce |-> faults + 1]} :
     /\ call[p] # None
     /\ reply[p] = None
     /\ call[p].op \notin {"heartbeat", "poll"}}

Fault(p) ==
  /\ faults < MaxFaults
  /\ faults' = faults + 1
  /\ GiveUp(p) \/ Crash(p) \/ Blocked(p)
  /\ late' = late \cup Abandoned(p)
  /\ UNCHANGED controlVars

Operate == OperatorStep /\ UNCHANGED <<agentVars, late, faults>>

RunProcess(p) == ProcessStep(p) /\ UNCHANGED <<controlVars, late, faults>>
Restart(p) == Start(p) /\ UNCHANGED <<controlVars, late, faults>>
ChildEnds == \E j \in Jobs : ChildExits(j) /\ UNCHANGED <<controlVars, late, faults>>

Next ==
  \/ Operate
  \/ ServeLate
  \/ ChildEnds
  \/ \E p \in Processes : RunProcess(p) \/ Serve(p) \/ Restart(p) \/ Fault(p)

Spec == Init /\ [][Next]_vars

\* The control plane answers a waiting agent, a process keeps running its loop,
\* an agent that died is started again, and recipes end.  The operator promises
\* nothing, and a request nobody waits for may never arrive.
Fairness ==
  /\ \A p \in Processes :
       WF_vars(RunProcess(p)) /\ WF_vars(Serve(p)) /\ WF_vars(Restart(p))
  /\ WF_vars(ChildEnds)

FairSpec == Spec /\ Fairness

-----------------------------------------------------------------------------
(* The contract this implements.                                           *)

PhaseOf(s) ==
  IF s = "ABSENT" THEN "new"
  ELSE IF s = "WAITING_APPROVAL" THEN "held back"
  ELSE IF s = "QUEUED" THEN "ready"
  ELSE IF s \in Active THEN "assigned" ELSE s

Contract == INSTANCE JobContract WITH
  Job <- Jobs,
  Outcomes <- Terminal,
  phase <- [j \in Jobs |-> PhaseOf(state[j])],
  launched <- [j \in Jobs |-> launches[j] > 0],
  stop <- cancelRequested

\* Every step of control plane and agents together is one the contract allows:
\* in particular a job is launched only while the control plane has it assigned,
\* though the launch and the assignment are steps of different machines.
ImplementsContract == Contract!ContractSpec

-----------------------------------------------------------------------------
(* Properties.                                                             *)

AgentTypeOK ==
  /\ pc \in [Processes -> Locations]
  /\ held \in [Processes -> JobView \cup {NoJob}]
  /\ verdict \in [Processes -> Verdict \cup {None}]
  /\ sequence \in [Processes -> Nat]
  /\ call \in [Processes -> Request \cup {None}]
  /\ reply \in [Processes -> JobView \cup {NoJob, None}]
  /\ journal \in [Agents -> SUBSET Jobs]
  /\ recorded \in [Agents -> [Jobs -> ResultBody \cup {None}]]
  /\ workspace \in [Agents -> SUBSET Jobs]
  /\ child \in [Jobs -> {"unborn", "alive", "done", "failed", "killed"}]
  /\ launches \in [Jobs -> Nat]
  /\ late \in SUBSET LateRequest
  /\ faults \in 0 .. MaxFaults

TypeOK == ControlTypeOK /\ AgentTypeOK

\* The recipe of a job is launched at most once, whatever answers are lost,
\* however often the job is delivered and wherever the agent dies: the journal
\* row is committed before the launch and never repeated (execute, claim).
AtMostOneLaunch == \A j \in Jobs : launches[j] <= 1

\* What is launched was leased and, if risky, approved; a job that was rejected
\* or cancelled while it waited is never launched, even though the agent acts on
\* an answer that may be old when it does (architecture.md, Lifecycle).
LaunchIsLicensed ==
  \A j \in Jobs :
    launches[j] > 0 =>
      /\ lease[j] # None
      /\ Risky(goal[j]) => HasEvent(j, "job.approved")
      /\ ~HasEvent(j, "job.rejected")

\* A result the agent reports, now or late, is always stored or acknowledged as a
\* duplicate: never refused with 403, 409 or 422, which tick would retry for ever.
ReportIsAcceptable(a, r) ==
  r.op = "result" => CanClose(a, r) \/ ResultRepeated(a, r.job, r.body)
ReportsAreAcceptable ==
  /\ \A p \in Processes : call[p] # None => ReportIsAcceptable(Me(p), call[p])
  /\ \A m \in late : ReportIsAcceptable(m.agent, m.request)

\* The result the operator reads is the one in the agent's journal, except that a
\* success reported after a cancellation is stored as CANCELLED.
ResultIsJournaled ==
  \A j \in Jobs : result[j] # None =>
    LET r == recorded[TargetOf(j)][j]
    IN /\ r # None
       /\ result[j].exit = r.exit
       /\ result[j].evidence = Redact[r.evidence]
       /\ \/ result[j].state = r.state
          \/ r.state = "SUCCEEDED" /\ cancelRequested[j] /\ result[j].state = "CANCELLED"

\* SUCCEEDED is said only of a recipe that was launched, once, and ran to its
\* end with exit code zero.
SuccessIsReal ==
  \A j \in Jobs : state[j] = "SUCCEEDED" => launches[j] = 1 /\ child[j] = "done"

\* An agent runs a recipe only while the control plane counts the job as its own:
\* while a process watches it, the job is not closed and nobody else holds it.
WatchedJobIsOpen ==
  \A p \in Processes : pc[p] \in Watching =>
    JobOf(p) \in ActiveOf(Me(p))

\* "After a crash with uncertain STARTED work it reports FAILED" (architecture.md,
\* Lifecycle): a job is closed as interrupted only when no process runs it any more.
InterruptedMeansCrashed ==
  \A j \in Jobs :
    result[j] # None /\ result[j].evidence = Redact[Interruption] =>
      ~\E p \in Processes : pc[p] \in Watching /\ JobOf(p) = j

\* Every job an agent may take is closed in the end, if it does not stay waiting
\* for approval: no lost answer, crash or blocked start leaves it or those behind
\* it in the queue open for ever.
QueuedJobCloses ==
  \A j \in Jobs : (state[j] = "QUEUED") ~> (state[j] \in Terminal)
=============================================================================
