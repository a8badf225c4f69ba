----------------------------- MODULE ControlJobs -----------------------------
(***************************************************************************)
(* The job table of the control plane, control.py.  Every handler opens    *)
(* one BEGIN IMMEDIATE transaction, so every handler is one action.  An    *)
(* early return or an HTTP error that changes nothing is a guard that does *)
(* not hold.  The columns of table jobs are variables of their own; an     *)
(* absent row has state "ABSENT".                                          *)
(*                                                                         *)
(* The callers are free here: any registered agent may send any body at    *)
(* any time, and so may the operator.  JobSystem puts agent.py behind the  *)
(* agent requests.                                                         *)
(***************************************************************************)
EXTENDS Protocol

CONSTANT MaxCancels  \* bound: how often the operator cancels one job

ASSUME CancelsAssumption == MaxCancels \in Nat

VARIABLES
  capable,          \* table agents: "absent", "capable" or "incapable"
  state, goal, created, lease, cancelRequested, result,   \* table jobs
  progress,         \* table progress: the sequences stored for each job
  log,              \* table events, by job
  issued            \* how many leases were issued

jobVars == <<state, goal, created, lease, cancelRequested, result, progress,
             log, issued>>
controlVars == <<capable, jobVars>>

EventKinds ==
  {"job.created", "job.approval_required", "job.queued", "job.approved",
   "job.rejected", "job.cancel_requested", "job.dispatched", "job.output",
   "task.validation_passed", "job.completed"}
\* Only job.completed has a payload that matters: the state the job ended in.
Events == EventKinds \X (Terminal \cup {""})
Event(kind) == <<kind, "">>
Completed(s) == <<"job.completed", s>>
Kinds(s) == {s[i][1] : i \in DOMAIN s}
HasEvent(j, kind) == kind \in Kinds(log[j])

Exists(j) == state[j] # "ABSENT"
TargetOf(j) == goal[j].target

ControlInit ==
  /\ capable \in [Agents -> {"absent", "capable", "incapable"}]
  /\ state = [j \in Jobs |-> "ABSENT"]
  /\ goal = [j \in Jobs |-> None]
  /\ created = [j \in Jobs |-> 0]
  /\ lease = [j \in Jobs |-> None]
  /\ cancelRequested = [j \in Jobs |-> FALSE]
  /\ result = [j \in Jobs |-> None]
  /\ progress = [j \in Jobs |-> {}]
  /\ log = [j \in Jobs |-> <<>>]
  /\ issued = 0

-----------------------------------------------------------------------------
(* The operator's requests.                                                *)

\* The state a new job starts in: only a MEDIUM plan waits for approval.
FirstStateUngated(g) == "QUEUED"
FirstState(g) == IF Risky(g) THEN "WAITING_APPROVAL" ELSE "QUEUED"

\* A key already used returns its job or 409 and writes nothing.
KeyUnused(g) == \A i \in Jobs : Exists(i) => goal[i].key # g.key

Submit(j, g) ==
  /\ ~Exists(j)
  /\ KeyUnused(g)
  /\ capable[g.target] = "capable"
  /\ state' = [state EXCEPT ![j] = FirstState(g)]
  /\ goal' = [goal EXCEPT ![j] = g]
  /\ created' = [created EXCEPT ![j] = Cardinality({i \in Jobs : Exists(i)}) + 1]
  /\ log' = [log EXCEPT ![j] =
               <<Event("job.created"),
                 Event(IF FirstState(g) = "WAITING_APPROVAL"
                       THEN "job.approval_required" ELSE "job.queued")>>]
  /\ UNCHANGED <<capable, lease, cancelRequested, result, progress, issued>>

\* The approval must name the exact plan of a job that still waits for it.
ApprovableInAnyState(j, plan) == Exists(j) /\ plan = ActionPlan(goal[j])
Approvable(j, plan) ==
  state[j] = "WAITING_APPROVAL" /\ plan = ActionPlan(goal[j])

Approval(j, plan, approve) ==
  /\ Approvable(j, plan)
  /\ state' = [state EXCEPT ![j] = IF approve THEN "QUEUED" ELSE "CANCELLED"]
  /\ log' = [log EXCEPT ![j] = Append(@, Event(IF approve THEN "job.approved"
                                                         ELSE "job.rejected"))]
  /\ UNCHANGED <<capable, goal, created, lease, cancelRequested, result,
                 progress, issued>>

\* Only a job no agent has yet is closed by the cancellation itself.
CancelledStateAtOnce(j) == "CANCELLED"
CancelledState(j) ==
  IF state[j] \in {"QUEUED", "WAITING_APPROVAL"} THEN "CANCELLED" ELSE state[j]

Cancellations(j) ==
  Cardinality({i \in DOMAIN log[j] : log[j][i][1] = "job.cancel_requested"})

Cancel(j) ==
  /\ Exists(j)
  /\ state[j] \notin Terminal
  /\ Cancellations(j) < MaxCancels
  /\ cancelRequested' = [cancelRequested EXCEPT ![j] = TRUE]
  /\ state' = [state EXCEPT ![j] = CancelledState(j)]
  /\ log' = [log EXCEPT ![j] = Append(@, Event("job.cancel_requested"))]
  /\ UNCHANGED <<capable, goal, created, lease, result, progress, issued>>

-----------------------------------------------------------------------------
(* The agent's requests.                                                   *)

Registered(a) == capable[a] # "absent"

\* With an enrollment token and a key that is not registered yet.
Register(a, c) ==
  /\ ~Registered(a)
  /\ capable' = [capable EXCEPT ![a] = c]
  /\ UNCHANGED jobVars

\* lease_until, which the handler also writes, is read nowhere.
Heartbeat(a, c) ==
  /\ Registered(a)
  /\ capable' = [capable EXCEPT ![a] = c]
  /\ UNCHANGED jobVars

ActiveOf(a) == {j \in Jobs : state[j] \in Active /\ TargetOf(j) = a}
QueuedOf(a) == {j \in Jobs : state[j] = "QUEUED" /\ TargetOf(j) = a}
Oldest(S) == {j \in S : \A i \in S : created[j] <= created[i]}

\* An agent that holds a job is given that one again, never a second one.
FreeEvenIfHolding(a) == TRUE
Free(a) == ActiveOf(a) = {}

Dispatch(a, j) ==
  /\ Registered(a)
  /\ Free(a)
  /\ j \in Oldest(QueuedOf(a))
  /\ state' = [state EXCEPT ![j] = "DISPATCHED"]
  /\ issued' = issued + 1
  /\ lease' = [lease EXCEPT ![j] = issued + 1]
  /\ log' = [log EXCEPT ![j] = Append(@, Event("job.dispatched"))]
  /\ UNCHANGED <<capable, goal, created, cancelRequested, result, progress>>

\* owned(): the job is this agent's and, where a lease is sent, under it.
Owned(a, j) == Registered(a) /\ Exists(j) /\ TargetOf(j) = a
OwnedUnder(a, j, l) == Owned(a, j) /\ lease[j] = l

\* A chunk that comes after the end, or again, changes nothing.
StreamableToTheEnd(j, n) == n \notin progress[j]
Streamable(j, n) == state[j] \notin Terminal /\ n \notin progress[j]

Progress(a, j, l, n) ==
  /\ OwnedUnder(a, j, l)
  /\ Streamable(j, n)
  /\ progress' = [progress EXCEPT ![j] = @ \cup {n}]
  /\ state' = [state EXCEPT ![j] = "RUNNING"]
  /\ log' = [log EXCEPT ![j] = Append(@, Event("job.output"))]
  /\ UNCHANGED <<capable, goal, created, lease, cancelRequested, result, issued>>

\* What the handler refuses with 422.
WellFormed(b) == b.intact /\ (b.state = "SUCCEEDED" => b.exit = 0)

\* What the handler stores: a cancelled job never succeeds.
OutcomeAsReported(j, b) == b.state
Outcome(j, b) ==
  IF cancelRequested[j] /\ b.state = "SUCCEEDED" THEN "CANCELLED" ELSE b.state
Sanitized(j, b) ==
  [lease |-> b.lease, state |-> Outcome(j, b), exit |-> b.exit,
   evidence |-> Redact[b.evidence]]

\* The first result closes the job.  The same one again is acknowledged and
\* a different one refused, so neither writes.
Open(j) == result[j] = None /\ state[j] \notin Terminal

ClosingEventsAsReported(j, b) ==
  <<Event("task.validation_passed"), Completed(b.state)>>
ClosingEvents(j, b) ==
  <<Event("task.validation_passed"), Completed(Outcome(j, b))>>

Result(a, j, b) ==
  /\ WellFormed(b)
  /\ OwnedUnder(a, j, b.lease)
  /\ Open(j)
  /\ state' = [state EXCEPT ![j] = Outcome(j, b)]
  /\ result' = [result EXCEPT ![j] = Sanitized(j, b)]
  /\ log' = [log EXCEPT ![j] = @ \o ClosingEvents(j, b)]
  /\ UNCHANGED <<capable, goal, created, lease, cancelRequested, progress, issued>>

\* 200 with "duplicate", the only other answer to a result that is no error.
ResultRepeated(a, j, b) ==
  /\ WellFormed(b)
  /\ OwnedUnder(a, j, b.lease)
  /\ result[j] = Sanitized(j, b)

-----------------------------------------------------------------------------
OperatorStep ==
  \E j \in Jobs :
    \/ \E g \in Goal : Submit(j, g)
    \/ \E plan \in Plan, approve \in BOOLEAN : Approval(j, plan, approve)
    \/ Cancel(j)

\* Result bodies under any lease that was ever handed out.
IssuedBodies == [lease : 1 .. issued, state : Terminal, exit : {0, 1},
                 evidence : Evidence, intact : BOOLEAN]

AgentRequest(a) ==
  \/ \E c \in {"capable", "incapable"} : Register(a, c) \/ Heartbeat(a, c)
  \/ \E j \in Jobs :
       \/ Dispatch(a, j)
       \/ \E l \in 1 .. issued, n \in Sequences : Progress(a, j, l, n)
       \/ \E b \in IssuedBodies : Result(a, j, b)

ControlNext == OperatorStep \/ \E a \in Agents : AgentRequest(a)

ControlSpec == ControlInit /\ [][ControlNext]_controlVars

-----------------------------------------------------------------------------
(* Properties.                                                             *)

ControlTypeOK ==
  /\ capable \in [Agents -> {"absent", "capable", "incapable"}]
  /\ state \in [Jobs -> JobStates \cup {"ABSENT"}]
  /\ goal \in [Jobs -> Goal \cup {None}]
  /\ \A j \in Jobs : Exists(j) => goal[j] \in Goal
  /\ created \in [Jobs -> Nat]
  /\ lease \in [Jobs -> Leases \cup {None}]
  /\ cancelRequested \in [Jobs -> BOOLEAN]
  /\ result \in [Jobs -> StoredResult \cup {None}]
  /\ progress \in [Jobs -> SUBSET Sequences]
  /\ log \in [Jobs -> Seq(Events)]
  /\ issued \in Nat

\* No job is handed to an agent while that agent still holds another one,
\* whatever the agent calls and however often it claims (claim, "never
\* redeliver an uncertain started job to a different execution").
OneActivePerAgent ==
  \A i, j \in Jobs :
    /\ state[i] \in Active
    /\ state[j] \in Active
    /\ TargetOf(i) = TargetOf(j)
    => i = j

\* A job of risk MEDIUM is leased to an agent only after the operator approved
\* it, and a job the operator rejected is never leased (submit, approval, claim).
ApprovalGate ==
  \A j \in Jobs :
    lease[j] # None =>
      /\ Risky(goal[j]) => HasEvent(j, "job.approved")
      /\ ~HasEvent(j, "job.rejected")

\* A result is stored for the jobs that an agent held and closed, and for no
\* other; it is what the job's state and lease say (claim, cancel, result).
ResultClosesLease ==
  \A j \in Jobs :
    /\ result[j] # None <=> (lease[j] # None /\ state[j] \in Terminal)
    /\ result[j] # None => /\ result[j].lease = lease[j]
                           /\ result[j].state = state[j]

\* SUCCEEDED means exit code zero and that nobody asked to cancel before the
\* result came, in whatever order result and cancellation raced (result, cancel).
SuccessIsEarned ==
  \A j \in Jobs :
    state[j] = "SUCCEEDED" => ~cancelRequested[j] /\ result[j].exit = 0

\* What a reader of the audit trail concludes about a job after each event.
StateAfter(s, e) ==
  IF e[1] = "job.approval_required" THEN "WAITING_APPROVAL"
  ELSE IF e[1] \in {"job.queued", "job.approved"} THEN "QUEUED"
  ELSE IF e[1] = "job.rejected" THEN "CANCELLED"
  ELSE IF e[1] = "job.cancel_requested" /\ s \in {"QUEUED", "WAITING_APPROVAL"} THEN "CANCELLED"
  ELSE IF e[1] = "job.dispatched" THEN "DISPATCHED"
  ELSE IF e[1] = "job.output" THEN "RUNNING"
  ELSE IF e[1] = "job.completed" THEN e[2]
  ELSE s

\* And after all of them, from the row that was not there.
Replay(trail) ==
  LET after[n \in 0 .. Len(trail)] ==
        IF n = 0 THEN "ABSENT" ELSE StateAfter(after[n - 1], trail[n])
  IN after[Len(trail)]

\* The audit trail tells each job's story: replaying its events gives the state
\* its row has (every handler writes its event in the transaction of its update).
AuditTrailReplays == \A j \in Jobs : Replay(log[j]) = state[j]

\* A closed job is frozen: no late claim, chunk, result, approval or cancellation
\* changes its row, its result or its audit trail.
ClosedIsForever ==
  [][\A j \in Jobs :
       state[j] \in Terminal =>
         /\ state'[j] = state[j]
         /\ result'[j] = result[j]
         /\ lease'[j] = lease[j]
         /\ cancelRequested'[j] = cancelRequested[j]
         /\ log'[j] = log[j]]_controlVars
=============================================================================
