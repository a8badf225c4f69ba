-------------------------- MODULE ControlJobsProofs --------------------------
(***************************************************************************)
(* Proofs about the job table, for any number of jobs, agents and keys.    *)
(***************************************************************************)
EXTENDS ControlJobs, FiniteSetTheorems, SequenceTheorems, WellFoundedInduction, TLAPS

\* An event that is written is an event.
LEMMA EventsTyped ==
  /\ \A k \in EventKinds : Event(k) \in Events /\ Event(k)[1] = k
  /\ \A s \in Terminal : Completed(s) \in Events /\ Completed(s)[1] = "job.completed"
BY DEF Event, Completed, Events, EventKinds

\* Appending to an audit trail adds the kinds of what is appended.
LEMMA KindsAppend ==
  ASSUME NEW s \in Seq(Events), NEW e \in Events
  PROVE  /\ Append(s, e) \in Seq(Events)
         /\ Kinds(Append(s, e)) = Kinds(s) \cup {e[1]}
<1>1. Append(s, e) \in Seq(Events)
  BY AppendProperties
<1>2. /\ DOMAIN Append(s, e) = DOMAIN s \cup {Len(s) + 1}
      /\ \A i \in DOMAIN s : Append(s, e)[i] = s[i]
      /\ Append(s, e)[Len(s) + 1] = e
  BY AppendProperties
<1>3. QED
  BY <1>1, <1>2 DEF Kinds

LEMMA KindsConcat ==
  ASSUME NEW s \in Seq(Events), NEW e \in Events, NEW f \in Events
  PROVE  /\ s \o <<e, f>> \in Seq(Events)
         /\ Kinds(s \o <<e, f>>) = Kinds(s) \cup {e[1], f[1]}
<1>1. Append(s, e) \in Seq(Events) /\ Kinds(Append(s, e)) = Kinds(s) \cup {e[1]}
  BY KindsAppend
<1>2. /\ Append(Append(s, e), f) \in Seq(Events)
      /\ Kinds(Append(Append(s, e), f)) = Kinds(Append(s, e)) \cup {f[1]}
  BY <1>1, KindsAppend
<1>3. s \o <<e, f>> = Append(Append(s, e), f)
  OBVIOUS
<1>4. QED
  BY <1>1, <1>2, <1>3

LEMMA KindsPair ==
  ASSUME NEW e \in Events, NEW f \in Events
  PROVE  /\ <<e, f>> \in Seq(Events)
         /\ Kinds(<<e, f>>) = {e[1], f[1]}
<1>1. <<e, f>> \in Seq(Events) /\ DOMAIN <<e, f>> = {1, 2}
  OBVIOUS
<1>2. QED
  BY <1>1 DEF Kinds

-----------------------------------------------------------------------------
(* Type correctness.                                                       *)

LEMMA InitTyped == ControlInit => ControlTypeOK
BY DEF ControlInit, ControlTypeOK, Exists, JobStates

LEMMA SubmitTyped ==
  ASSUME ControlTypeOK, NEW j \in Jobs, NEW g \in Goal, Submit(j, g)
  PROVE  ControlTypeOK'
<1>1. Cardinality({i \in Jobs : Exists(i)}) + 1 \in Nat
  BY JobsAssumption, FS_Subset, FS_CardinalityType
<1>2. /\ Event("job.created") \in Events
      /\ Event(IF FirstState(g) = "WAITING_APPROVAL"
               THEN "job.approval_required" ELSE "job.queued") \in Events
  BY EventsTyped DEF EventKinds
<1>3. log' \in [Jobs -> Seq(Events)]
  BY <1>2, KindsPair DEF Submit, ControlTypeOK
<1>4. created' \in [Jobs -> Nat]
  BY <1>1 DEF Submit, ControlTypeOK
<1>5. state' \in [Jobs -> JobStates \cup {"ABSENT"}]
  BY DEF Submit, ControlTypeOK, FirstState, JobStates
<1>6. /\ goal' \in [Jobs -> Goal \cup {None}]
      /\ \A i \in Jobs : Exists(i)' => goal'[i] \in Goal
  BY DEF Submit, ControlTypeOK, Exists
<1>7. QED
  BY <1>3, <1>4, <1>5, <1>6 DEF Submit, ControlTypeOK

LEMMA ApprovalTyped ==
  ASSUME ControlTypeOK, NEW j \in Jobs, NEW plan \in Plan, NEW approve \in BOOLEAN,
         Approval(j, plan, approve)
  PROVE  ControlTypeOK'
<1>1. Event(IF approve THEN "job.approved" ELSE "job.rejected") \in Events
  BY EventsTyped DEF EventKinds
<1>2. log' \in [Jobs -> Seq(Events)]
  BY <1>1, KindsAppend DEF Approval, ControlTypeOK
<1>3. QED
  BY <1>2 DEF Approval, Approvable, ControlTypeOK, Exists, JobStates, Terminal, Active

LEMMA CancelTyped ==
  ASSUME ControlTypeOK, NEW j \in Jobs, Cancel(j)
  PROVE  ControlTypeOK'
<1>1. Event("job.cancel_requested") \in Events
  BY EventsTyped DEF EventKinds
<1>2. log' \in [Jobs -> Seq(Events)]
  BY <1>1, KindsAppend DEF Cancel, ControlTypeOK
<1>3. QED
  BY <1>2 DEF Cancel, CancelledState, ControlTypeOK, Exists, JobStates, Terminal

LEMMA DispatchTyped ==
  ASSUME ControlTypeOK, NEW a \in Agents, NEW j \in Jobs, Dispatch(a, j)
  PROVE  ControlTypeOK'
<1>1. Event("job.dispatched") \in Events
  BY EventsTyped DEF EventKinds
<1>2. log' \in [Jobs -> Seq(Events)]
  BY <1>1, KindsAppend DEF Dispatch, ControlTypeOK
<1>3. issued + 1 \in Leases /\ issued + 1 \in Nat
  BY DEF ControlTypeOK, Leases
<1>4. state[j] = "QUEUED"
  BY DEF Dispatch, Oldest, QueuedOf
<1>5. QED
  BY <1>2, <1>3, <1>4 DEF Dispatch, ControlTypeOK, Exists, JobStates, Active

LEMMA ProgressTyped ==
  ASSUME ControlTypeOK, NEW a \in Agents, NEW j \in Jobs, NEW l, NEW n \in Sequences,
         Progress(a, j, l, n)
  PROVE  ControlTypeOK'
<1>1. Event("job.output") \in Events
  BY EventsTyped DEF EventKinds
<1>2. log' \in [Jobs -> Seq(Events)]
  BY <1>1, KindsAppend DEF Progress, ControlTypeOK
<1>3. progress' \in [Jobs -> SUBSET Sequences]
  BY DEF Progress, ControlTypeOK
<1>4. QED
  BY <1>2, <1>3 DEF Progress, OwnedUnder, Owned, ControlTypeOK, Exists, JobStates, Active

LEMMA ResultTyped ==
  ASSUME ControlTypeOK, NEW a \in Agents, NEW j \in Jobs, NEW b \in ResultBody,
         Result(a, j, b)
  PROVE  ControlTypeOK'
<1>1. Outcome(j, b) \in Terminal
  BY DEF Outcome, ResultBody, Terminal
<1>2. /\ Event("task.validation_passed") \in Events
      /\ Completed(Outcome(j, b)) \in Events
  BY <1>1, EventsTyped DEF EventKinds
<1>3. log' \in [Jobs -> Seq(Events)]
  BY <1>2, KindsConcat DEF Result, ClosingEvents, ControlTypeOK
<1>4. Sanitized(j, b) \in StoredResult
  BY <1>1, RedactAssumption DEF Sanitized, StoredResult, ResultBody
<1>5. QED
  BY <1>1, <1>3, <1>4
  DEF Result, OwnedUnder, Owned, ControlTypeOK, Exists, JobStates

LEMMA NextTyped ==
  ASSUME ControlTypeOK, [ControlNext]_controlVars
  PROVE  ControlTypeOK'
<1>1. CASE OperatorStep
  BY <1>1, SubmitTyped, ApprovalTyped, CancelTyped DEF OperatorStep
<1>2. ASSUME NEW a \in Agents, AgentRequest(a)
      PROVE  ControlTypeOK'
  <2>1. CASE \E c \in {"capable", "incapable"} : Register(a, c) \/ Heartbeat(a, c)
    BY <2>1 DEF Register, Heartbeat, jobVars, ControlTypeOK, Exists
  <2>2. ASSUME NEW j \in Jobs, Dispatch(a, j)
        PROVE  ControlTypeOK'
    BY <2>2, DispatchTyped
  <2>3. ASSUME NEW j \in Jobs, NEW l \in 1 .. issued, NEW n \in Sequences,
               Progress(a, j, l, n)
        PROVE  ControlTypeOK'
    BY <2>3, ProgressTyped
  <2>4. ASSUME NEW j \in Jobs, NEW b \in ResultBody, Result(a, j, b)
        PROVE  ControlTypeOK'
    BY <2>4, ResultTyped
  <2>5. IssuedBodies \subseteq ResultBody
    BY DEF IssuedBodies, ResultBody, Leases, ControlTypeOK
  <2>6. QED
    BY <1>2, <2>1, <2>2, <2>3, <2>4, <2>5 DEF AgentRequest
<1>3. CASE UNCHANGED controlVars
  BY <1>3 DEF controlVars, jobVars, ControlTypeOK, Exists
<1>4. QED
  BY <1>1, <1>2, <1>3 DEF ControlNext

\* The columns of the job table always hold what protocol.py allows in them.
THEOREM ControlTypeCorrect == ControlSpec => []ControlTypeOK
BY InitTyped, NextTyped, PTL DEF ControlSpec

-----------------------------------------------------------------------------
(* The inductive invariant: what one row says, and what two rows of one    *)
(* agent say.  The lease tells whether an agent ever had the job, and the  *)
(* approval gate has to hold from the moment the job is queued.            *)

Unassigned == {"ABSENT", "WAITING_APPROVAL", "QUEUED"}

LeaseRow(j) ==
  /\ state[j] \in Active => lease[j] # None
  /\ state[j] \in Unassigned => lease[j] = None
ResultRow(j) ==
  /\ result[j] # None <=> lease[j] # None /\ state[j] \in Terminal
  /\ result[j] # None => result[j].lease = lease[j] /\ result[j].state = state[j]
GateRow(j) ==
  /\ (state[j] = "QUEUED" \/ lease[j] # None) /\ Risky(goal[j]) =>
       HasEvent(j, "job.approved")
  /\ Exists(j) /\ HasEvent(j, "job.rejected") => state[j] = "CANCELLED" /\ lease[j] = None
SuccessRow(j) ==
  state[j] = "SUCCEEDED" => ~cancelRequested[j] /\ result[j].exit = 0

Row(j) == LeaseRow(j) /\ ResultRow(j) /\ GateRow(j) /\ SuccessRow(j)

ControlInv ==
  /\ ControlTypeOK
  /\ \A j \in Jobs : Row(j)
  /\ OneActivePerAgent

\* The other rows are not touched, whatever the step does to row j.
Untouched(i) ==
  /\ state'[i] = state[i]
  /\ goal'[i] = goal[i]
  /\ lease'[i] = lease[i]
  /\ cancelRequested'[i] = cancelRequested[i]
  /\ result'[i] = result[i]
  /\ log'[i] = log[i]

LEMMA UntouchedRow ==
  ASSUME NEW i \in Jobs, Row(i), Untouched(i)
  PROVE  Row(i)'
BY DEF Row, LeaseRow, ResultRow, GateRow, SuccessRow, Untouched, HasEvent, Exists

LEMMA InitInv == ControlInit => ControlInv
<1>1. ASSUME ControlInit, NEW j \in Jobs
      PROVE  Row(j)
  BY <1>1 DEF ControlInit, Row, LeaseRow, ResultRow, GateRow, SuccessRow, Exists,
     Active, Unassigned, Terminal
<1>2. ControlInit => OneActivePerAgent
  BY DEF ControlInit, OneActivePerAgent, Active
<1>3. QED
  BY InitTyped, <1>1, <1>2 DEF ControlInv

LEMMA SubmitInv ==
  ASSUME ControlInv, NEW j \in Jobs, NEW g \in Goal, Submit(j, g)
  PROVE  ControlInv'
<1>1. ASSUME NEW i \in Jobs, i # j
      PROVE  Row(i)'
  <2>1. Untouched(i)
    BY <1>1 DEF Submit, Untouched, ControlInv, ControlTypeOK
  <2>2. QED
    BY <2>1, UntouchedRow DEF ControlInv
<1>2. Row(j)'
  <2>1. /\ state'[j] = FirstState(g)
        /\ FirstState(g) \in {"WAITING_APPROVAL", "QUEUED"}
        /\ goal'[j] = g
        /\ lease'[j] = None /\ result'[j] = None
    BY DEF Submit, FirstState, ControlInv, ControlTypeOK, Row, LeaseRow, ResultRow,
       Exists, Unassigned
  <2>2. FirstState(g) = "QUEUED" => ~Risky(g)
    BY DEF FirstState
  <2>3. Kinds(log'[j]) \subseteq {"job.created", "job.approval_required", "job.queued"}
    <3>1. log'[j] = <<Event("job.created"),
                      Event(IF FirstState(g) = "WAITING_APPROVAL"
                            THEN "job.approval_required" ELSE "job.queued")>>
      BY DEF Submit, ControlInv, ControlTypeOK
    <3>2. QED
      BY <3>1, EventsTyped, KindsPair DEF EventKinds
  <2>4. QED
    BY <2>1, <2>2, <2>3 DEF Row, LeaseRow, ResultRow, GateRow, SuccessRow, Exists,
       HasEvent, Active, Unassigned, Terminal
<1>3. OneActivePerAgent'
  <2>1. \A i \in Jobs : state'[i] \in Active => i # j /\ Untouched(i)
    BY DEF Submit, FirstState, Untouched, ControlInv, ControlTypeOK, Active
  <2>2. QED
    BY <2>1 DEF OneActivePerAgent, TargetOf, Untouched, ControlInv
<1>4. QED
  BY <1>1, <1>2, <1>3, SubmitTyped DEF ControlInv

LEMMA ApprovalInv ==
  ASSUME ControlInv, NEW j \in Jobs, NEW plan \in Plan, NEW approve \in BOOLEAN,
         Approval(j, plan, approve)
  PROVE  ControlInv'
<1>1. ASSUME NEW i \in Jobs, i # j
      PROVE  Row(i)'
  <2>1. Untouched(i)
    BY <1>1 DEF Approval, Untouched, ControlInv, ControlTypeOK
  <2>2. QED
    BY <2>1, UntouchedRow DEF ControlInv
<1>2. Row(j)'
  <2>1. /\ state[j] = "WAITING_APPROVAL"
        /\ state'[j] = IF approve THEN "QUEUED" ELSE "CANCELLED"
        /\ goal'[j] = goal[j]
        /\ lease'[j] = None /\ result'[j] = None
        /\ ~HasEvent(j, "job.rejected")
    BY DEF Approval, Approvable, ControlInv, ControlTypeOK, Row, LeaseRow, ResultRow,
       GateRow, Exists, Unassigned, Terminal
  <2>2. Kinds(log'[j]) = Kinds(log[j]) \cup
                         {IF approve THEN "job.approved" ELSE "job.rejected"}
    BY EventsTyped, KindsAppend DEF Approval, EventKinds, ControlInv, ControlTypeOK
  <2>3. QED
    BY <2>1, <2>2 DEF Row, LeaseRow, ResultRow, GateRow, SuccessRow, Exists,
       HasEvent, Active, Unassigned, Terminal
<1>3. OneActivePerAgent'
  <2>1. \A i \in Jobs : state'[i] \in Active => i # j /\ Untouched(i)
    BY DEF Approval, Untouched, ControlInv, ControlTypeOK, Active
  <2>2. QED
    BY <2>1 DEF OneActivePerAgent, TargetOf, Untouched, ControlInv
<1>4. QED
  BY <1>1, <1>2, <1>3, ApprovalTyped DEF ControlInv

LEMMA CancelInv ==
  ASSUME ControlInv, NEW j \in Jobs, Cancel(j)
  PROVE  ControlInv'
<1>1. ASSUME NEW i \in Jobs, i # j
      PROVE  Row(i)'
  <2>1. Untouched(i)
    BY <1>1 DEF Cancel, Untouched, ControlInv, ControlTypeOK
  <2>2. QED
    BY <2>1, UntouchedRow DEF ControlInv
<1>2. Row(j)'
  <2>1. /\ state[j] \in JobStates \ Terminal
        /\ state'[j] = CancelledState(j)
        /\ goal'[j] = goal[j] /\ lease'[j] = lease[j] /\ result'[j] = result[j]
    BY DEF Cancel, ControlInv, ControlTypeOK, Exists
  <2>2. Kinds(log'[j]) = Kinds(log[j]) \cup {"job.cancel_requested"}
    BY EventsTyped, KindsAppend DEF Cancel, EventKinds, ControlInv, ControlTypeOK
  <2>3. QED
    BY <2>1, <2>2 DEF Row, LeaseRow, ResultRow, GateRow, SuccessRow, Exists, ControlInv,
       CancelledState, HasEvent, JobStates, Active, Unassigned, Terminal
<1>3. OneActivePerAgent'
  <2>1. \A i \in Jobs : state'[i] \in Active => state[i] \in Active /\ goal'[i] = goal[i]
    BY DEF Cancel, CancelledState, ControlInv, ControlTypeOK, Active
  <2>2. QED
    BY <2>1 DEF OneActivePerAgent, TargetOf, ControlInv
<1>4. QED
  BY <1>1, <1>2, <1>3, CancelTyped DEF ControlInv

LEMMA DispatchInv ==
  ASSUME ControlInv, NEW a \in Agents, NEW j \in Jobs, Dispatch(a, j)
  PROVE  ControlInv'
<1>1. ASSUME NEW i \in Jobs, i # j
      PROVE  Row(i)'
  <2>1. Untouched(i)
    BY <1>1 DEF Dispatch, Untouched, ControlInv, ControlTypeOK
  <2>2. QED
    BY <2>1, UntouchedRow DEF ControlInv
<1>2. /\ state[j] = "QUEUED" /\ TargetOf(j) = a
      /\ state'[j] = "DISPATCHED"
  BY DEF Dispatch, Oldest, QueuedOf, ControlInv, ControlTypeOK
<1>3. Row(j)'
  <2>1. /\ lease'[j] = issued + 1
        /\ issued + 1 # None
    BY NoneAssumption DEF Dispatch, ControlInv, ControlTypeOK
  <2>2. /\ goal'[j] = goal[j] /\ result'[j] = None
        /\ Risky(goal[j]) => HasEvent(j, "job.approved")
        /\ ~HasEvent(j, "job.rejected")
    BY <1>2 DEF Dispatch, ControlInv, Row, LeaseRow, ResultRow, GateRow, Exists,
       Unassigned, Terminal
  <2>3. Kinds(log'[j]) = Kinds(log[j]) \cup {"job.dispatched"}
    BY EventsTyped, KindsAppend DEF Dispatch, EventKinds, ControlInv, ControlTypeOK
  <2>4. QED
    BY <1>2, <2>1, <2>2, <2>3 DEF Row, LeaseRow, ResultRow, GateRow, SuccessRow,
       Exists, HasEvent, Active, Unassigned, Terminal
<1>4. OneActivePerAgent'
  \* The agent held nothing, so the job it is given is its only one.
  <2>1. goal' = goal /\ \A i \in Jobs : i # j => state'[i] = state[i]
    BY DEF Dispatch, ControlInv, ControlTypeOK
  <2>2. \A i \in Jobs : state[i] \in Active => TargetOf(i) # a
    BY DEF Dispatch, Free, ActiveOf
  <2>3. QED
    BY <1>2, <2>1, <2>2 DEF OneActivePerAgent, TargetOf, ControlInv
<1>5. QED
  BY <1>1, <1>3, <1>4, DispatchTyped DEF ControlInv

LEMMA ProgressInv ==
  ASSUME ControlInv, NEW a \in Agents, NEW j \in Jobs, NEW l \in Leases,
         NEW n \in Sequences, Progress(a, j, l, n)
  PROVE  ControlInv'
<1>1. ASSUME NEW i \in Jobs, i # j
      PROVE  Row(i)'
  <2>1. Untouched(i)
    BY <1>1 DEF Progress, Untouched, ControlInv, ControlTypeOK
  <2>2. QED
    BY <2>1, UntouchedRow DEF ControlInv
<1>2. \* A lease that matches belongs to a job some agent has, and that is open.
      /\ lease[j] # None
      /\ state[j] \in Active
      /\ state'[j] = "RUNNING"
  BY NoneAssumption DEF Progress, OwnedUnder, Owned, Streamable, Leases, ControlInv,
     ControlTypeOK, Row, LeaseRow, Exists, JobStates, Unassigned
<1>3. Row(j)'
  <2>1. /\ goal'[j] = goal[j] /\ lease'[j] = lease[j] /\ result'[j] = result[j]
        /\ result[j] = None
    BY <1>2 DEF Progress, ControlInv, Row, ResultRow, Active, Terminal
  <2>2. Kinds(log'[j]) = Kinds(log[j]) \cup {"job.output"}
    BY EventsTyped, KindsAppend DEF Progress, EventKinds, ControlInv, ControlTypeOK
  <2>3. QED
    BY <1>2, <2>1, <2>2 DEF Row, LeaseRow, ResultRow, GateRow, SuccessRow, ControlInv,
       Exists, HasEvent, Active, Unassigned, Terminal
<1>4. OneActivePerAgent'
  <2>1. goal' = goal /\ \A i \in Jobs : state'[i] \in Active => state[i] \in Active
    BY <1>2 DEF Progress, ControlInv, ControlTypeOK
  <2>2. QED
    BY <2>1 DEF OneActivePerAgent, TargetOf, ControlInv
<1>5. QED
  BY <1>1, <1>3, <1>4, ProgressTyped DEF ControlInv

LEMMA ResultInv ==
  ASSUME ControlInv, NEW a \in Agents, NEW j \in Jobs, NEW b \in ResultBody,
         Result(a, j, b)
  PROVE  ControlInv'
<1>1. ASSUME NEW i \in Jobs, i # j
      PROVE  Row(i)'
  <2>1. Untouched(i)
    BY <1>1 DEF Result, Untouched, ControlInv, ControlTypeOK
  <2>2. QED
    BY <2>1, UntouchedRow DEF ControlInv
<1>2. /\ lease[j] = b.lease /\ b.lease # None
      /\ state[j] \in Active
      /\ state'[j] = Outcome(j, b)
      /\ Outcome(j, b) \in Terminal
  <2>1. lease[j] = b.lease /\ b.lease # None
    BY NoneAssumption DEF Result, OwnedUnder, ResultBody, Leases
  <2>2. state[j] \in Active
    BY <2>1 DEF Result, Open, OwnedUnder, Owned, ControlInv, ControlTypeOK, Row, LeaseRow,
       Exists, JobStates, Unassigned
  <2>3. state'[j] = Outcome(j, b) /\ Outcome(j, b) \in Terminal
    BY DEF Result, Outcome, ResultBody, Terminal, ControlInv, ControlTypeOK
  <2>4. QED
    BY <2>1, <2>2, <2>3
<1>3. Row(j)'
  <2>1. /\ goal'[j] = goal[j] /\ lease'[j] = lease[j]
        /\ cancelRequested'[j] = cancelRequested[j]
        /\ result'[j] = Sanitized(j, b)
    BY DEF Result, ControlInv, ControlTypeOK
  <2>2. /\ Sanitized(j, b).state = Outcome(j, b)
        /\ Sanitized(j, b).lease = lease[j]
        /\ Sanitized(j, b).exit = b.exit
        /\ Sanitized(j, b) \in StoredResult
    BY <1>2, RedactAssumption DEF Sanitized, StoredResult, ResultBody
  <2>3. Sanitized(j, b) # None
    BY <2>2, NoneAssumption
  <2>4. Outcome(j, b) = "SUCCEEDED" => ~cancelRequested[j] /\ b.exit = 0
    BY DEF Outcome, Result, WellFormed
  <2>5. Kinds(log'[j]) = Kinds(log[j]) \cup {"task.validation_passed", "job.completed"}
    <3>1. /\ Event("task.validation_passed") \in Events
          /\ Event("task.validation_passed")[1] = "task.validation_passed"
          /\ Completed(Outcome(j, b)) \in Events
          /\ Completed(Outcome(j, b))[1] = "job.completed"
      BY <1>2, EventsTyped DEF EventKinds
    <3>2. /\ log[j] \in Seq(Events)
          /\ log'[j] = log[j] \o <<Event("task.validation_passed"),
                                   Completed(Outcome(j, b))>>
      BY DEF Result, ClosingEvents, ControlInv, ControlTypeOK
    <3>3. QED
      BY <3>1, <3>2, KindsConcat
  <2>6. QED
    BY <1>2, <2>1, <2>2, <2>3, <2>4, <2>5 DEF Row, LeaseRow, ResultRow, GateRow,
       SuccessRow, ControlInv, Exists, HasEvent, Active, Unassigned, Terminal
<1>4. OneActivePerAgent'
  <2>1. goal' = goal /\ \A i \in Jobs : state'[i] \in Active => state[i] \in Active
    BY <1>2 DEF Result, ControlInv, ControlTypeOK
  <2>2. QED
    BY <2>1 DEF OneActivePerAgent, TargetOf, ControlInv
<1>5. QED
  BY <1>1, <1>3, <1>4, ResultTyped DEF ControlInv

LEMMA StutterInv ==
  ASSUME ControlInv, UNCHANGED jobVars, ControlTypeOK'
  PROVE  ControlInv'
<1>1. \A i \in Jobs : Untouched(i)
  BY DEF jobVars, Untouched
<1>2. QED
  BY <1>1, UntouchedRow DEF ControlInv, OneActivePerAgent, TargetOf, jobVars

LEMMA NextInv ==
  ASSUME ControlInv, [ControlNext]_controlVars
  PROVE  ControlInv'
<1>1. CASE OperatorStep
  BY <1>1, SubmitInv, ApprovalInv, CancelInv DEF OperatorStep
<1>2. ASSUME NEW a \in Agents, AgentRequest(a)
      PROVE  ControlInv'
  <2>1. CASE \E c \in {"capable", "incapable"} : Register(a, c) \/ Heartbeat(a, c)
    BY <2>1, <1>2, NextTyped, StutterInv DEF Register, Heartbeat, ControlNext, ControlInv
  <2>2. ASSUME NEW j \in Jobs, Dispatch(a, j)
        PROVE  ControlInv'
    BY <2>2, DispatchInv
  <2>3. ASSUME NEW j \in Jobs, NEW l \in 1 .. issued, NEW n \in Sequences,
               Progress(a, j, l, n)
        PROVE  ControlInv'
    <3>1. l \in Leases
      BY DEF Leases, ControlInv, ControlTypeOK
    <3>2. QED
      BY <2>3, <3>1, ProgressInv
  <2>4. ASSUME NEW j \in Jobs, NEW b \in ResultBody, Result(a, j, b)
        PROVE  ControlInv'
    BY <2>4, ResultInv
  <2>5. IssuedBodies \subseteq ResultBody
    BY DEF IssuedBodies, ResultBody, Leases, ControlInv, ControlTypeOK
  <2>6. QED
    BY <1>2, <2>1, <2>2, <2>3, <2>4, <2>5 DEF AgentRequest
<1>3. CASE UNCHANGED controlVars
  BY <1>3, NextTyped, StutterInv DEF controlVars, ControlInv
<1>4. QED
  BY <1>1, <1>2, <1>3 DEF ControlNext

THEOREM ControlInvariant == ControlSpec => []ControlInv
BY InitInv, NextInv, PTL DEF ControlSpec

-----------------------------------------------------------------------------
(* What follows from it.                                                   *)

\* No agent ever holds two jobs, however its claims interleave (claim).
THEOREM OneActive == ControlSpec => []OneActivePerAgent
<1>1. ControlInv => OneActivePerAgent
  BY DEF ControlInv
<1>2. QED
  BY <1>1, ControlInvariant, PTL

\* No agent is ever given a risky job nobody approved, or a rejected one
\* (submit, approval, claim).
THEOREM Gate == ControlSpec => []ApprovalGate
<1>1. ControlInv => ApprovalGate
  <2>1. ASSUME ControlInv, NEW j \in Jobs, lease[j] # None
        PROVE  Exists(j)
    BY <2>1 DEF ControlInv, Row, LeaseRow, Exists, Unassigned
  <2>2. QED
    BY <2>1 DEF ControlInv, ApprovalGate, Row, GateRow
<1>2. QED
  BY <1>1, ControlInvariant, PTL

\* Results are stored for exactly the jobs an agent had and closed (result, cancel).
THEOREM ResultsCloseLeases == ControlSpec => []ResultClosesLease
<1>1. ControlInv => ResultClosesLease
  BY DEF ControlInv, ResultClosesLease, Row, ResultRow
<1>2. QED
  BY <1>1, ControlInvariant, PTL

\* A job that succeeded exited with zero and was not cancelled before (result).
THEOREM SuccessEarned == ControlSpec => []SuccessIsEarned
<1>1. ControlInv => SuccessIsEarned
  BY DEF ControlInv, SuccessIsEarned, Row, SuccessRow
<1>2. QED
  BY <1>1, ControlInvariant, PTL

Frozen(j) ==
  /\ state'[j] = state[j]
  /\ result'[j] = result[j]
  /\ lease'[j] = lease[j]
  /\ cancelRequested'[j] = cancelRequested[j]
  /\ log'[j] = log[j]

\* Each handler writes one row, and never that of a closed job.
LEMMA StepFreezes ==
  ASSUME ControlInv, [ControlNext]_controlVars, NEW j \in Jobs, state[j] \in Terminal
  PROVE  Frozen(j)
<1>. USE DEF ControlInv, ControlTypeOK, Frozen
<1>1. ASSUME NEW i \in Jobs, NEW g \in Goal, Submit(i, g)
      PROVE  Frozen(j)
  BY <1>1 DEF Submit, Exists, Terminal
<1>2. ASSUME NEW i \in Jobs, NEW plan \in Plan, NEW approve \in BOOLEAN,
             Approval(i, plan, approve)
      PROVE  Frozen(j)
  BY <1>2 DEF Approval, Approvable, Terminal
<1>3. ASSUME NEW i \in Jobs, Cancel(i)
      PROVE  Frozen(j)
  BY <1>3 DEF Cancel
<1>4. ASSUME NEW a \in Agents, AgentRequest(a)
      PROVE  Frozen(j)
  <2>1. ASSUME NEW c, Register(a, c) \/ Heartbeat(a, c)
        PROVE  Frozen(j)
    BY <2>1 DEF Register, Heartbeat, jobVars
  <2>2. ASSUME NEW i \in Jobs, Dispatch(a, i)
        PROVE  Frozen(j)
    BY <2>2 DEF Dispatch, Oldest, QueuedOf, Terminal
  <2>3. ASSUME NEW i \in Jobs, NEW l, NEW n, Progress(a, i, l, n)
        PROVE  Frozen(j)
    BY <2>3 DEF Progress, Streamable
  <2>4. ASSUME NEW i \in Jobs, NEW b, Result(a, i, b)
        PROVE  Frozen(j)
    BY <2>4 DEF Result, Open
  <2>5. QED
    BY <1>4, <2>1, <2>2, <2>3, <2>4 DEF AgentRequest
<1>5. CASE UNCHANGED controlVars
  BY <1>5 DEF controlVars, jobVars
<1>6. QED
  BY <1>1, <1>2, <1>3, <1>4, <1>5 DEF ControlNext, OperatorStep

\* A closed job stays as it is, whoever calls whatever handler (all handlers).
THEOREM Closed == ControlSpec => ClosedIsForever
<1>1. ControlInv /\ [ControlNext]_controlVars =>
        [\A j \in Jobs : state[j] \in Terminal =>
           /\ state'[j] = state[j]
           /\ result'[j] = result[j]
           /\ lease'[j] = lease[j]
           /\ cancelRequested'[j] = cancelRequested[j]
           /\ log'[j] = log[j]]_controlVars
  BY StepFreezes DEF Frozen
<1>2. QED
  BY <1>1, ControlInvariant, PTL DEF ControlSpec, ClosedIsForever
-----------------------------------------------------------------------------
(* The audit trail.  A reader's conclusions after each event are a         *)
(* function of how many events were read; there is only one such function, *)
(* and every handler extends it.                                           *)

Story(f, trail) ==
  f = [n \in 0 .. Len(trail) |-> IF n = 0 THEN "ABSENT" ELSE StateAfter(f[n - 1], trail[n])]

\* Reading the trail leads to state x.
Tells(trail, x) == \E f : Story(f, trail) /\ f[Len(trail)] = x

\* Two readers agree: there is no first event on which they do not.
LEMMA OneStory ==
  ASSUME NEW trail \in Seq(Events), NEW f, NEW g, Story(f, trail), Story(g, trail)
  PROVE  f = g
<1> DEFINE D == {n \in 0 .. Len(trail) : f[n] # g[n]}
<1>1. Len(trail) \in Nat
  OBVIOUS
<1>2. CASE D # {}
  <2>1. D \subseteq Nat
    OBVIOUS
  <2>2. PICK n \in D : \A m \in D : <<m, n>> \notin OpToRel(<, Nat)
    BY <1>2, <2>1, NatLessThanWellFounded, WFMin, Zenon
  <2>3. \A m \in D : ~(m < n)
    BY <2>1, <2>2 DEF OpToRel
  <2>4. n \in 0 .. Len(trail) /\ f[n] # g[n]
    OBVIOUS
  <2>5. f[0] = "ABSENT" /\ g[0] = "ABSENT"
    BY <1>1 DEF Story
  <2>6. n - 1 \in 0 .. Len(trail) /\ n - 1 < n
    BY <1>1, <2>4, <2>5
  <2>7. f[n - 1] = g[n - 1]
    BY <2>3, <2>6
  <2>8. f[n] = StateAfter(f[n - 1], trail[n]) /\ g[n] = StateAfter(g[n - 1], trail[n])
    BY <2>4, <2>5 DEF Story
  <2> QED BY <2>4, <2>7, <2>8
<1>3. CASE D = {}
  <2>1. \A n \in 0 .. Len(trail) : f[n] = g[n]
    BY <1>3
  <2> QED BY <2>1 DEF Story
<1> QED BY <1>2, <1>3

\* So the trail is replayed to what it tells.
LEMMA ReplayTold ==
  ASSUME NEW trail \in Seq(Events), NEW x, Tells(trail, x)
  PROVE  Replay(trail) = x
<1>1. PICK f : Story(f, trail) /\ f[Len(trail)] = x
  BY DEF Tells
<1> DEFINE after == CHOOSE g : Story(g, trail)
<1>2. Story(after, trail)
  BY <1>1
<1>3. after = f
  BY <1>1, <1>2, OneStory
<1>4. Replay(trail) = after[Len(trail)]
  BY DEF Replay, Story
<1> QED BY <1>1, <1>3, <1>4

\* Nothing is told of a job without events,
LEMMA TellsNothing == Tells(<<>>, "ABSENT")
<1> DEFINE f == [n \in 0 .. 0 |-> "ABSENT"]
<1>1. f = [n \in 0 .. Len(<<>>) |-> IF n = 0 THEN "ABSENT" ELSE StateAfter(f[n - 1], <<>>[n])]
  OBVIOUS
<1>2. f[Len(<<>>)] = "ABSENT"
  OBVIOUS
<1> QED BY <1>1, <1>2 DEF Tells, Story

\* and each event that is appended adds one conclusion.
LEMMA TellsMore ==
  ASSUME NEW trail \in Seq(Events), NEW e \in Events, NEW x, Tells(trail, x)
  PROVE  Tells(Append(trail, e), StateAfter(x, e))
<1> DEFINE k == Len(trail)
           more == Append(trail, e)
<1>1. PICK f : Story(f, trail) /\ f[k] = x
  BY DEF Tells
<1> DEFINE g == [n \in 0 .. k + 1 |-> IF n = k + 1 THEN StateAfter(x, e) ELSE f[n]]
<1>2. /\ k \in Nat /\ Len(more) = k + 1 /\ more[k + 1] = e
      /\ \A n \in 1 .. k : more[n] = trail[n]
  OBVIOUS
<1>3. \A n \in 0 .. k : f[n] = IF n = 0 THEN "ABSENT" ELSE StateAfter(f[n - 1], trail[n])
  BY <1>1 DEF Story
<1> HIDE DEF k, more
<1>4. ASSUME NEW n \in 0 .. k + 1
      PROVE  g[n] = IF n = 0 THEN "ABSENT" ELSE StateAfter(g[n - 1], more[n])
  <2>1. CASE n = k + 1
    <3>1. g[n] = StateAfter(x, e) /\ n - 1 = k /\ k \in 0 .. k + 1 /\ k # k + 1 /\ n # 0
      BY <1>2, <2>1
    <3>2. g[n - 1] = x
      BY <1>1, <3>1
    <3> QED BY <1>2, <2>1, <3>1, <3>2
  <2>2. CASE n = 0
    <3>1. n # k + 1 /\ n \in 0 .. k
      BY <1>2, <2>2
    <3> QED BY <1>3, <2>2, <3>1
  <2>3. CASE n # k + 1 /\ n # 0
    <3>1. n \in 1 .. k /\ n \in 0 .. k /\ n - 1 \in 0 .. k + 1 /\ n - 1 # k + 1
      BY <1>2, <2>3
    <3>2. g[n] = f[n] /\ g[n - 1] = f[n - 1]
      BY <2>3, <3>1
    <3>3. f[n] = StateAfter(f[n - 1], trail[n])
      BY <1>3, <2>3, <3>1
    <3> QED BY <1>2, <2>3, <3>1, <3>2, <3>3
  <2> QED BY <2>1, <2>2, <2>3
<1>5. g = [n \in 0 .. Len(more) |-> IF n = 0 THEN "ABSENT" ELSE StateAfter(g[n - 1], more[n])]
  BY <1>2, <1>4
<1>6. g[Len(more)] = StateAfter(x, e)
  BY <1>2
<1> HIDE DEF g
<1>7. Tells(more, StateAfter(x, e))
  BY <1>5, <1>6 DEF Tells, Story
<1> QED BY <1>7 DEF more

\* Two events are written one after the other.
LEMMA TwoEvents ==
  ASSUME NEW s \in Seq(Events), NEW e \in Events, NEW f \in Events
  PROVE  /\ Append(s, e) \in Seq(Events)
         /\ Append(Append(s, e), f) = s \o <<e, f>>
         /\ Append(Append(<<>>, e), f) = <<e, f>>
         /\ <<>> \in Seq(Events) /\ Append(<<>>, e) \in Seq(Events)
<1>1. Append(s, e) \in Seq(Events) /\ Append(Append(s, e), f) = s \o <<e, f>>
  OBVIOUS
<1>2. <<>> \in Seq(Events) /\ Append(<<>>, e) \in Seq(Events)
  OBVIOUS
<1>3. Append(Append(<<>>, e), f) = <<e, f>>
  <2>1. \A t \in Seq(Events) : Append(Append(t, e), f) = t \o <<e, f>>
    OBVIOUS
  <2>2. <<>> \o <<e, f>> = <<e, f>>
    BY KindsPair, ConcatEmptySeq
  <2> QED BY <1>2, <2>1, <2>2
<1> QED BY <1>1, <1>2, <1>3

TrailInv == \A j \in Jobs : Tells(log[j], state[j])

\* No job is known yet.
LEMMA InitTrail == ControlInit => TrailInv
BY TellsNothing DEF ControlInit, TrailInv

\* One event is written with the state it leads to.
LEMMA OneEventTrail ==
  ASSUME ControlTypeOK, TrailInv, NEW j \in Jobs, NEW e \in Events,
         \A i \in Jobs \ {j} : state'[i] = state[i],
         log' = [log EXCEPT ![j] = Append(@, e)],
         state'[j] = StateAfter(state[j], e)
  PROVE  TrailInv'
<1>1. log'[j] = Append(log[j], e) /\ \A i \in Jobs \ {j} : log'[i] = log[i]
  BY DEF ControlTypeOK
<1>2. log[j] \in Seq(Events) /\ Tells(log[j], state[j])
  BY DEF ControlTypeOK, TrailInv
<1>3. Tells(Append(log[j], e), StateAfter(state[j], e))
  BY <1>2, TellsMore
<1> QED BY <1>1, <1>3 DEF TrailInv

\* Every handler writes what it did.
LEMMA StepTrail ==
  ASSUME ControlInv, TrailInv, [ControlNext]_controlVars
  PROVE  TrailInv'
<1> USE DEF ControlInv, ControlTypeOK
<1>1. ASSUME NEW j \in Jobs, NEW g \in Goal, Submit(j, g)
      PROVE  TrailInv'
  <2> DEFINE e == Event("job.created")
             f == Event(IF FirstState(g) = "WAITING_APPROVAL"
                        THEN "job.approval_required" ELSE "job.queued")
  <2>1. e \in Events /\ f \in Events
    BY EventsTyped DEF EventKinds
  <2>2. /\ StateAfter("ABSENT", e) = "ABSENT"
        /\ StateAfter("ABSENT", f) = FirstState(g)
    BY DEF StateAfter, Event, FirstState
  <2>3. /\ log'[j] = <<e, f>> /\ state'[j] = FirstState(g)
        /\ \A i \in Jobs \ {j} : log'[i] = log[i] /\ state'[i] = state[i]
    BY <1>1 DEF Submit
  <2> HIDE DEF e, f
  <2>4. Append(<<>>, e) \in Seq(Events) /\ <<>> \in Seq(Events) /\ Append(Append(<<>>, e), f) = <<e, f>>
    BY <2>1, TwoEvents
  <2>5. Tells(Append(<<>>, e), "ABSENT")
    BY <2>1, <2>2, <2>4, TellsNothing, TellsMore
  <2>6. Tells(<<e, f>>, FirstState(g))
    BY <2>1, <2>2, <2>4, <2>5, TellsMore
  <2> QED BY <2>3, <2>6 DEF TrailInv
<1>2. ASSUME NEW j \in Jobs, NEW plan \in Plan, NEW approve \in BOOLEAN, Approval(j, plan, approve)
      PROVE  TrailInv'
  <2> DEFINE e == Event(IF approve THEN "job.approved" ELSE "job.rejected")
  <2>1. e \in Events
    BY EventsTyped DEF EventKinds
  <2>2. state'[j] = StateAfter(state[j], e)
    BY <1>2 DEF Approval, StateAfter, Event
  <2> HIDE DEF e
  <2> QED BY <1>2, <2>1, <2>2, OneEventTrail DEF Approval, e
<1>3. ASSUME NEW j \in Jobs, Cancel(j)
      PROVE  TrailInv'
  <2>1. Event("job.cancel_requested") \in Events
    BY EventsTyped DEF EventKinds
  <2>2. state'[j] = StateAfter(state[j], Event("job.cancel_requested"))
    BY <1>3 DEF Cancel, CancelledState, StateAfter, Event
  <2> QED BY <1>3, <2>1, <2>2, OneEventTrail DEF Cancel
<1>4. ASSUME NEW a \in Agents, AgentRequest(a)
      PROVE  TrailInv'
  <2>1. ASSUME NEW c, Register(a, c) \/ Heartbeat(a, c)
        PROVE  TrailInv'
    BY <2>1 DEF Register, Heartbeat, jobVars, TrailInv
  <2>2. ASSUME NEW j \in Jobs, Dispatch(a, j)
        PROVE  TrailInv'
    <3>1. Event("job.dispatched") \in Events
      BY EventsTyped DEF EventKinds
    <3>2. state'[j] = StateAfter(state[j], Event("job.dispatched"))
      BY <2>2 DEF Dispatch, StateAfter, Event
    <3> QED BY <2>2, <3>1, <3>2, OneEventTrail DEF Dispatch
  <2>3. ASSUME NEW j \in Jobs, NEW l, NEW n, Progress(a, j, l, n)
        PROVE  TrailInv'
    <3>1. Event("job.output") \in Events
      BY EventsTyped DEF EventKinds
    <3>2. state'[j] = StateAfter(state[j], Event("job.output"))
      BY <2>3 DEF Progress, StateAfter, Event
    <3> QED BY <2>3, <3>1, <3>2, OneEventTrail DEF Progress
  <2>4. ASSUME NEW j \in Jobs, NEW b \in ResultBody, Result(a, j, b)
        PROVE  TrailInv'
    <3> DEFINE e == Event("task.validation_passed")
               f == Completed(Outcome(j, b))
    <3>1. Outcome(j, b) \in Terminal
      BY DEF Outcome, ResultBody, Terminal
    <3>2. e \in Events /\ f \in Events
      BY <3>1, EventsTyped DEF EventKinds
    <3>3. \A x : StateAfter(x, e) = x /\ StateAfter(x, f) = Outcome(j, b)
      BY DEF StateAfter, Event, Completed
    <3>4. /\ log'[j] = log[j] \o <<e, f>> /\ state'[j] = Outcome(j, b)
          /\ \A i \in Jobs \ {j} : log'[i] = log[i] /\ state'[i] = state[i]
      BY <2>4 DEF Result, ClosingEvents
    <3>5. log[j] \in Seq(Events) /\ Tells(log[j], state[j])
      BY DEF TrailInv
    <3> HIDE DEF e, f
    <3>6. Append(log[j], e) \in Seq(Events) /\ Append(Append(log[j], e), f) = log[j] \o <<e, f>>
      BY <3>2, <3>5, TwoEvents
    <3>7. Tells(Append(log[j], e), state[j])
      BY <3>2, <3>3, <3>5, TellsMore
    <3>8. Tells(log[j] \o <<e, f>>, Outcome(j, b))
      BY <3>2, <3>3, <3>6, <3>7, TellsMore
    <3> QED BY <3>4, <3>8 DEF TrailInv
  <2>5. IssuedBodies \subseteq ResultBody
    BY DEF IssuedBodies, ResultBody, Leases
  <2> QED BY <1>4, <2>1, <2>2, <2>3, <2>4, <2>5 DEF AgentRequest
<1>5. CASE UNCHANGED controlVars
  BY <1>5 DEF controlVars, jobVars, TrailInv
<1> QED BY <1>1, <1>2, <1>3, <1>4, <1>5 DEF ControlNext, OperatorStep

\* The audit trail of a job is replayed to the state of its row: every handler
\* writes its events in the transaction of its update (all handlers).
THEOREM TrailReplays == ControlSpec => []AuditTrailReplays
<1>1. ControlInv /\ TrailInv => AuditTrailReplays
  BY ReplayTold DEF ControlInv, ControlTypeOK, TrailInv, AuditTrailReplays
<1>2. ControlInv /\ TrailInv /\ [ControlNext]_controlVars => TrailInv'
  BY StepTrail
<1> QED BY <1>1, <1>2, InitTrail, ControlInvariant, PTL DEF ControlSpec
=============================================================================
