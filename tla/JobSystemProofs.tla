--------------------------- MODULE JobSystemProofs ---------------------------
(***************************************************************************)
(* Proofs about control plane and agents together, for any number of jobs, *)
(* agents and faults.  In this order: launches, for any number of          *)
(* processes, also several on one data directory; that a success is one,   *)
(* as well; and, if no two processes share a data directory, what becomes  *)
(* of results, and that the contract of JobContract is implemented.        *)
(***************************************************************************)
EXTENDS JobSystem, ControlJobsProofs

-----------------------------------------------------------------------------
(* The inductive invariant.  What a process holds is a job of its own      *)
(* agent under the lease in force; a journal row is there before the       *)
(* launch it is for, and whoever inserted it is alone between row and      *)
(* launch.                                                                 *)

Executing == {"lookup", "fresh", "started", "prepared", "record", "report"} \cup Watching
Launching == {"started", "prepared"}

Mine(p, v) ==
  /\ Exists(v.job)
  /\ TargetOf(v.job) = Me(p)
  /\ lease[v.job] = v.lease

HeldRow(p) ==
  /\ pc[p] \in Executing => held[p] \in JobView
  /\ held[p] \in JobView => Mine(p, held[p])
  /\ pc[p] = "record" => verdict[p] \in Verdict
CallRow(p) ==
  /\ reply[p] \in JobView => Mine(p, reply[p])
  /\ call[p] # None /\ call[p].op = "poll" =>
       pc[p] = "poll" /\ held[p] \in JobView /\ call[p].job = JobOf(p)
LaunchingRow(p) ==
  pc[p] \in Launching => JobOf(p) \in journal[Me(p)] /\ launches[JobOf(p)] = 0

ProcessRows ==
  \A p \in Processes : HeldRow(p) /\ CallRow(p) /\ LaunchingRow(p)

LaunchedRows ==
  \A j \in Jobs :
    launches[j] # 0 =>
      launches[j] = 1 /\ lease[j] # None /\ Exists(j) /\ j \in journal[TargetOf(j)]

LaunchesAlone ==
  \A p, q \in Processes :
    pc[p] \in Launching /\ pc[q] \in Launching /\ JobOf(p) = JobOf(q) => p = q

SystemInv ==
  /\ ControlInv
  /\ AgentTypeOK
  /\ ProcessRows
  /\ LaunchedRows
  /\ LaunchesAlone

LEMMA NoJobIsNoView == NoJob \notin JobView /\ NoJob.job = None
BY NoneAssumption DEF NoJob, JobView

LEMMA SystemInit == Init => SystemInv
<1>1. Init => AgentTypeOK
  BY FaultsAssumption DEF Init, AgentInit, AgentTypeOK, Locations, LateRequest
<1>2. Init => ProcessRows
  BY NoJobIsNoView, NullAssumption DEF Init, AgentInit, ProcessRows, HeldRow, CallRow, LaunchingRow,
     Executing, Launching, Watching, JobView
<1>3. Init => LaunchedRows /\ LaunchesAlone
  BY DEF Init, AgentInit, LaunchedRows, LaunchesAlone, Launching
<1>4. QED
  BY InitInv, <1>1, <1>2, <1>3 DEF Init, SystemInv

-----------------------------------------------------------------------------
(* The steps of a process.                                                 *)

\* While a process executes, what it holds is a job and a lease.
LEMMA Holding ==
  ASSUME SystemInv, NEW p \in Processes, pc[p] \in Executing
  PROVE  /\ JobOf(p) \in Jobs
         /\ held[p].lease \in Leases
         /\ Mine(p, held[p])
BY DEF SystemInv, ProcessRows, HeldRow, JobView, JobOf

LEMMA ResultTypedAtAgent ==
  ASSUME SystemInv, NEW p \in Processes, pc[p] \in Executing, NEW v \in Verdict
  PROVE  ResultOf(p, v) \in ResultBody
BY Holding DEF ResultOf, ResultBody, Verdict

LEMMA VerdictsTyped ==
  ASSUME NEW p \in Processes
  PROVE  /\ Interrupted \in Verdict
         /\ \A s \in Terminal :
              [state |-> s, exit |-> IF ChildAfter(p) = "done" THEN 0 ELSE 1,
               evidence |-> Transcript] \in Verdict
BY EvidenceAssumption DEF Interrupted, Verdict, Terminal

LEMMA ConcludeTyped ==
  ASSUME SystemInv, NEW p \in Processes, pc[p] \in Executing, NEW s \in Terminal,
         Conclude(p, s)
  PROVE  /\ pc' \in [Processes -> Locations]
         /\ child' \in [Jobs -> {"unborn", "alive", "done", "failed", "killed"}]
         /\ verdict' \in [Processes -> Verdict \cup {None}]
         /\ verdict'[p] \in Verdict
<1>1. JobOf(p) \in Jobs
  BY Holding
<1>2. QED
  BY <1>1, VerdictsTyped DEF Conclude, ChildAfter, Goto, SystemInv, AgentTypeOK, Locations

LEMMA RequestsTyped ==
  /\ [op |-> "heartbeat"] \in Request
  /\ [op |-> "claim"] \in Request
  /\ \A j \in Jobs : [op |-> "poll", job |-> j] \in Request
  /\ \A j \in Jobs, l \in Leases, n \in Sequences :
       [op |-> "progress", job |-> j, lease |-> l, sequence |-> n] \in Request
  /\ \A j \in Jobs, b \in ResultBody :
       [op |-> "result", job |-> j, body |-> b] \in Request
BY DEF Request

LEMMA ProcessTyped ==
  ASSUME SystemInv, NEW p \in Processes, ProcessStep(p), UNCHANGED <<controlVars, late, faults>>
  PROVE  AgentTypeOK'
<1>. USE DEF SystemInv, AgentTypeOK, Goto, Send, HangUp, Forget, Answered, hostVars
<1>. Me(p) \in Agents
  BY IdentityAssumption DEF Me
<1>0. /\ pc[p] \in {"lookup", "fresh", "started", "prepared", "record", "report", "run",
                    "progress", "poll", "reap"} => pc[p] \in Executing
      /\ {"tick", "beat", "claim", "lookup", "fresh", "started", "prepared", "record",
          "report", "run", "progress", "poll", "reap"} \subseteq Locations
  BY DEF Executing, Watching, Locations, Waiting
<1>1. CASE Tick(p)
  BY <1>0, <1>1, RequestsTyped DEF Tick
<1>2. CASE Beaten(p)
  BY <1>0, <1>2, RequestsTyped DEF Beaten
<1>3. CASE Claimed(p)
  BY <1>0, <1>3 DEF Claimed
<1>4. CASE Reported(p)
  BY <1>0, <1>4 DEF Reported
<1>5. CASE ConsultJournal(p)
  <2>1. JobOf(p) \in Jobs
    BY <1>0, <1>5, Holding DEF ConsultJournal
  <2>2. Lookup(p) = "report" => Recorded(p) \in ResultBody
    BY <2>1 DEF Lookup, Recorded
  <2>3. call' \in [Processes -> Request \cup {None}]
    BY <1>5, <2>1, <2>2, RequestsTyped DEF ConsultJournal, SendResult
  <2>4. verdict' \in [Processes -> Verdict \cup {None}]
    BY <1>5, VerdictsTyped DEF ConsultJournal
  <2>5. pc' \in [Processes -> Locations]
    BY <1>0, <1>5 DEF ConsultJournal, Lookup
  <2>6. QED
    BY <1>5, <2>3, <2>4, <2>5 DEF ConsultJournal
<1>6. CASE InsertJournal(p)
  BY <1>0, <1>6, Holding DEF InsertJournal
<1>7. CASE MakeWorkspace(p)
  BY <1>0, <1>7, Holding DEF MakeWorkspace
<1>8. CASE Launch(p)
  BY <1>0, <1>8, Holding DEF Launch
<1>9. CASE Stream(p)
  BY <1>0, <1>9, Holding, RequestsTyped DEF Stream
<1>10. CASE Streamed(p)
  BY <1>0, <1>10 DEF Streamed
<1>11. CASE Overrun(p)
  BY <1>0, <1>11, ConcludeTyped DEF Overrun, Terminal
<1>12. CASE Poll(p)
  BY <1>0, <1>12, Holding, RequestsTyped DEF Poll
<1>13. CASE SkipPoll(p)
  BY <1>0, <1>13 DEF SkipPoll
<1>14. CASE Polled(p)
  <2>1. CASE reply[p].cancel
    BY <1>0, <1>14, <2>1, ConcludeTyped DEF Polled, Terminal
  <2>2. CASE ~reply[p].cancel
    BY <1>0, <1>14, <2>2 DEF Polled
  <2>3. QED
    BY <2>1, <2>2
<1>15. CASE Reap(p)
  <2>1. CASE child[JobOf(p)] = "alive"
    BY <1>0, <1>15, <2>1 DEF Reap
  <2>2. CASE child[JobOf(p)] # "alive"
    BY <1>0, <1>15, <2>2, ConcludeTyped DEF Reap, ExitState, Terminal
  <2>3. QED
    BY <2>1, <2>2
<1>16. CASE Record(p)
  <2>1. JobOf(p) \in Jobs /\ ResultOf(p, verdict[p]) \in ResultBody
    BY <1>0, <1>16, Holding, ResultTypedAtAgent DEF Record, ProcessRows, HeldRow
  <2>2. [op |-> "result", job |-> JobOf(p), body |-> ResultOf(p, verdict[p])] \in Request
    BY <2>1, RequestsTyped
  <2>3. recorded' \in [Agents -> [Jobs -> ResultBody \cup {None}]]
    BY <1>16, <2>1 DEF Record
  <2>4. QED
    BY <1>0, <1>16, <2>2, <2>3 DEF Record, SendResult
<1>17. QED
  BY <1>1, <1>2, <1>3, <1>4, <1>5, <1>6, <1>7, <1>8, <1>9, <1>10, <1>11, <1>12,
     <1>13, <1>14, <1>15, <1>16 DEF ProcessStep

\* A process writes only its own variables.
LEMMA OthersStand ==
  ASSUME SystemInv, NEW p \in Processes, NEW q \in Processes, q # p, ProcessStep(p)
  PROVE  /\ pc'[q] = pc[q] /\ held'[q] = held[q] /\ verdict'[q] = verdict[q]
         /\ call'[q] = call[q] /\ reply'[q] = reply[q]
BY DEF SystemInv, AgentTypeOK, ProcessStep, Goto, Send, HangUp, Forget, Conclude,
   SendResult, Tick, Beaten, Claimed, Reported, ConsultJournal, InsertJournal,
   MakeWorkspace, Launch, Stream, Streamed, Overrun, Poll, SkipPoll, Polled, Reap, Record

\* Rows are never taken out of a journal; only InsertJournal adds one, and only
\* Launch launches.
LEMMA HostSteps ==
  ASSUME SystemInv, NEW p \in Processes, ProcessStep(p)
  PROVE  /\ InsertJournal(p) \/ journal' = journal
         /\ \A a \in Agents : journal[a] \subseteq journal'[a]
         /\ Launch(p) \/ launches' = launches
<1>1. InsertJournal(p) \/ journal' = journal
  BY DEF ProcessStep, hostVars, Conclude,
     Tick, Beaten, Claimed, Reported, ConsultJournal,
     MakeWorkspace, Launch, Stream, Streamed, Overrun, Poll, SkipPoll, Polled, Reap, Record
<1>2. Launch(p) \/ launches' = launches
  BY DEF ProcessStep, hostVars, Conclude,
     Tick, Beaten, Claimed, Reported, ConsultJournal, InsertJournal,
     MakeWorkspace, Stream, Streamed, Overrun, Poll, SkipPoll, Polled, Reap, Record
<1>3. \A a \in Agents : journal[a] \subseteq journal'[a]
  BY <1>1 DEF InsertJournal, SystemInv, AgentTypeOK
<1>4. QED
  BY <1>1, <1>2, <1>3

\* What a process holds stays its own while the job table does not change.
LEMMA MineStays ==
  ASSUME UNCHANGED controlVars, NEW p \in Processes, NEW v, Mine(p, v)
  PROVE  Mine(p, v)'
BY DEF Mine, Exists, TargetOf, Me, controlVars, jobVars

LEMMA OwnRow ==
  ASSUME SystemInv, NEW p \in Processes, ProcessStep(p), UNCHANGED <<controlVars, late, faults>>
  PROVE  HeldRow(p)' /\ CallRow(p)'
<1>. USE NullAssumption, NoJobIsNoView DEF SystemInv, AgentTypeOK, ProcessRows, HeldRow, CallRow,
         Goto, Send, HangUp, Forget, Answered, Executing, Watching, Mine, Exists, TargetOf,
         controlVars, jobVars, JobOf
<1>1. CASE Tick(p)
  BY <1>1 DEF Tick
<1>2. CASE Beaten(p)
  BY <1>2 DEF Beaten
<1>3. CASE Claimed(p)
  BY <1>3 DEF Claimed
<1>4. CASE Reported(p)
  BY <1>4 DEF Reported
<1>5. CASE ConsultJournal(p)
  BY <1>5, VerdictsTyped DEF ConsultJournal, Lookup, SendResult
<1>6. CASE InsertJournal(p)
  BY <1>6 DEF InsertJournal
<1>7. CASE MakeWorkspace(p)
  BY <1>7 DEF MakeWorkspace
<1>8. CASE Launch(p)
  BY <1>8 DEF Launch
<1>9. CASE Stream(p)
  BY <1>9 DEF Stream
<1>10. CASE Streamed(p)
  BY <1>10 DEF Streamed
<1>11. CASE Overrun(p)
  BY <1>11, ConcludeTyped DEF Overrun, Conclude, Terminal
<1>12. CASE Poll(p)
  BY <1>12 DEF Poll
<1>13. CASE SkipPoll(p)
  BY <1>13 DEF SkipPoll
<1>14. CASE Polled(p)
  BY <1>14, ConcludeTyped DEF Polled, Conclude, Terminal
<1>15. CASE Reap(p)
  BY <1>15, ConcludeTyped DEF Reap, ExitState, Conclude, Terminal
<1>16. CASE Record(p)
  BY <1>16 DEF Record, SendResult
<1>17. QED
  BY <1>1, <1>2, <1>3, <1>4, <1>5, <1>6, <1>7, <1>8, <1>9, <1>10, <1>11, <1>12,
     <1>13, <1>14, <1>15, <1>16 DEF ProcessStep

\* Two processes that hold one job run under one identity.
LEMMA SameJobSameAgent ==
  ASSUME SystemInv, NEW p \in Processes, NEW q \in Processes,
         pc[p] \in Executing, pc[q] \in Executing, JobOf(p) = JobOf(q)
  PROVE  Me(p) = Me(q)
BY Holding DEF Mine, JobOf

LEMMA OwnLaunchingRow ==
  ASSUME SystemInv, NEW p \in Processes, ProcessStep(p), UNCHANGED <<controlVars, late, faults>>
  PROVE  LaunchingRow(p)'
<1>1. SUFFICES ASSUME pc'[p] \in Launching
               PROVE  /\ JobOf(p)' \in journal'[Me(p)]
                      /\ launches'[JobOf(p)'] = 0
  BY DEF LaunchingRow, Me
<1>2. InsertJournal(p) \/ MakeWorkspace(p)
  BY <1>1 DEF SystemInv, AgentTypeOK, ProcessStep, Launching, Goto, Conclude,
     Tick, Beaten, Claimed, Reported, ConsultJournal, Lookup,
     Launch, Stream, Streamed, Overrun, Poll, SkipPoll, Polled, Reap, Record
<1>3. /\ pc[p] \in Executing /\ JobOf(p) \in Jobs /\ Mine(p, held[p])
      /\ JobOf(p)' = JobOf(p) /\ launches' = launches
  BY <1>2, Holding DEF InsertJournal, MakeWorkspace, Executing, JobOf
<1>4. CASE InsertJournal(p)
  \* There was no row, so the job was never launched.
  <2>1. JobOf(p) \in journal'[Me(p)] /\ JobOf(p) \notin journal[Me(p)]
    BY <1>3, <1>4, IdentityAssumption
    DEF InsertJournal, Insertable, SystemInv, AgentTypeOK, Me
  <2>2. launches[JobOf(p)] = 0
    BY <1>3, <2>1 DEF SystemInv, LaunchedRows, Mine, JobOf
  <2>3. QED
    BY <1>3, <2>1, <2>2
<1>5. CASE MakeWorkspace(p)
  BY <1>3, <1>5 DEF MakeWorkspace, SystemInv, ProcessRows, LaunchingRow, Launching
<1>6. QED
  BY <1>2, <1>4, <1>5

LEMMA ProcessAlone ==
  ASSUME SystemInv, NEW p \in Processes, ProcessStep(p), UNCHANGED <<controlVars, late, faults>>
  PROVE  LaunchesAlone'
<1>1. SUFFICES ASSUME NEW q \in Processes, q # p, pc'[p] \in Launching, pc[q] \in Launching,
                      JobOf(p)' = JobOf(q)
               PROVE  FALSE
  BY OthersStand DEF LaunchesAlone, JobOf, SystemInv
<1>2. InsertJournal(p) \/ MakeWorkspace(p)
  BY <1>1 DEF SystemInv, AgentTypeOK, ProcessStep, Launching, Goto, Conclude,
     Tick, Beaten, Claimed, Reported, ConsultJournal, Lookup,
     Launch, Stream, Streamed, Overrun, Poll, SkipPoll, Polled, Reap, Record
<1>3. /\ pc[p] \in Executing /\ pc[q] \in Executing /\ JobOf(p) = JobOf(q)
  BY <1>1, <1>2 DEF InsertJournal, MakeWorkspace, Executing, Launching, JobOf
<1>4. CASE InsertJournal(p)
  \* The row of the other one is in the same journal already.
  BY <1>1, <1>3, <1>4, SameJobSameAgent
  DEF InsertJournal, Insertable, SystemInv, ProcessRows, LaunchingRow
<1>5. CASE MakeWorkspace(p)
  BY <1>1, <1>3, <1>5 DEF MakeWorkspace, Launching, SystemInv, LaunchesAlone
<1>6. QED
  BY <1>2, <1>4, <1>5

LEMMA ProcessLaunched ==
  ASSUME SystemInv, NEW p \in Processes, ProcessStep(p), UNCHANGED <<controlVars, late, faults>>
  PROVE  LaunchedRows'
<1>1. ASSUME NEW j \in Jobs
      PROVE  /\ lease'[j] = lease[j] /\ Exists(j)' = Exists(j)
             /\ TargetOf(j)' = TargetOf(j)
  BY DEF controlVars, jobVars, Exists, TargetOf
<1>2. ASSUME NEW j \in Jobs, Exists(j)
      PROVE  TargetOf(j) \in Agents
  BY <1>2 DEF SystemInv, ControlInv, ControlTypeOK, TargetOf, Goal
<1>3. CASE launches' = launches
  BY <1>1, <1>2, <1>3, HostSteps DEF LaunchedRows, SystemInv
<1>4. CASE Launch(p)
  <2>1. /\ pc[p] \in Executing
        /\ JobOf(p) \in journal[Me(p)] /\ launches[JobOf(p)] = 0
    BY <1>4 DEF Launch, Executing, Launching, SystemInv, ProcessRows, LaunchingRow
  <2>2. /\ JobOf(p) \in Jobs
        /\ Exists(JobOf(p)) /\ TargetOf(JobOf(p)) = Me(p) /\ lease[JobOf(p)] # None
    BY <2>1, Holding, NoneAssumption DEF Mine, JobOf, Leases
  <2>3. /\ launches' = [launches EXCEPT ![JobOf(p)] = 1]
        /\ journal' = journal
    BY <1>4, <2>1, <2>2 DEF Launch, SystemInv, AgentTypeOK
  <2>4. QED
    BY <1>1, <2>1, <2>2, <2>3 DEF LaunchedRows, SystemInv, AgentTypeOK
<1>5. QED
  BY <1>3, <1>4, HostSteps

LEMMA ProcessInv ==
  ASSUME SystemInv, NEW p \in Processes, ProcessStep(p), UNCHANGED <<controlVars, late, faults>>
  PROVE  SystemInv'
<1>1. ControlInv'
  BY StutterInv, NextTyped DEF SystemInv, ControlInv, controlVars
<1>2. ASSUME NEW q \in Processes, q # p
      PROVE  HeldRow(q)' /\ CallRow(q)' /\ LaunchingRow(q)'
  <2>1. /\ pc'[q] = pc[q] /\ held'[q] = held[q] /\ verdict'[q] = verdict[q]
        /\ call'[q] = call[q] /\ reply'[q] = reply[q]
    BY <1>2, OthersStand
  <2>2. HeldRow(q)' /\ CallRow(q)'
    BY <2>1, MineStays DEF SystemInv, ProcessRows, HeldRow, CallRow, JobOf, Mine, Exists,
       TargetOf, Me, controlVars, jobVars
  <2>3. ASSUME pc[q] \in Launching
        PROVE  JobOf(q) \in journal'[Me(q)] /\ launches'[JobOf(q)] = 0
    <3>1. /\ Me(q) \in Agents /\ JobOf(q) \in journal[Me(q)] /\ launches[JobOf(q)] = 0
      BY <2>3, IdentityAssumption DEF SystemInv, ProcessRows, LaunchingRow, Me
    <3>2. Launch(p) => JobOf(p) # JobOf(q)
      BY <1>2, <2>3 DEF Launch, Launching, SystemInv, LaunchesAlone
    <3>3. launches'[JobOf(q)] = 0
      BY <3>1, <3>2, HostSteps DEF Launch, SystemInv, AgentTypeOK
    <3>4. QED
      BY <3>1, <3>3, HostSteps
  <2>4. QED
    BY <2>1, <2>2, <2>3 DEF LaunchingRow, JobOf, Me
<1>3. ProcessRows'
  BY <1>2, OwnRow, OwnLaunchingRow DEF ProcessRows
<1>4. QED
  BY <1>1, <1>3, ProcessTyped, ProcessAlone, ProcessLaunched DEF SystemInv

-----------------------------------------------------------------------------
(* The steps of the control plane.                                         *)

\* No handler changes whose a job is, or takes a lease back.
Keeps(j) ==
  /\ Exists(j) => Exists(j)' /\ goal'[j] = goal[j]
  /\ lease[j] # None => lease'[j] = lease[j]

LEMMA OperatorKeeps ==
  ASSUME ControlInv, OperatorStep
  PROVE  ControlInv' /\ \A j \in Jobs : Keeps(j)
<1>1. ControlInv'
  BY NextInv DEF ControlNext
<1>2. ASSUME NEW j \in Jobs, NEW i \in Jobs,
             \/ \E g \in Goal : Submit(i, g)
             \/ \E plan \in Plan, approve \in BOOLEAN : Approval(i, plan, approve)
             \/ Cancel(i)
      PROVE  Keeps(j)
  <2>1. ASSUME NEW g \in Goal, Submit(i, g)
        PROVE  Keeps(j)
    BY <2>1 DEF Submit, FirstState, Keeps, Exists, ControlInv, ControlTypeOK
  <2>2. ASSUME NEW plan \in Plan, NEW approve \in BOOLEAN, Approval(i, plan, approve)
        PROVE  Keeps(j)
    BY <2>2 DEF Approval, Keeps, Exists, ControlInv, ControlTypeOK
  <2>3. CASE Cancel(i)
    BY <2>3 DEF Cancel, CancelledState, Keeps, Exists, ControlInv, ControlTypeOK
  <2>4. QED
    BY <1>2, <2>1, <2>2, <2>3
<1>3. QED
  BY <1>1, <1>2 DEF OperatorStep

LEMMA HandleKeeps ==
  ASSUME ControlInv, NEW a \in Agents, NEW r \in Request, Handle(a, r)
  PROVE  ControlInv' /\ \A j \in Jobs : Keeps(j)
<1>1. CASE UNCHANGED controlVars
  <2>1. ControlInv'
    BY <1>1, NextInv
  <2>2. QED
    BY <1>1, <2>1 DEF Keeps, Exists, controlVars, jobVars
<1>2. CASE Heartbeat(a, "capable")
  <2>1. ControlInv'
    BY <1>2, NextInv DEF ControlNext, AgentRequest
  <2>2. QED
    BY <1>2, <2>1 DEF Heartbeat, Keeps, Exists, jobVars
<1>3. ASSUME NEW j \in Jobs, Dispatch(a, j)
      PROVE  ControlInv' /\ \A i \in Jobs : Keeps(i)
  <2>1. lease[j] = None
    BY <1>3 DEF Dispatch, Oldest, QueuedOf, ControlInv, Row, LeaseRow, Unassigned
  <2>2. QED
    BY <1>3, <2>1, DispatchInv DEF Dispatch, Keeps, Exists, ControlInv, ControlTypeOK
<1>4. CASE r.op = "progress" /\ Progress(a, r.job, r.lease, r.sequence)
  <2>1. r.job \in Jobs /\ r.lease \in Leases /\ r.sequence \in Sequences
    BY <1>4 DEF Request
  <2>2. QED
    BY <1>4, <2>1, ProgressInv DEF Progress, Keeps, Exists, ControlInv, ControlTypeOK
<1>5. CASE r.op = "result" /\ Result(a, r.job, r.body)
  <2>1. r.job \in Jobs /\ r.body \in ResultBody
    BY <1>5 DEF Request
  <2>2. Outcome(r.job, r.body) # "ABSENT"
    BY <2>1 DEF Outcome, ResultBody, Terminal
  <2>3. QED
    BY <1>5, <2>1, <2>2, ResultInv DEF Result, Keeps, Exists, ControlInv, ControlTypeOK
<1>6. QED
  BY <1>1, <1>2, <1>3, <1>4, <1>5 DEF Handle

LEMMA MineKept ==
  ASSUME NEW p \in Processes, NEW v \in JobView, Mine(p, v), \A j \in Jobs : Keeps(j)
  PROVE  Mine(p, v)'
BY NoneAssumption DEF Mine, Keeps, JobView, TargetOf, Me, Leases

\* A step of the control plane leaves the agents' part of the invariant alone, if
\* what it answers is the asker's own.
LEMMA ControlFrame ==
  ASSUME SystemInv, ControlInv', \A j \in Jobs : Keeps(j), AgentTypeOK',
         UNCHANGED <<pc, held, verdict, call, hostVars>>,
         \A p \in Processes : reply'[p] \in JobView => Mine(p, reply[p])'
  PROVE  SystemInv'
<1>1. ASSUME NEW p \in Processes
      PROVE  HeldRow(p)' /\ CallRow(p)' /\ LaunchingRow(p)'
  <2>1. held[p] \in JobView => Mine(p, held[p])'
    BY MineKept DEF SystemInv, ProcessRows, HeldRow
  <2>2. HeldRow(p)'
    BY <2>1 DEF SystemInv, ProcessRows, HeldRow
  <2>3. CallRow(p)'
    BY DEF SystemInv, ProcessRows, CallRow, JobOf
  <2>4. LaunchingRow(p)'
    BY DEF SystemInv, ProcessRows, LaunchingRow, JobOf, Me, hostVars
  <2>5. QED
    BY <2>2, <2>3, <2>4
<1>2. LaunchedRows'
  BY DEF SystemInv, LaunchedRows, Keeps, TargetOf, hostVars
<1>3. LaunchesAlone'
  BY DEF SystemInv, LaunchesAlone, JobOf
<1>4. QED
  BY <1>1, <1>2, <1>3 DEF SystemInv, ProcessRows

LEMMA OperateInv ==
  ASSUME SystemInv, Operate
  PROVE  SystemInv'
<1>1. ControlInv' /\ \A j \in Jobs : Keeps(j)
  BY OperatorKeeps DEF Operate, SystemInv
<1>2. AgentTypeOK' /\ UNCHANGED <<pc, held, verdict, call, hostVars, reply>>
  BY DEF Operate, SystemInv, AgentTypeOK, agentVars, processVars, hostVars
<1>3. \A p \in Processes : reply'[p] \in JobView => Mine(p, reply[p])'
  BY <1>1, <1>2, MineKept DEF SystemInv, ProcessRows, CallRow
<1>4. QED
  BY <1>1, <1>2, <1>3, ControlFrame

LEMMA ServeLateInv ==
  ASSUME SystemInv, ServeLate
  PROVE  SystemInv'
<1>1. PICK m \in late : /\ Handle(m.agent, m.request)
                        /\ late' = late \ {m}
                        /\ UNCHANGED <<agentVars, faults>>
  BY DEF ServeLate
<1>2. m.agent \in Agents /\ m.request \in Request
  BY DEF SystemInv, AgentTypeOK, LateRequest
<1>3. ControlInv' /\ \A j \in Jobs : Keeps(j)
  BY <1>1, <1>2, HandleKeeps DEF SystemInv
<1>4. AgentTypeOK' /\ UNCHANGED <<pc, held, verdict, call, hostVars, reply>>
  BY <1>1 DEF SystemInv, AgentTypeOK, agentVars, processVars, hostVars
<1>5. \A p \in Processes : reply'[p] \in JobView => Mine(p, reply[p])'
  BY <1>3, <1>4, MineKept DEF SystemInv, ProcessRows, CallRow
<1>6. QED
  BY <1>3, <1>4, <1>5, ControlFrame

\* What the control plane answers to an agent is a job of that agent under the
\* lease in force, or no job.
LEMMA AnswerIsMine ==
  ASSUME SystemInv, NEW p \in Processes, call[p] # None, ControlInv',
         \A j \in Jobs : Keeps(j), call' = call, held' = held
  PROVE  \/ Answer(Me(p), call[p])' = NoJob
         \/ Answer(Me(p), call[p])' \in JobView /\ Mine(p, Answer(Me(p), call[p]))'
<1>1. ASSUME NEW j \in Jobs, Exists(j)', TargetOf(j)' = Me(p), lease'[j] # None
      PROVE  View(j)' \in JobView /\ Mine(p, View(j))'
  <2>1. lease'[j] \in Leases /\ cancelRequested'[j] \in BOOLEAN
    BY <1>1 DEF ControlInv, ControlTypeOK
  <2>2. QED
    BY <1>1, <2>1 DEF View, JobView, Mine, Me
<1>2. CASE call[p].op = "claim" /\ ClaimedJobs(Me(p))' # {}
  <2>1. ClaimedJobs(Me(p))' \subseteq Jobs
    BY DEF ClaimedJobs, Oldest, ActiveOf
  <2>2. \E j \in Jobs : j \in ClaimedJobs(Me(p))' /\ Answer(Me(p), call[p])' = View(j)'
    BY <1>2, <2>1 DEF Answer, Me, View
  <2>3. PICK j \in Jobs : j \in ClaimedJobs(Me(p))' /\ Answer(Me(p), call[p])' = View(j)'
    BY <2>2
  <2>4. state'[j] \in Active /\ TargetOf(j)' = Me(p)
    BY <2>3 DEF ClaimedJobs, Oldest, ActiveOf, Me
  <2>5. Exists(j)' /\ lease'[j] # None
    BY <2>4 DEF ControlInv, Row, LeaseRow, Exists, Active
  <2>6. QED
    BY <1>1, <2>3, <2>4, <2>5
<1>3. CASE call[p].op = "poll"
  <2>1. /\ held[p] \in JobView /\ call[p].job = JobOf(p)
        /\ JobOf(p) \in Jobs /\ Mine(p, held[p])'
    BY <1>3, MineKept DEF SystemInv, ProcessRows, HeldRow, CallRow, JobView, JobOf
  <2>2. held[p].lease # None
    BY <2>1, NoneAssumption DEF JobView, Leases
  <2>3. PICK j \in Jobs : j = JobOf(p)
    BY <2>1
  <2>4. Exists(j)' /\ TargetOf(j)' = Me(p) /\ lease'[j] # None
    BY <2>1, <2>2, <2>3 DEF Mine, Me, JobOf, Exists, TargetOf
  <2>5. Answer(Me(p), call[p])' = View(j)'
    BY <1>3, <2>1, <2>3 DEF Answer, View
  <2>6. QED
    BY <1>1, <2>4, <2>5
<1>4. QED
  BY <1>2, <1>3 DEF Answer, NoJob, Me

LEMMA ServeInv ==
  ASSUME SystemInv, NEW p \in Processes, Serve(p)
  PROVE  SystemInv'
<1>1. Me(p) \in Agents /\ call[p] \in Request
  BY IdentityAssumption DEF Me, Serve, SystemInv, AgentTypeOK
<1>2. ControlInv' /\ \A j \in Jobs : Keeps(j)
  BY <1>1, HandleKeeps DEF Serve, SystemInv
<1>3. \/ reply'[p] = NoJob
      \/ reply'[p] \in JobView /\ Mine(p, reply[p])'
  BY <1>2, AnswerIsMine DEF Serve, SystemInv, AgentTypeOK
<1>4. AgentTypeOK' /\ UNCHANGED <<pc, held, verdict, call, hostVars>>
  BY <1>3 DEF Serve, SystemInv, AgentTypeOK, hostVars
<1>5. ASSUME NEW q \in Processes, reply'[q] \in JobView
      PROVE  Mine(q, reply[q])'
  <2>1. CASE q = p
    BY <1>3, <1>5, <2>1, NoJobIsNoView
  <2>2. CASE q # p
    <3>1. reply'[q] = reply[q]
      BY <2>2 DEF Serve, SystemInv, AgentTypeOK
    <3>2. QED
      BY <1>2, <1>5, <3>1, MineKept DEF SystemInv, ProcessRows, CallRow
  <2>3. QED
    BY <2>1, <2>2
<1>6. QED
  BY <1>2, <1>4, <1>5, ControlFrame

-----------------------------------------------------------------------------
(* Faults, restarts, and recipes that end by themselves.                   *)

\* None of them touches the job table, a journal or a launch, and of the
\* processes at most one.
LEMMA QuietInv ==
  ASSUME SystemInv, NEW p \in Processes, AgentTypeOK',
         UNCHANGED <<controlVars, journal, launches>>,
         \A q \in Processes : q # p =>
           /\ pc'[q] = pc[q] /\ held'[q] = held[q] /\ verdict'[q] = verdict[q]
           /\ call'[q] = call[q] /\ reply'[q] = reply[q],
         HeldRow(p)' /\ CallRow(p)',
         pc'[p] \in Launching => pc[p] \in Launching /\ held'[p] = held[p]
  PROVE  SystemInv'
<1>1. ControlInv'
  BY StutterInv, NextTyped DEF SystemInv, ControlInv, controlVars
<1>2. ASSUME NEW q \in Processes, q # p
      PROVE  HeldRow(q)' /\ CallRow(q)'
  BY <1>2 DEF SystemInv, ProcessRows, HeldRow, CallRow, JobOf, Mine, Exists, TargetOf, Me,
     controlVars, jobVars
<1>3. ASSUME NEW q \in Processes, pc'[q] \in Launching
      PROVE  pc[q] \in Launching /\ held'[q] = held[q]
  BY <1>3
<1>4. \A q \in Processes : LaunchingRow(q)'
  BY <1>3 DEF SystemInv, ProcessRows, LaunchingRow, JobOf, Me
<1>5. LaunchesAlone'
  BY <1>3 DEF SystemInv, LaunchesAlone, JobOf
<1>6. LaunchedRows'
  BY DEF SystemInv, LaunchedRows, TargetOf, Exists, controlVars, jobVars
<1>7. ProcessRows'
  BY <1>2, <1>4 DEF ProcessRows
<1>8. QED
  BY <1>1, <1>5, <1>6, <1>7 DEF SystemInv

LEMMA FaultInv ==
  ASSUME SystemInv, NEW p \in Processes, Fault(p)
  PROVE  SystemInv'
<1>. USE DEF Goto, HangUp, Forget
<1>1. late' \in SUBSET LateRequest /\ faults' \in 0 .. MaxFaults
  <2>1. faults + 1 \in 1 .. MaxFaults /\ Me(p) \in Agents
    BY FaultsAssumption, IdentityAssumption DEF Fault, SystemInv, AgentTypeOK, Me
  <2>2. Abandoned(p) \subseteq LateRequest
    BY <2>1 DEF Abandoned, LateRequest, SystemInv, AgentTypeOK
  <2>3. QED
    BY <2>1, <2>2, FaultsAssumption DEF Fault, SystemInv, AgentTypeOK
<1>2. ASSUME GiveUp(p)
      PROVE  /\ AgentTypeOK' /\ HeldRow(p)' /\ CallRow(p)' /\ UNCHANGED hostVars
             /\ pc'[p] \notin Launching
  <2>1. AgentTypeOK' /\ UNCHANGED hostVars
    <3>1. /\ pc' \in [Processes -> Locations]
          /\ held' \in [Processes -> JobView \cup {NoJob}]
          /\ verdict' \in [Processes -> Verdict \cup {None}]
          /\ sequence' \in [Processes -> Nat]
      <4>1. CASE pc[p] = "progress"
        BY <1>2, <4>1 DEF GiveUp, SystemInv, AgentTypeOK, Locations, Watching
      <4>2. CASE pc[p] = "poll"
        BY <1>2, <4>2 DEF GiveUp, SystemInv, AgentTypeOK, Locations, Watching
      <4>3. CASE pc[p] \notin {"progress", "poll"}
        <5>1. /\ pc' = [pc EXCEPT ![p] = "tick"]
              /\ held' = [held EXCEPT ![p] = NoJob]
              /\ verdict' = [verdict EXCEPT ![p] = None]
              /\ sequence' = [sequence EXCEPT ![p] = 0]
          BY <1>2, <4>3 DEF GiveUp
        <5>2. QED
          BY <5>1 DEF SystemInv, AgentTypeOK, Locations
      <4>4. QED
        BY <4>1, <4>2, <4>3
    <3>2. /\ call' \in [Processes -> Request \cup {None}]
          /\ reply' \in [Processes -> JobView \cup {NoJob, None}]
          /\ UNCHANGED hostVars
      BY <1>2 DEF GiveUp, SystemInv, AgentTypeOK
    <3>3. QED
      BY <1>1, <3>1, <3>2 DEF SystemInv, AgentTypeOK, hostVars
  <2>2. pc'[p] \in {"run", "reap", "tick"} /\ (pc'[p] # "tick" => held'[p] = held[p])
    BY <1>2 DEF GiveUp, SystemInv, AgentTypeOK
  <2>3. (pc'[p] # "tick" => pc[p] \in Executing) /\ call'[p] = None /\ reply'[p] = None
    BY <1>2 DEF GiveUp, SystemInv, AgentTypeOK, Executing, Watching
  <2>4. held'[p] \in {held[p], NoJob}
    BY <1>2 DEF GiveUp, SystemInv, AgentTypeOK
  <2>5. QED
    BY <2>1, <2>2, <2>3, <2>4, NoJobIsNoView, NullAssumption
    DEF HeldRow, CallRow, Executing, Watching, Launching, SystemInv, ProcessRows, Mine, Exists,
        TargetOf, Fault, controlVars, jobVars
<1>3. ASSUME Crash(p) \/ Blocked(p)
      PROVE  /\ AgentTypeOK' /\ HeldRow(p)' /\ CallRow(p)' /\ UNCHANGED <<journal, launches>>
             /\ pc'[p] \notin Launching
  <2>1. AgentTypeOK' /\ UNCHANGED <<journal, launches>>
    <3>1. CASE Crash(p)
      BY <1>1, <3>1 DEF Crash, SystemInv, AgentTypeOK, Locations
    <3>2. CASE Blocked(p)
      BY <1>1, <3>2 DEF Blocked, SystemInv, AgentTypeOK, Locations, hostVars
    <3>3. QED
      BY <1>3, <3>1, <3>2
  <2>2. pc'[p] = "down" /\ held'[p] = NoJob
    BY <1>3 DEF Crash, Blocked, SystemInv, AgentTypeOK
  <2>3. CallRow(p)'
    <3>1. CASE Crash(p)
      BY <3>1, NullAssumption DEF Crash, CallRow, SystemInv, AgentTypeOK
    <3>2. CASE Blocked(p)
      <4>1. reply'[p] = reply[p] /\ call'[p] = call[p] /\ pc[p] = "fresh"
        BY <3>2 DEF Blocked
      <4>2. UNCHANGED controlVars
        BY DEF Fault
      <4>3. QED
        BY <4>1, <4>2, MineStays DEF CallRow, SystemInv, ProcessRows
    <3>3. QED
      BY <1>3, <3>1, <3>2
  <2>4. QED
    BY <2>1, <2>2, <2>3, NoJobIsNoView DEF HeldRow, Executing, Watching, Launching
<1>4. ASSUME NEW q \in Processes, q # p
      PROVE  /\ pc'[q] = pc[q] /\ held'[q] = held[q] /\ verdict'[q] = verdict[q]
             /\ call'[q] = call[q] /\ reply'[q] = reply[q]
  BY <1>4 DEF Fault, GiveUp, Crash, Blocked, SystemInv, AgentTypeOK
<1>5. QED
  BY <1>2, <1>3, <1>4, QuietInv DEF Fault, hostVars

LEMMA RestartInv ==
  ASSUME SystemInv, NEW p \in Processes, Restart(p)
  PROVE  SystemInv'
<1>1. AgentTypeOK' /\ pc'[p] = "tick"
  BY DEF Restart, Start, Goto, SystemInv, AgentTypeOK, Locations, hostVars
<1>2. HeldRow(p)' /\ CallRow(p)'
  BY <1>1 DEF Restart, Start, SystemInv, ProcessRows, HeldRow, CallRow, JobOf, Mine, Exists,
     TargetOf, Me, Executing, Watching, controlVars, jobVars
<1>3. QED
  BY <1>1, <1>2, QuietInv DEF Restart, Start, Goto, Launching, SystemInv, AgentTypeOK, hostVars

LEMMA ChildEndsInv ==
  ASSUME SystemInv, ChildEnds
  PROVE  SystemInv'
<1>1. PICK j \in Jobs : ChildExits(j) /\ UNCHANGED <<controlVars, late, faults>>
  BY DEF ChildEnds
<1>2. AgentTypeOK'
  BY <1>1 DEF ChildExits, SystemInv, AgentTypeOK, processVars
<1>3. ControlInv'
  BY <1>1, StutterInv, NextTyped DEF SystemInv, ControlInv, controlVars
<1>4. ProcessRows' /\ LaunchedRows' /\ LaunchesAlone'
  BY <1>1 DEF ChildExits, SystemInv, ProcessRows, LaunchedRows, LaunchesAlone, HeldRow, CallRow,
     LaunchingRow, JobOf, Mine, Exists, TargetOf, Me, controlVars, jobVars, processVars
<1>5. QED
  BY <1>2, <1>3, <1>4 DEF SystemInv

-----------------------------------------------------------------------------
(* The theorems about types and launches.                                  *)

LEMMA SystemNext == SystemInv /\ [Next]_vars => SystemInv'
<1>1. ASSUME SystemInv, UNCHANGED vars
      PROVE  SystemInv'
  <2>1. ControlInv'
    BY <1>1, StutterInv, NextTyped DEF SystemInv, ControlInv, vars, controlVars
  <2>2. AgentTypeOK'
    BY <1>1 DEF SystemInv, AgentTypeOK, vars, agentVars, processVars, hostVars
  <2>3. ProcessRows' /\ LaunchedRows' /\ LaunchesAlone'
    BY <1>1 DEF SystemInv, ProcessRows, LaunchedRows, LaunchesAlone, HeldRow, CallRow,
       LaunchingRow, JobOf, Mine, Exists, TargetOf, Me, vars, agentVars, processVars, hostVars,
       controlVars, jobVars
  <2>4. QED
    BY <2>1, <2>2, <2>3 DEF SystemInv
<1>2. ASSUME SystemInv, Next
      PROVE  SystemInv'
  BY <1>2, OperateInv, ServeLateInv, ChildEndsInv, ProcessInv, ServeInv, RestartInv, FaultInv
  DEF Next, RunProcess
<1>3. QED
  BY <1>1, <1>2

\* What holds of control plane and agents together in every reachable state.
THEOREM SystemInvariant == Spec => []SystemInv
BY SystemInit, SystemNext, PTL DEF Spec

\* Every message, journal row and job row has its type (agent.py, control.py).
THEOREM TypeCorrect == Spec => []TypeOK
<1>1. SystemInv => TypeOK
  BY DEF SystemInv, ControlInv, TypeOK
<1>2. QED
  BY <1>1, SystemInvariant, PTL

\* No job is launched twice, for any number of processes, also several on one data
\* directory, and any number of crashes, lost answers and late requests (execute).
THEOREM LaunchedOnce == Spec => []AtMostOneLaunch
<1>1. SystemInv => AtMostOneLaunch
  BY DEF SystemInv, AgentTypeOK, LaunchedRows, AtMostOneLaunch
<1>2. QED
  BY <1>1, SystemInvariant, PTL

\* What an agent launches was leased to it, approved if it is risky, and never
\* rejected (approval, claim, execute).
THEOREM LaunchLicensed == Spec => []LaunchIsLicensed
<1>1. SystemInv => LaunchIsLicensed
  BY DEF SystemInv, AgentTypeOK, LaunchedRows, LaunchIsLicensed, ControlInv, Row, GateRow
<1>2. QED
  BY <1>1, SystemInvariant, PTL

-----------------------------------------------------------------------------
(* Wherever a success is written, the recipe has ended well.               *)

Done(j) == launches[j] = 1 /\ child[j] = "done"
Real(j, v) == v.state = "SUCCEEDED" => Done(j)

IsResult(r) == r # None /\ r.op = "result"

RealVerdicts == \A p \in Processes : pc[p] = "record" => Real(JobOf(p), verdict[p])
RealRecords ==
  \A a \in Agents, j \in Jobs : recorded[a][j] # None => Real(j, recorded[a][j])
RealCalls ==
  \A p \in Processes : IsResult(call[p]) => Real(call[p].job, call[p].body)
RealLate ==
  \A m \in late : IsResult(m.request) => Real(m.request.job, m.request.body)
RealChildren == \A j \in Jobs : child[j] # "unborn" => launches[j] # 0

RealInv ==
  /\ RealVerdicts
  /\ RealRecords
  /\ RealCalls
  /\ RealLate
  /\ RealChildren
  /\ SuccessIsReal

-----------------------------------------------------------------------------
(* If each process has a data directory of its own, a journal row gets its *)
(* result once, and all reports carry it.                                  *)

OneProcess == \A p, q \in Processes : Me(p) = Me(q) => p = q

Unrecorded == {"fresh", "started", "prepared", "record"} \cup Watching

Reportable(a, j, b) ==
  Exists(j) /\ TargetOf(j) = a /\ lease[j] = b.lease /\ WellFormed(b)

\* The body of a report is the one in the journal.
Journaled(a, r) ==
  IsResult(r) => recorded[a][r.job] # None /\ r.body = recorded[a][r.job]

Unwritten == \A p \in Processes : pc[p] \in Unrecorded => Recorded(p) = None
Rowed ==
  \A p \in Processes : pc[p] \in Unrecorded \ {"fresh"} => JobOf(p) \in journal[Me(p)]
SoundVerdicts ==
  \A p \in Processes : pc[p] = "record" =>
    (verdict[p].state = "SUCCEEDED" => verdict[p].exit = 0)
SoundRecords ==
  \A a \in Agents, j \in Jobs : recorded[a][j] # None =>
    j \in journal[a] /\ Reportable(a, j, recorded[a][j])
JournaledCalls == \A p \in Processes : Journaled(Me(p), call[p])
JournaledLate == \A m \in late : Journaled(m.agent, m.request)
JournaledResults ==
  \A j \in Jobs : result[j] # None =>
    /\ recorded[TargetOf(j)][j] # None
    /\ result[j] = Sanitized(j, recorded[TargetOf(j)][j])
AllCapable == \A a \in Agents : capable[a] = "capable"

JournalInv ==
  /\ Unwritten
  /\ Rowed
  /\ SoundVerdicts
  /\ SoundRecords
  /\ JournaledCalls
  /\ JournaledLate
  /\ JournaledResults
  /\ AllCapable

-----------------------------------------------------------------------------
(* Steps of a process.                                                     *)

\* Only Record writes results, and only it and ConsultJournal report one.
LEMMA ReportSteps ==
  ASSUME SystemInv, NEW p \in Processes, ProcessStep(p)
  PROVE  /\ Record(p) \/ recorded' = recorded
         /\ \/ Record(p) \/ ConsultJournal(p)
            \/ call'[p] = call[p] \/ ~IsResult(call'[p])
<1>1. Record(p) \/ recorded' = recorded
  BY DEF ProcessStep, hostVars, Tick, Beaten, Claimed, Reported, ConsultJournal, InsertJournal,
     MakeWorkspace, Launch, Stream, Streamed, Overrun, Poll, SkipPoll, Polled, Reap
<1>2. ASSUME ~Record(p), ~ConsultJournal(p)
      PROVE  call'[p] = call[p] \/ ~IsResult(call'[p])
  BY <1>2 DEF SystemInv, AgentTypeOK, ProcessStep, Send, HangUp, IsResult, Tick, Beaten, Claimed,
     Reported, InsertJournal, MakeWorkspace, Launch, Stream, Streamed, Overrun, Poll, SkipPoll,
     Polled, Reap
<1> QED BY <1>1, <1>2

\* A verdict is reached by the journal or at the end of a watched run.
LEMMA VerdictSteps ==
  ASSUME SystemInv, NEW p \in Processes, ProcessStep(p), pc'[p] = "record"
  PROVE  /\ held' = held /\ pc[p] \in Executing
         /\ \/ ConsultJournal(p) /\ verdict'[p] = Interrupted
            \/ /\ pc[p] \in Watching
               /\ \E s \in Terminal :
                    /\ Conclude(p, s)
                    /\ s = "SUCCEEDED" => child[JobOf(p)] = "done"
<1>1. Overrun(p) \/ Polled(p) \/ Reap(p) \/ ConsultJournal(p)
  BY DEF SystemInv, AgentTypeOK, ProcessStep, Goto, Tick, Beaten, Claimed, Reported,
     InsertJournal, MakeWorkspace, Launch, Stream, Streamed, Poll, SkipPoll, Record
<1>2. CASE Overrun(p)
  BY <1>2 DEF Overrun, Terminal, Watching, Executing
<1>3. CASE Polled(p)
  BY <1>3 DEF Polled, Goto, Terminal, Watching, Executing, SystemInv, AgentTypeOK
<1>4. CASE Reap(p)
  BY <1>4 DEF Reap, Goto, ExitState, Terminal, Watching, Executing, SystemInv, AgentTypeOK
<1>5. CASE ConsultJournal(p)
  <2>1. Lookup(p) = "record" /\ verdict'[p] = Interrupted
    BY <1>5 DEF ConsultJournal, Goto, SystemInv, AgentTypeOK
  <2> QED BY <1>5, <2>1 DEF ConsultJournal, Executing
<1> QED BY <1>1, <1>2, <1>3, <1>4, <1>5

\* What a conclusion writes.
LEMMA Concluded ==
  ASSUME SystemInv, NEW p \in Processes, pc[p] \in Executing, NEW s \in Terminal, Conclude(p, s)
  PROVE  /\ verdict'[p].state = s
         /\ verdict'[p].exit = IF ChildAfter(p) = "done" THEN 0 ELSE 1
         /\ child' = [child EXCEPT ![JobOf(p)] = ChildAfter(p)]
         /\ JobOf(p) \in Jobs
BY Holding DEF Conclude, SystemInv, AgentTypeOK

\* A recipe that ended well stays that: nobody launches it again or kills it.
LEMMA ChildSteps ==
  ASSUME SystemInv, RealChildren, NEW p \in Processes, ProcessStep(p)
  PROVE  RealChildren' /\ \A j \in Jobs : Done(j) => Done(j)'
<1>1. CASE UNCHANGED <<child, launches>>
  BY <1>1 DEF RealChildren, Done
<1>2. CASE Launch(p)
  <2>1. JobOf(p) \in Jobs /\ launches[JobOf(p)] = 0
    BY <1>2, Holding DEF Launch, Executing, Launching, SystemInv, ProcessRows, LaunchingRow
  <2> QED BY <1>2, <2>1 DEF Launch, RealChildren, Done, SystemInv, AgentTypeOK
<1>3. ASSUME NEW s \in Terminal, Conclude(p, s), pc[p] \in Watching, UNCHANGED launches
      PROVE  RealChildren' /\ \A j \in Jobs : Done(j) => Done(j)'
  <2>1. child' = [child EXCEPT ![JobOf(p)] = ChildAfter(p)] /\ JobOf(p) \in Jobs
    BY <1>3, Concluded DEF Executing
  <2> QED BY <1>3, <2>1 DEF ChildAfter, RealChildren, Done, SystemInv, AgentTypeOK
<1>4. \/ UNCHANGED <<child, launches>>
      \/ Launch(p)
      \/ pc[p] \in Watching /\ UNCHANGED launches /\ \E s \in Terminal : Conclude(p, s)
  <2>1. CASE Overrun(p)
    BY <2>1 DEF Overrun, Terminal, Watching
  <2>2. CASE Polled(p)
    BY <2>2 DEF Polled, Terminal, Watching
  <2>3. CASE Reap(p)
    BY <2>3 DEF Reap, Terminal, Watching, ExitState
  <2>4. CASE ~Overrun(p) /\ ~Polled(p) /\ ~Reap(p)
    BY <2>4 DEF ProcessStep, hostVars, Tick, Beaten, Claimed, Reported, ConsultJournal,
       InsertJournal, MakeWorkspace, Stream, Streamed, Poll, SkipPoll, Record
  <2> QED BY <2>1, <2>2, <2>3, <2>4
<1> QED BY <1>1, <1>2, <1>3, <1>4

LEMMA ProcessReal ==
  ASSUME SystemInv, RealInv, NEW p \in Processes, ProcessStep(p),
         UNCHANGED <<controlVars, late, faults>>
  PROVE  RealInv'
<1>1. RealChildren' /\ \A j \in Jobs : Done(j) => Done(j)'
  BY ChildSteps DEF RealInv
<1>2. ASSUME NEW q \in Processes, q # p
      PROVE  /\ pc'[q] = pc[q] /\ held'[q] = held[q] /\ verdict'[q] = verdict[q]
             /\ call'[q] = call[q]
  BY <1>2, OthersStand
<1>3. ASSUME NEW j, NEW v, Real(j, v), j \in Jobs
      PROVE  Real(j, v)'
  BY <1>1, <1>3 DEF Real
<1>4. RealVerdicts'
  <2>1. ASSUME NEW q \in Processes, q # p, pc'[q] = "record"
        PROVE  Real(JobOf(q), verdict[q])'
    <3>1. pc[q] = "record" /\ JobOf(q) \in Jobs
      BY <1>2, <2>1, Holding DEF Executing
    <3>2. Done(JobOf(q)) => Done(JobOf(q))'
      BY <1>1, <1>2, <2>1, <3>1 DEF Done, JobOf
    <3> QED BY <1>2, <2>1, <3>1, <3>2 DEF RealInv, RealVerdicts, Real
  <2>2. ASSUME pc'[p] = "record"
        PROVE  Real(JobOf(p), verdict[p])'
    <3>1. /\ held' = held /\ pc[p] \in Executing
          /\ \/ ConsultJournal(p) /\ verdict'[p] = Interrupted
             \/ /\ pc[p] \in Watching
                /\ \E s \in Terminal :
                     /\ Conclude(p, s)
                     /\ s = "SUCCEEDED" => child[JobOf(p)] = "done"
      BY <2>2, VerdictSteps
    <3>2. JobOf(p) \in Jobs /\ JobOf(p)' = JobOf(p)
      BY <3>1, Holding DEF JobOf
    <3>3. CASE verdict'[p] = Interrupted
      BY <3>3 DEF Real, Interrupted
    <3>4. ASSUME NEW s \in Terminal, Conclude(p, s), s = "SUCCEEDED" => child[JobOf(p)] = "done"
          PROVE  Real(JobOf(p), verdict[p])'
      <4>1. verdict'[p].state = s
        BY <3>1, <3>4, Concluded
      <4>2. child[JobOf(p)] = "done" => Done(JobOf(p))
        BY <3>2 DEF RealInv, RealChildren, SystemInv, LaunchedRows, Done
      <4> QED BY <1>1, <3>2, <3>4, <4>1, <4>2 DEF Real, Done
    <3> QED BY <3>1, <3>3, <3>4
  <2> QED BY <2>1, <2>2 DEF RealVerdicts
<1>5. RealRecords'
  <2>1. CASE recorded' = recorded
    BY <1>1, <2>1 DEF RealInv, RealRecords, Real
  <2>2. CASE Record(p)
    <3>1. /\ pc[p] = "record" /\ JobOf(p) \in Jobs /\ Me(p) \in Agents
          /\ recorded' = [recorded EXCEPT ![Me(p)][JobOf(p)] = ResultOf(p, verdict[p])]
      BY <2>2, Holding, IdentityAssumption DEF Record, Executing, Me
    <3>2. Real(JobOf(p), ResultOf(p, verdict[p]))
      BY <3>1 DEF RealInv, RealVerdicts, Real, ResultOf
    <3> QED BY <1>1, <3>1, <3>2 DEF RealInv, RealRecords, Real, SystemInv, AgentTypeOK
  <2> QED BY <2>1, <2>2, ReportSteps
<1>6. RealCalls'
  <2>1. ASSUME NEW q \in Processes, call'[q] = call[q], IsResult(call[q])
        PROVE  Real(call[q].job, call[q].body)'
    <3>1. call[q].job \in Jobs
      BY <2>1 DEF SystemInv, AgentTypeOK, Request, IsResult
    <3> QED BY <1>1, <2>1, <3>1 DEF RealInv, RealCalls, Real, Done
  <2>2. CASE Record(p)
    <3>1. /\ pc[p] = "record" /\ JobOf(p) \in Jobs
          /\ call'[p] = [op |-> "result", job |-> JobOf(p), body |-> ResultOf(p, verdict[p])]
      BY <2>2, Holding DEF Record, Executing, SendResult, Send, SystemInv, AgentTypeOK
    <3>2. Real(JobOf(p), ResultOf(p, verdict[p]))
      BY <3>1 DEF RealInv, RealVerdicts, Real, ResultOf
    <3>3. Real(call[p].job, call[p].body)'
      BY <1>1, <3>1, <3>2 DEF Real, Done
    <3> QED BY <1>2, <2>1, <3>3 DEF RealCalls
  <2>3. CASE ConsultJournal(p) /\ call'[p] # call[p]
    <3>1. Lookup(p) = "report" /\ JobOf(p) \in Jobs /\ Me(p) \in Agents /\ Recorded(p) # None
      BY <2>3, Holding, IdentityAssumption DEF ConsultJournal, Executing, Me, Lookup
    <3>2. call'[p] = [op |-> "result", job |-> JobOf(p), body |-> Recorded(p)]
      BY <2>3, <3>1 DEF ConsultJournal, SendResult, Send, SystemInv, AgentTypeOK
    <3>3. Real(call[p].job, call[p].body)'
      BY <1>1, <3>1, <3>2 DEF RealInv, RealRecords, Real, Recorded, Done
    <3> QED BY <1>2, <2>1, <3>3 DEF RealCalls
  <2> QED BY <1>2, <2>1, <2>2, <2>3, ReportSteps DEF RealCalls
<1>7. RealLate'
  <2>1. \A m \in late : IsResult(m.request) => m.request.job \in Jobs
    BY DEF SystemInv, AgentTypeOK, LateRequest, Request, IsResult
  <2> QED BY <1>1, <2>1 DEF RealInv, RealLate, Real
<1>8. SuccessIsReal'
  BY <1>1 DEF RealInv, SuccessIsReal, Done, controlVars, jobVars
<1> QED BY <1>1, <1>4, <1>5, <1>6, <1>7, <1>8 DEF RealInv

-----------------------------------------------------------------------------
(* The control plane writes a success only from a report of one.           *)

LEMMA HandleReal ==
  ASSUME SystemInv, RealInv, NEW a \in Agents, NEW r \in Request, Handle(a, r),
         IsResult(r) => Real(r.job, r.body)
  PROVE  \A j \in Jobs : state'[j] = "SUCCEEDED" => Done(j)
<1>. USE DEF SystemInv, ControlInv, ControlTypeOK, RealInv, SuccessIsReal, Done
<1>1. CASE UNCHANGED controlVars
  BY <1>1 DEF controlVars, jobVars
<1>2. CASE Heartbeat(a, "capable")
  BY <1>2 DEF Heartbeat, jobVars
<1>3. ASSUME NEW i \in Jobs, Dispatch(a, i)
      PROVE  \A j \in Jobs : state'[j] = "SUCCEEDED" => Done(j)
  BY <1>3 DEF Dispatch
<1>4. CASE r.op = "progress" /\ Progress(a, r.job, r.lease, r.sequence)
  BY <1>4 DEF Progress
<1>5. CASE r.op = "result" /\ Result(a, r.job, r.body)
  <2>1. r.job \in Jobs /\ IsResult(r)
    BY <1>5, NullAssumption DEF Request, IsResult
  <2>2. Outcome(r.job, r.body) = "SUCCEEDED" => Done(r.job)
    BY <2>1 DEF Outcome, Real
  <2> QED BY <1>5, <2>1, <2>2 DEF Result
<1> QED BY <1>1, <1>2, <1>3, <1>4, <1>5 DEF Handle

LEMMA OperatorReal ==
  ASSUME SystemInv, RealInv, OperatorStep
  PROVE  \A j \in Jobs : state'[j] = "SUCCEEDED" => Done(j)
<1>. USE DEF SystemInv, ControlInv, ControlTypeOK, RealInv, SuccessIsReal, Done
<1>1. ASSUME NEW i \in Jobs, NEW g \in Goal, Submit(i, g)
      PROVE  \A j \in Jobs : state'[j] = "SUCCEEDED" => Done(j)
  BY <1>1 DEF Submit, FirstState
<1>2. ASSUME NEW i \in Jobs, NEW plan \in Plan, NEW approve \in BOOLEAN, Approval(i, plan, approve)
      PROVE  \A j \in Jobs : state'[j] = "SUCCEEDED" => Done(j)
  BY <1>2 DEF Approval
<1>3. ASSUME NEW i \in Jobs, Cancel(i)
      PROVE  \A j \in Jobs : state'[j] = "SUCCEEDED" => Done(j)
  BY <1>3 DEF Cancel, CancelledState
<1> QED BY <1>1, <1>2, <1>3 DEF OperatorStep

LEMMA ControlReal ==
  ASSUME SystemInv, RealInv, UNCHANGED <<pc, held, verdict, call, hostVars>>, late' \subseteq late,
         \A j \in Jobs : state'[j] = "SUCCEEDED" => Done(j)
  PROVE  RealInv'
BY DEF RealInv, RealVerdicts, RealRecords, RealCalls, RealLate, RealChildren, SuccessIsReal,
   Real, Done, JobOf, hostVars

LEMMA FaultReal ==
  ASSUME SystemInv, RealInv, NEW p \in Processes, Fault(p)
  PROVE  RealInv'
<1>1. /\ \A j \in Jobs : child'[j] # child[j] => child[j] = "alive"
      /\ UNCHANGED <<launches, recorded, controlVars>>
  BY DEF Fault, GiveUp, Crash, Blocked, hostVars, SystemInv, AgentTypeOK
<1>2. RealChildren' /\ \A j \in Jobs : Done(j) => Done(j)'
  BY <1>1 DEF RealInv, RealChildren, Done
<1>3. ASSUME NEW q \in Processes
      PROVE  /\ pc'[q] = "record" => pc[q] = "record" /\ held'[q] = held[q] /\ verdict'[q] = verdict[q]
             /\ call'[q] = call[q] \/ call'[q] = None
  BY DEF Fault, GiveUp, Crash, Blocked, Goto, Forget, HangUp, SystemInv, AgentTypeOK
<1>4. RealVerdicts'
  <2>1. ASSUME NEW q \in Processes, pc'[q] = "record"
        PROVE  Real(JobOf(q), verdict[q])'
    <3>1. pc[q] = "record" /\ JobOf(q) \in Jobs /\ JobOf(q)' = JobOf(q) /\ verdict'[q] = verdict[q]
      BY <1>3, <2>1, Holding DEF Executing, JobOf
    <3> QED BY <1>2, <3>1 DEF RealInv, RealVerdicts, Real, Done
  <2> QED BY <2>1 DEF RealVerdicts
<1>5. RealRecords'
  BY <1>1, <1>2 DEF RealInv, RealRecords, Real
<1>6. \A q \in Processes : IsResult(call[q]) => call[q].job \in Jobs
  BY DEF SystemInv, AgentTypeOK, Request, IsResult
<1>7. RealCalls'
  BY <1>2, <1>3, <1>6 DEF RealInv, RealCalls, Real, Done, IsResult
<1>8. RealLate'
  <2>1. \A m \in late : IsResult(m.request) => m.request.job \in Jobs
    BY DEF SystemInv, AgentTypeOK, LateRequest, Request, IsResult
  <2>2. ASSUME NEW m \in late', IsResult(m.request)
        PROVE  m.request.job \in Jobs /\ Real(m.request.job, m.request.body)
    <3>1. CASE m \in late
      BY <2>1, <2>2, <3>1 DEF RealInv, RealLate
    <3>2. CASE m \in Abandoned(p)
      BY <1>6, <2>2, <3>2 DEF Abandoned, RealInv, RealCalls
    <3> QED BY <3>1, <3>2 DEF Fault
  <2> QED BY <1>2, <2>2 DEF RealLate, Real, Done
<1>9. SuccessIsReal'
  BY <1>1, <1>2 DEF RealInv, SuccessIsReal, Done, controlVars, jobVars
<1> QED BY <1>2, <1>4, <1>5, <1>7, <1>8, <1>9 DEF RealInv

LEMMA RealNext == SystemInv /\ RealInv /\ [Next]_vars => RealInv'
<1> SUFFICES ASSUME SystemInv, RealInv, [Next]_vars PROVE RealInv'
  OBVIOUS
<1>1. CASE UNCHANGED vars
  BY <1>1, ControlReal DEF RealInv, SuccessIsReal, Done, vars, controlVars, jobVars, agentVars,
     processVars, hostVars
<1>2. CASE Operate
  BY <1>2, OperatorReal, ControlReal DEF Operate, agentVars, processVars
<1>3. CASE ServeLate
  <2>1. PICK m \in late : Handle(m.agent, m.request) /\ late' = late \ {m} /\ UNCHANGED agentVars
    BY <1>3 DEF ServeLate
  <2>2. m.agent \in Agents /\ m.request \in Request
    BY DEF SystemInv, AgentTypeOK, LateRequest
  <2>3. \A j \in Jobs : state'[j] = "SUCCEEDED" => Done(j)
    BY <2>1, <2>2, HandleReal DEF RealInv, RealLate
  <2> QED BY <2>1, <2>3, ControlReal DEF agentVars, processVars
<1>4. CASE ChildEnds
  <2>1. PICK j \in Jobs : ChildExits(j) /\ UNCHANGED <<controlVars, late, faults>>
    BY <1>4 DEF ChildEnds
  <2>2. RealChildren' /\ \A i \in Jobs : Done(i) => Done(i)'
    BY <2>1 DEF ChildExits, RealInv, RealChildren, Done, SystemInv, AgentTypeOK
  <2>3. /\ \A q \in Processes : pc[q] = "record" => JobOf(q) \in Jobs
        /\ \A q \in Processes : IsResult(call[q]) => call[q].job \in Jobs
        /\ \A m \in late : IsResult(m.request) => m.request.job \in Jobs
    BY Holding DEF Executing, SystemInv, AgentTypeOK, LateRequest, Request, IsResult
  <2>4. UNCHANGED <<pc, held, verdict, call, recorded, late, state>>
    BY <2>1 DEF ChildExits, processVars, controlVars, jobVars
  <2> QED BY <2>2, <2>3, <2>4 DEF RealInv, RealVerdicts, RealRecords, RealCalls, RealLate,
          SuccessIsReal, Real, Done, JobOf
<1>5. ASSUME NEW p \in Processes, RunProcess(p)
      PROVE  RealInv'
  BY <1>5, ProcessReal DEF RunProcess
<1>6. ASSUME NEW p \in Processes, Serve(p)
      PROVE  RealInv'
  <2>1. Me(p) \in Agents /\ call[p] \in Request
    BY <1>6, IdentityAssumption DEF Me, Serve, SystemInv, AgentTypeOK
  <2>2. \A j \in Jobs : state'[j] = "SUCCEEDED" => Done(j)
    BY <1>6, <2>1, HandleReal DEF Serve, RealInv, RealCalls
  <2> QED BY <1>6, <2>2, ControlReal DEF Serve
<1>7. ASSUME NEW p \in Processes, Restart(p)
      PROVE  RealInv'
  <2>1. /\ UNCHANGED <<held, verdict, call, hostVars, controlVars, late>>
        /\ \A q \in Processes : pc'[q] = "record" => pc[q] = "record"
    BY <1>7 DEF Restart, Start, Goto, SystemInv, AgentTypeOK
  <2> QED BY <2>1 DEF RealInv, RealVerdicts, RealRecords, RealCalls, RealLate, RealChildren,
          SuccessIsReal, Real, Done, JobOf, hostVars, controlVars, jobVars
<1>8. ASSUME NEW p \in Processes, Fault(p)
      PROVE  RealInv'
  BY <1>8, FaultReal
<1> QED BY <1>1, <1>2, <1>3, <1>4, <1>5, <1>6, <1>7, <1>8 DEF Next

\* Every success that is on its way, journaled or stored is one.
THEOREM RealInvariant == Spec => []RealInv
<1>1. Init => RealInv
  BY NullAssumption DEF Init, ControlInit, AgentInit, RealInv, RealVerdicts, RealRecords, RealCalls, RealLate,
     RealChildren, SuccessIsReal, IsResult
<1> QED BY <1>1, RealNext, SystemInvariant, PTL DEF Spec

\* SUCCEEDED is said only of a recipe that was launched once and ended well, for any
\* number of processes, also several on one data directory (execute, result).
THEOREM SuccessesAreReal == Spec => []SuccessIsReal
<1>1. RealInv => SuccessIsReal
  BY DEF RealInv
<1> QED BY <1>1, RealInvariant, PTL

-----------------------------------------------------------------------------
(* A process writes the result of its job once.                            *)

\* How a process comes to where its job has no result yet.
LEMMA UnrecordedSteps ==
  ASSUME SystemInv, NEW p \in Processes, ProcessStep(p), pc'[p] \in Unrecorded
  PROVE  /\ held' = held /\ pc[p] \in Executing /\ recorded' = recorded
         /\ \/ pc[p] \in Unrecorded \ {"fresh"} /\ journal' = journal
            \/ pc[p] = "fresh" /\ JobOf(p) \in journal'[Me(p)]
            \/ /\ pc[p] = "lookup" /\ pc'[p] = Lookup(p) /\ journal' = journal
               /\ pc'[p] \in {"fresh", "record"}
<1>1. CASE pc'[p] = "record"
  <2>1. CASE ConsultJournal(p)
    BY <1>1, <2>1 DEF ConsultJournal, Goto, Executing, hostVars, SystemInv, AgentTypeOK
  <2>2. CASE ~ConsultJournal(p)
    <3>1. pc[p] \in Watching /\ held' = held
      BY <1>1, <2>2, VerdictSteps
    <3>2. recorded' = recorded /\ journal' = journal
      BY <3>1, HostSteps, ReportSteps DEF Record, InsertJournal, Watching
    <3> QED BY <3>1, <3>2 DEF Unrecorded, Executing, Watching
  <2> QED BY <2>1, <2>2
<1>2. CASE pc'[p] # "record"
  <2>1. \/ ConsultJournal(p) \/ InsertJournal(p) \/ MakeWorkspace(p) \/ Launch(p) \/ Stream(p)
        \/ Streamed(p) \/ Poll(p) \/ SkipPoll(p) \/ Polled(p) \/ Reap(p)
    BY <1>2 DEF Unrecorded, Watching, SystemInv, AgentTypeOK, ProcessStep, Goto, Conclude, Tick,
       Beaten, Claimed, Reported, Overrun, Record
  <2>2. CASE ConsultJournal(p)
    <3>1. pc'[p] = Lookup(p) /\ pc[p] = "lookup"
      BY <2>2 DEF ConsultJournal, Goto, SystemInv, AgentTypeOK
    <3>2. Lookup(p) = "fresh"
      BY <1>2, <3>1 DEF Lookup, Unrecorded, Watching
    <3> QED BY <2>2, <3>1, <3>2 DEF ConsultJournal, Executing, hostVars
  <2>3. CASE InsertJournal(p)
    BY <2>3, IdentityAssumption DEF InsertJournal, Executing, Me, SystemInv, AgentTypeOK
  <2>4. CASE \/ MakeWorkspace(p) \/ Launch(p) \/ Stream(p) \/ Streamed(p) \/ Poll(p)
             \/ SkipPoll(p) \/ Polled(p) \/ Reap(p)
    BY <2>4 DEF MakeWorkspace, Launch, Stream, Streamed, Poll, SkipPoll, Polled, Reap, hostVars,
       Executing, Unrecorded, Watching
  <2> QED BY <2>1, <2>2, <2>3, <2>4
<1> QED BY <1>1, <1>2

\* What Record writes, it writes over nothing.
LEMMA RecordedOnce ==
  ASSUME SystemInv, JournalInv, NEW p \in Processes, ProcessStep(p)
  PROVE  \A a \in Agents, j \in Jobs : recorded[a][j] # None => recorded'[a][j] = recorded[a][j]
<1>1. CASE Record(p)
  <2>1. pc[p] = "record" /\ JobOf(p) \in Jobs /\ Me(p) \in Agents
    BY <1>1, Holding, IdentityAssumption DEF Record, Executing, Me
  <2>2. recorded[Me(p)][JobOf(p)] = None
    BY <2>1 DEF JournalInv, Unwritten, Unrecorded, Recorded
  <2> QED BY <1>1, <2>1, <2>2 DEF Record, SystemInv, AgentTypeOK
<1> QED BY <1>1, ReportSteps

LEMMA RecordWrites ==
  ASSUME SystemInv, NEW p \in Processes, Record(p)
  PROVE  /\ pc[p] = "record" /\ JobOf(p) \in Jobs /\ Me(p) \in Agents /\ Mine(p, held[p])
         /\ verdict[p] \in Verdict
         /\ recorded' = [recorded EXCEPT ![Me(p)][JobOf(p)] = ResultOf(p, verdict[p])]
         /\ recorded'[Me(p)][JobOf(p)] = ResultOf(p, verdict[p])
         /\ ResultOf(p, verdict[p]) \in ResultBody
         /\ call'[p] = [op |-> "result", job |-> JobOf(p), body |-> ResultOf(p, verdict[p])]
         /\ journal' = journal /\ pc'[p] = "report"
<1>1. pc[p] = "record" /\ pc[p] \in Executing /\ Me(p) \in Agents
  BY IdentityAssumption DEF Record, Executing, Me
<1>2. JobOf(p) \in Jobs /\ Mine(p, held[p]) /\ verdict[p] \in Verdict
  BY <1>1, Holding DEF SystemInv, ProcessRows, HeldRow
<1>3. ResultOf(p, verdict[p]) \in ResultBody
  BY <1>1, <1>2, ResultTypedAtAgent
<1> QED BY <1>1, <1>2, <1>3 DEF Record, SendResult, Send, Goto, SystemInv, AgentTypeOK

LEMMA ProcessUnwritten ==
  ASSUME OneProcess, SystemInv, JournalInv, NEW p \in Processes, ProcessStep(p)
  PROVE  Unwritten' /\ Rowed' /\ SoundVerdicts'
<1>1. ASSUME NEW q \in Processes, q # p
      PROVE  /\ pc'[q] = pc[q] /\ held'[q] = held[q] /\ verdict'[q] = verdict[q]
             /\ Me(q) # Me(p) /\ Me(q) \in Agents
  BY <1>1, OthersStand, IdentityAssumption DEF OneProcess, Me
<1>2. Unwritten'
  <2>1. ASSUME NEW q \in Processes, q # p, pc'[q] \in Unrecorded
        PROVE  Recorded(q)' = None
    <3>1. recorded'[Me(q)] = recorded[Me(q)]
      BY <1>1, <2>1, ReportSteps, RecordWrites DEF SystemInv, AgentTypeOK
    <3> QED BY <1>1, <2>1, <3>1 DEF JournalInv, Unwritten, Recorded, JobOf, Me
  <2>2. ASSUME pc'[p] \in Unrecorded
        PROVE  Recorded(p)' = None
    <3>1. Recorded(p)' = Recorded(p)
      BY <2>2, UnrecordedSteps DEF Recorded, JobOf, Me
    <3>2. CASE pc[p] \in Unrecorded
      BY <3>1, <3>2 DEF JournalInv, Unwritten
    <3>3. CASE pc[p] = "lookup" /\ Lookup(p) \in {"fresh", "record"}
      <4>1. JobOf(p) \in Jobs /\ Me(p) \in Agents
        BY <3>3, Holding, IdentityAssumption DEF Executing, Me
      <4> QED BY <3>1, <3>3, <4>1 DEF Lookup, Recorded, JournalInv, SoundRecords
    <3> QED BY <2>2, <3>2, <3>3, UnrecordedSteps DEF Unrecorded
  <2> QED BY <2>1, <2>2 DEF Unwritten
<1>3. Rowed'
  <2>1. ASSUME NEW q \in Processes, q # p, pc'[q] \in Unrecorded \ {"fresh"}
        PROVE  JobOf(q)' \in journal'[Me(q)]
    BY <1>1, <2>1, HostSteps DEF JournalInv, Rowed, JobOf
  <2>2. ASSUME pc'[p] \in Unrecorded \ {"fresh"}
        PROVE  JobOf(p)' \in journal'[Me(p)]
    BY <2>2, UnrecordedSteps DEF JournalInv, Rowed, JobOf, Lookup
  <2> QED BY <2>1, <2>2 DEF Rowed, Me
<1>4. SoundVerdicts'
  <2>1. ASSUME pc'[p] = "record", verdict'[p].state = "SUCCEEDED"
        PROVE  verdict'[p].exit = 0
    <3>1. CASE verdict'[p] = Interrupted
      BY <2>1, <3>1 DEF Interrupted
    <3>2. ASSUME NEW s \in Terminal, Conclude(p, s), s = "SUCCEEDED" => child[JobOf(p)] = "done"
          PROVE  verdict'[p].exit = 0
      BY <2>1, <3>2, VerdictSteps, Concluded DEF ChildAfter
    <3> QED BY <2>1, <3>1, <3>2, VerdictSteps
  <2> QED BY <1>1, <2>1 DEF JournalInv, SoundVerdicts
<1> QED BY <1>2, <1>3, <1>4

LEMMA ProcessJournals ==
  ASSUME OneProcess, SystemInv, JournalInv, NEW p \in Processes, ProcessStep(p),
         UNCHANGED <<controlVars, late, faults>>
  PROVE  JournalInv'
<1>1. \A a \in Agents, j \in Jobs : recorded[a][j] # None => recorded'[a][j] = recorded[a][j]
  BY RecordedOnce
<1>2. ASSUME NEW a, NEW j, NEW b, Reportable(a, j, b)
      PROVE  Reportable(a, j, b)'
  BY <1>2 DEF Reportable, Exists, TargetOf, controlVars, jobVars
<1>3. SoundRecords'
  <2>1. ASSUME NEW a \in Agents, NEW j \in Jobs, recorded[a][j] # None
        PROVE  j \in journal'[a] /\ Reportable(a, j, recorded[a][j])'
    <3>1. j \in journal[a] /\ Reportable(a, j, recorded[a][j])
      BY <2>1 DEF JournalInv, SoundRecords
    <3> QED BY <1>1, <2>1, <3>1, HostSteps DEF Reportable, Exists, TargetOf, controlVars, jobVars
  <2>2. CASE recorded' = recorded
    BY <2>1, <2>2 DEF SoundRecords
  <2>3. CASE Record(p)
    <3>1. JobOf(p) \in journal'[Me(p)]
      BY <2>3, RecordWrites DEF JournalInv, Rowed, Unrecorded
    <3>2. Reportable(Me(p), JobOf(p), ResultOf(p, verdict[p]))
      BY <2>3, RecordWrites DEF Reportable, Mine, JobOf, ResultOf, WellFormed, JournalInv, SoundVerdicts
    <3>3. ASSUME NEW a \in Agents, NEW j \in Jobs, recorded'[a][j] # None
          PROVE  j \in journal'[a] /\ Reportable(a, j, recorded[a][j])'
      <4>1. CASE recorded[a][j] # None
        BY <2>1, <4>1
      <4>2. CASE recorded[a][j] = None
        <5>1. a = Me(p) /\ j = JobOf(p)
          <6>1. /\ recorded' = [recorded EXCEPT ![Me(p)][JobOf(p)] = ResultOf(p, verdict[p])]
                /\ Me(p) \in Agents /\ JobOf(p) \in Jobs
            BY <2>3, RecordWrites
          <6>2. recorded \in [Agents -> [Jobs -> ResultBody \cup {None}]]
            BY DEF SystemInv, AgentTypeOK
          <6> QED BY <3>3, <4>2, <6>1, <6>2
        <5>2. recorded'[a][j] = ResultOf(p, verdict[p])
          BY <2>3, <5>1, RecordWrites
        <5> QED BY <3>1, <3>2, <5>1, <5>2 DEF Reportable, Exists, TargetOf, controlVars, jobVars
      <4> QED BY <4>1, <4>2
    <3> QED BY <3>3 DEF SoundRecords
  <2> QED BY <2>2, <2>3, ReportSteps
<1>4. ASSUME NEW a \in Agents, NEW r \in Request, Journaled(a, r)
      PROVE  Journaled(a, r)'
  <2>1. IsResult(r) => r.job \in Jobs
    BY DEF IsResult, Request
  <2> QED BY <1>1, <1>4, <2>1 DEF Journaled
<1>5. JournaledCalls'
  <2>1. ASSUME NEW q \in Processes, call'[q] = call[q]
        PROVE  Journaled(Me(q), call[q])'
    <3>1. Me(q) \in Agents /\ (call[q] = None \/ call[q] \in Request)
      BY IdentityAssumption DEF Me, SystemInv, AgentTypeOK
    <3>2. Journaled(Me(q), call[q])
      BY DEF JournalInv, JournaledCalls
    <3>3. IsResult(call[q]) => call[q].job \in Jobs
      BY <3>1 DEF IsResult, Request
    <3> QED BY <1>1, <2>1, <3>1, <3>2, <3>3 DEF Journaled, Me
  <2>2. CASE Record(p)
    <3>1. Journaled(Me(p), call[p])'
      <4>1. /\ call'[p].job = JobOf(p) /\ call'[p].body = ResultOf(p, verdict[p])
            /\ recorded'[Me(p)][JobOf(p)] = ResultOf(p, verdict[p])
        <5>1. call'[p] = [op |-> "result", job |-> JobOf(p), body |-> ResultOf(p, verdict[p])]
          BY <2>2, RecordWrites
        <5>2. recorded'[Me(p)][JobOf(p)] = ResultOf(p, verdict[p])
          BY <2>2, RecordWrites
        <5> QED BY <5>1, <5>2
      <4>2. ResultOf(p, verdict[p]) # None
        BY <2>2, RecordWrites, NoneAssumption
      <4> QED BY <4>1, <4>2 DEF Journaled, Me
    <3> QED BY <2>1, <3>1, OthersStand DEF JournaledCalls
  <2>3. CASE ConsultJournal(p) /\ call'[p] # call[p]
    <3>1. Lookup(p) = "report" /\ JobOf(p) \in Jobs /\ Me(p) \in Agents /\ Recorded(p) # None
      BY <2>3, Holding, IdentityAssumption DEF ConsultJournal, Executing, Me, Lookup
    <3>2. call'[p] = [op |-> "result", job |-> JobOf(p), body |-> Recorded(p)]
      BY <2>3, <3>1 DEF ConsultJournal, SendResult, Send, SystemInv, AgentTypeOK
    <3>3. Journaled(Me(p), call[p])'
      BY <1>1, <3>1, <3>2 DEF Journaled, Me, Recorded
    <3> QED BY <2>1, <3>3, OthersStand DEF JournaledCalls
  <2>4. CASE ~IsResult(call'[p])
    BY <2>1, <2>4, OthersStand DEF JournaledCalls, Journaled, IsResult
  <2> QED BY <2>1, <2>2, <2>3, <2>4, ReportSteps, OthersStand DEF JournaledCalls
<1>6. JournaledLate'
  BY <1>4 DEF JournalInv, JournaledLate, SystemInv, AgentTypeOK, LateRequest
<1>7. JournaledResults'
  <2>1. ASSUME NEW j \in Jobs, result[j] # None
        PROVE  /\ TargetOf(j) \in Agents /\ recorded[TargetOf(j)][j] # None
               /\ result[j] = Sanitized(j, recorded[TargetOf(j)][j])
    <3>1. Exists(j)
      BY <2>1 DEF SystemInv, ControlInv, Row, ResultRow, Exists, Terminal
    <3> QED BY <2>1, <3>1 DEF JournalInv, JournaledResults, SystemInv, ControlInv, ControlTypeOK,
            TargetOf, Goal
  <2> QED BY <1>1, <2>1 DEF JournaledResults, Sanitized, Outcome, TargetOf, controlVars, jobVars
<1>8. AllCapable'
  BY DEF JournalInv, AllCapable, controlVars
<1> QED BY <1>3, <1>5, <1>6, <1>7, <1>8, ProcessUnwritten DEF JournalInv

-----------------------------------------------------------------------------
(* The control plane stores what is journaled, and keeps it.               *)

\* A stored result, and what it was made from, stays.
Steady(j) ==
  result[j] # None =>
    result'[j] = result[j] /\ cancelRequested'[j] = cancelRequested[j] /\ goal'[j] = goal[j]

LEMMA ClosedRows ==
  ASSUME ControlInv, NEW j \in Jobs, result[j] # None
  PROVE  state[j] \in Terminal /\ Exists(j) /\ goal[j] \in Goal
BY DEF ControlInv, ControlTypeOK, Row, ResultRow, Exists, Terminal

LEMMA OperatorSteady ==
  ASSUME ControlInv, OperatorStep
  PROVE  \A j \in Jobs : Steady(j) /\ (result'[j] # None => result[j] # None)
<1>. USE DEF ControlInv, ControlTypeOK, Steady
<1>1. ASSUME NEW i \in Jobs, NEW g \in Goal, Submit(i, g)
      PROVE  \A j \in Jobs : Steady(j) /\ (result'[j] # None => result[j] # None)
  BY <1>1, ClosedRows DEF Submit
<1>2. ASSUME NEW i \in Jobs, NEW plan \in Plan, NEW approve \in BOOLEAN, Approval(i, plan, approve)
      PROVE  \A j \in Jobs : Steady(j) /\ (result'[j] # None => result[j] # None)
  BY <1>2 DEF Approval
<1>3. ASSUME NEW i \in Jobs, Cancel(i)
      PROVE  \A j \in Jobs : Steady(j) /\ (result'[j] # None => result[j] # None)
  BY <1>3, ClosedRows DEF Cancel
<1> QED BY <1>1, <1>2, <1>3 DEF OperatorStep

\* A handler of an agent's request stores a result only from a report.
LEMMA HandleSteady ==
  ASSUME ControlInv, NEW a \in Agents, NEW r \in Request, Handle(a, r)
  PROVE  \A j \in Jobs :
           /\ Steady(j)
           /\ result'[j] # None /\ result[j] = None =>
                /\ IsResult(r) /\ r.job = j /\ TargetOf(j) = a
                /\ goal'[j] = goal[j] /\ cancelRequested'[j] = cancelRequested[j]
                /\ result'[j] = Sanitized(j, r.body)
<1>. USE DEF ControlInv, ControlTypeOK, Steady
<1>1. CASE UNCHANGED <<result, goal, cancelRequested>>
  BY <1>1
<1>2. CASE r.op = "result" /\ Result(a, r.job, r.body)
  <2>1. r.job \in Jobs /\ IsResult(r)
    BY <1>2, NullAssumption DEF Request, IsResult
  <2> QED BY <1>2, <2>1 DEF Result, Open, OwnedUnder, Owned
<1>3. UNCHANGED <<result, goal, cancelRequested>> \/ (r.op = "result" /\ Result(a, r.job, r.body))
  BY DEF Handle, Heartbeat, Dispatch, Progress, controlVars, jobVars
<1> QED BY <1>1, <1>2, <1>3

LEMMA StillCapable ==
  ASSUME AllCapable, NEW a \in Agents, NEW r \in Request,
         Handle(a, r), ControlInv
  PROVE  AllCapable'
<1>1. UNCHANGED capable \/ capable' = [capable EXCEPT ![a] = "capable"]
  BY DEF Handle, Heartbeat, Dispatch, Progress, Result, controlVars
<1> QED BY <1>1 DEF AllCapable, ControlInv, ControlTypeOK

\* With these facts about the job table, the rest of the invariant stays.
LEMMA ControlJournals ==
  ASSUME SystemInv, JournalInv, UNCHANGED <<pc, held, verdict, call, hostVars>>,
         late' \subseteq late, \A j \in Jobs : Keeps(j) /\ Steady(j),
         \A j \in Jobs : result'[j] # None /\ result[j] = None =>
           /\ goal'[j] = goal[j] /\ cancelRequested'[j] = cancelRequested[j]
           /\ recorded[TargetOf(j)][j] # None
           /\ result'[j] = Sanitized(j, recorded[TargetOf(j)][j]),
         AllCapable'
  PROVE  JournalInv'
<1>1. Unwritten' /\ Rowed' /\ SoundVerdicts' /\ JournaledCalls' /\ JournaledLate'
  BY DEF JournalInv, Unwritten, Rowed, SoundVerdicts, JournaledCalls, JournaledLate, Journaled,
     Recorded, JobOf, Me, hostVars
<1>2. SoundRecords'
  <2>1. ASSUME NEW a \in Agents, NEW j \in Jobs, recorded[a][j] # None
        PROVE  j \in journal[a] /\ Reportable(a, j, recorded[a][j])'
    <3>1. j \in journal[a] /\ Reportable(a, j, recorded[a][j])
      BY <2>1 DEF JournalInv, SoundRecords
    <3>2. recorded[a][j].lease # None
      BY <2>1, NoneAssumption DEF SystemInv, AgentTypeOK, ResultBody, Leases
    <3> QED BY <3>1, <3>2 DEF Reportable, Keeps, TargetOf, WellFormed, hostVars
  <2> QED BY <2>1 DEF SoundRecords, hostVars
<1>3. JournaledResults'
  <2>1. ASSUME NEW j \in Jobs, result'[j] # None
        PROVE  (recorded[TargetOf(j)][j] # None /\ result[j] = Sanitized(j, recorded[TargetOf(j)][j]))'
    <3>1. recorded' = recorded
      BY DEF hostVars
    <3>2. CASE result[j] # None
      BY <2>1, <3>1, <3>2 DEF JournalInv, JournaledResults, Steady, Sanitized, Outcome, TargetOf
    <3>3. CASE result[j] = None
      BY <2>1, <3>1, <3>3 DEF Sanitized, Outcome, TargetOf
    <3> QED BY <3>2, <3>3
  <2> QED BY <2>1 DEF JournaledResults
<1> QED BY <1>1, <1>2, <1>3 DEF JournalInv

\* Handling a report that is journaled.
LEMMA HandleJournals ==
  ASSUME SystemInv, JournalInv, NEW a \in Agents, NEW r \in Request, Handle(a, r),
         Journaled(a, r), UNCHANGED <<pc, held, verdict, call, hostVars>>, late' \subseteq late
  PROVE  JournalInv'
<1>1. AllCapable' /\ \A j \in Jobs : Keeps(j) /\ Steady(j)
  BY StillCapable, HandleKeeps, HandleSteady DEF SystemInv, JournalInv
<1>2. ASSUME NEW j \in Jobs, result'[j] # None, result[j] = None
      PROVE  /\ goal'[j] = goal[j] /\ cancelRequested'[j] = cancelRequested[j]
             /\ recorded[TargetOf(j)][j] # None
             /\ result'[j] = Sanitized(j, recorded[TargetOf(j)][j])
  <2>1. /\ IsResult(r) /\ r.job = j /\ TargetOf(j) = a
        /\ goal'[j] = goal[j] /\ cancelRequested'[j] = cancelRequested[j]
        /\ result'[j] = Sanitized(j, r.body)
    BY <1>2, HandleSteady DEF SystemInv
  <2> QED BY <2>1 DEF Journaled
<1> QED BY <1>1, <1>2, ControlJournals

-----------------------------------------------------------------------------
(* Faults, and all steps together.                                         *)

LEMMA FaultJournals ==
  ASSUME SystemInv, JournalInv, NEW p \in Processes, Fault(p)
  PROVE  JournalInv'
<1>1. UNCHANGED <<journal, recorded, controlVars>>
  BY DEF Fault, GiveUp, Crash, Blocked, hostVars
<1>2. ASSUME NEW q \in Processes
      PROVE  /\ pc'[q] \in Unrecorded => pc[q] \in Unrecorded \ {"fresh"} \/ pc'[q] = pc[q]
             /\ pc'[q] \in Unrecorded => held'[q] = held[q]
             /\ pc'[q] = "record" => pc[q] = "record" /\ verdict'[q] = verdict[q]
             /\ call'[q] = call[q] \/ call'[q] = None
  BY DEF Fault, GiveUp, Crash, Blocked, Goto, Forget, HangUp, Unrecorded, Watching, SystemInv,
     AgentTypeOK
<1>3. Unwritten' /\ Rowed' /\ SoundVerdicts'
  BY <1>1, <1>2 DEF JournalInv, Unwritten, Rowed, SoundVerdicts, Recorded, JobOf, Me
<1>4. JournaledCalls'
  BY <1>1, <1>2 DEF JournalInv, JournaledCalls, Journaled, IsResult
<1>5. JournaledLate'
  BY <1>1 DEF JournalInv, JournaledLate, JournaledCalls, Journaled, Fault, Abandoned
<1>6. SoundRecords' /\ JournaledResults' /\ AllCapable'
  BY <1>1 DEF JournalInv, SoundRecords, JournaledResults, AllCapable, Reportable, Exists, TargetOf,
     Sanitized, Outcome, controlVars, jobVars
<1> QED BY <1>3, <1>4, <1>5, <1>6 DEF JournalInv

LEMMA JournalNext == OneProcess /\ SystemInv /\ JournalInv /\ [Next]_vars => JournalInv'
<1> SUFFICES ASSUME OneProcess, SystemInv, JournalInv, [Next]_vars PROVE JournalInv'
  OBVIOUS
<1>1. ASSUME UNCHANGED <<controlVars, journal, recorded, held, verdict, call, late>>,
             \A q \in Processes : pc'[q] \in Unrecorded => pc[q] = pc'[q]
      PROVE  JournalInv'
  BY <1>1 DEF JournalInv, Unwritten, Rowed, SoundVerdicts, SoundRecords, JournaledCalls,
     JournaledLate, Journaled, JournaledResults, AllCapable, Reportable, Recorded, JobOf, Me,
     Exists, TargetOf, Sanitized, Outcome, Unrecorded, controlVars, jobVars
<1>2. CASE UNCHANGED vars
  BY <1>1, <1>2 DEF vars, agentVars, processVars, hostVars
<1>3. CASE Operate
  <2>1. \A j \in Jobs : Keeps(j) /\ Steady(j) /\ (result'[j] # None => result[j] # None)
    BY <1>3, OperatorKeeps, OperatorSteady DEF Operate, SystemInv
  <2>2. AllCapable'
    BY <1>3 DEF Operate, OperatorStep, Submit, Approval, Cancel, JournalInv, AllCapable
  <2> QED BY <1>3, <2>1, <2>2, ControlJournals DEF Operate, agentVars, processVars
<1>4. CASE ServeLate
  <2>1. PICK m \in late : Handle(m.agent, m.request) /\ late' = late \ {m} /\ UNCHANGED agentVars
    BY <1>4 DEF ServeLate
  <2>2. m.agent \in Agents /\ m.request \in Request
    BY DEF SystemInv, AgentTypeOK, LateRequest
  <2>3. Journaled(m.agent, m.request)
    BY DEF JournalInv, JournaledLate
  <2> QED BY <2>1, <2>2, <2>3, HandleJournals DEF agentVars, processVars
<1>5. CASE ChildEnds
  BY <1>1, <1>5 DEF ChildEnds, ChildExits, processVars
<1>6. ASSUME NEW p \in Processes, RunProcess(p)
      PROVE  JournalInv'
  BY <1>6, ProcessJournals DEF RunProcess
<1>7. ASSUME NEW p \in Processes, Serve(p)
      PROVE  JournalInv'
  <2>1. Me(p) \in Agents /\ call[p] \in Request /\ Journaled(Me(p), call[p])
    BY <1>7, IdentityAssumption DEF Me, Serve, SystemInv, AgentTypeOK, JournalInv, JournaledCalls
  <2> QED BY <1>7, <2>1, HandleJournals DEF Serve
<1>8. ASSUME NEW p \in Processes, Restart(p)
      PROVE  JournalInv'
  <2>1. \A q \in Processes : pc'[q] \in Unrecorded => pc[q] = pc'[q]
    BY <1>8 DEF Restart, Start, Goto, Unrecorded, Watching, SystemInv, AgentTypeOK
  <2> QED BY <1>1, <1>8, <2>1 DEF Restart, Start, hostVars
<1>9. ASSUME NEW p \in Processes, Fault(p)
      PROVE  JournalInv'
  BY <1>9, FaultJournals
<1> QED BY <1>2, <1>3, <1>4, <1>5, <1>6, <1>7, <1>8, <1>9 DEF Next

\* What holds of journals, reports and results when no two processes share a
\* data directory.
THEOREM JournalInvariant == Spec => [](OneProcess => JournalInv)
<1>1. Init => JournalInv
  BY NullAssumption DEF Init, ControlInit, AgentInit, JournalInv, Unwritten, Rowed, SoundVerdicts,
     SoundRecords, JournaledCalls, JournaledLate, Journaled, JournaledResults, AllCapable, IsResult,
     Unrecorded, Watching
<1>2. OneProcess' = OneProcess
  BY DEF OneProcess, Me
<1>3. SystemInv /\ (OneProcess => JournalInv) /\ [Next]_vars => (OneProcess => JournalInv)'
  BY <1>2, JournalNext
<1> QED BY <1>1, <1>3, SystemInvariant, PTL DEF Spec

\* The result the operator reads is the one in the agent's journal (record_result,
\* result), if the data directory has one process.
THEOREM ResultsAreJournaled == Spec => [](OneProcess => ResultIsJournaled)
<1>1. SystemInv /\ JournalInv => ResultIsJournaled
  <2> SUFFICES ASSUME JournalInv, NEW j \in Jobs, result[j] # None
               PROVE  LET r == recorded[TargetOf(j)][j]
                      IN /\ r # None
                         /\ result[j].exit = r.exit
                         /\ result[j].evidence = Redact[r.evidence]
                         /\ \/ result[j].state = r.state
                            \/ /\ r.state = "SUCCEEDED" /\ cancelRequested[j]
                               /\ result[j].state = "CANCELLED"
    BY DEF ResultIsJournaled
  <2> DEFINE r == recorded[TargetOf(j)][j]
  <2>1. r # None /\ result[j] = Sanitized(j, r)
    BY DEF JournalInv, JournaledResults
  <2> HIDE DEF r
  <2>2. /\ result[j].exit = r.exit
        /\ result[j].evidence = Redact[r.evidence]
        /\ result[j].state = Outcome(j, r)
    BY <2>1 DEF Sanitized
  <2>3. Outcome(j, r) = r.state \/ (cancelRequested[j] /\ r.state = "SUCCEEDED" /\ Outcome(j, r) = "CANCELLED")
    BY DEF Outcome
  <2> QED BY <2>1, <2>2, <2>3 DEF r
<1> QED BY <1>1, SystemInvariant, JournalInvariant, PTL

\* A report that is journaled is stored or acknowledged, whenever it comes.
LEMMA JournaledIsAcceptable ==
  ASSUME SystemInv, JournalInv, NEW a \in Agents, NEW r \in Request, Journaled(a, r)
  PROVE  ReportIsAcceptable(a, r)
<1> SUFFICES ASSUME r.op = "result" PROVE CanClose(a, r) \/ ResultRepeated(a, r.job, r.body)
  BY DEF ReportIsAcceptable
<1>1. IsResult(r) /\ r.job \in Jobs /\ recorded[a][r.job] # None /\ r.body = recorded[a][r.job]
  BY NullAssumption DEF IsResult, Request, Journaled
<1>2. Reportable(a, r.job, r.body)
  BY <1>1 DEF JournalInv, SoundRecords
<1>3. WellFormed(r.body) /\ OwnedUnder(a, r.job, r.body.lease)
  BY <1>2 DEF Reportable, OwnedUnder, Owned, Registered, JournalInv, AllCapable
<1>4. r.body.lease # None
  BY NoneAssumption, <1>1 DEF SystemInv, AgentTypeOK, ResultBody, Leases
<1>5. CASE result[r.job] # None
  BY <1>1, <1>2, <1>3, <1>5 DEF JournalInv, JournaledResults, Reportable, ResultRepeated
<1>6. CASE result[r.job] = None
  <2>1. state[r.job] \notin Terminal
    BY <1>1, <1>2, <1>4, <1>6 DEF SystemInv, ControlInv, Row, ResultRow, Reportable
  <2> QED BY <1>3, <1>6, <2>1 DEF CanClose, Open
<1> QED BY <1>5, <1>6

\* No report of a result is ever refused, now or late, so none is retried for ever
\* (tick, result), if the data directory has one process.
THEOREM ReportsAccepted == Spec => [](OneProcess => ReportsAreAcceptable)
<1>1. SystemInv /\ JournalInv => ReportsAreAcceptable
  <2> SUFFICES ASSUME SystemInv, JournalInv PROVE ReportsAreAcceptable
    OBVIOUS
  <2>1. ASSUME NEW p \in Processes, call[p] # None
        PROVE  ReportIsAcceptable(Me(p), call[p])
    BY <2>1, JournaledIsAcceptable, IdentityAssumption
    DEF JournalInv, JournaledCalls, SystemInv, AgentTypeOK, Me
  <2>2. ASSUME NEW m \in late
        PROVE  ReportIsAcceptable(m.agent, m.request)
    BY JournaledIsAcceptable DEF JournalInv, JournaledLate, SystemInv, AgentTypeOK, LateRequest
  <2> QED BY <2>1, <2>2 DEF ReportsAreAcceptable
<1> QED BY <1>1, SystemInvariant, JournalInvariant, PTL

\* A process that has yet to record a result holds a job that is open and its own.
LEMMA HeldIsOpen ==
  ASSUME SystemInv, JournalInv, NEW p \in Processes, pc[p] \in Unrecorded
  PROVE  JobOf(p) \in ActiveOf(Me(p))
<1>1. /\ JobOf(p) \in Jobs /\ held[p].lease \in Leases /\ Exists(JobOf(p))
      /\ TargetOf(JobOf(p)) = Me(p) /\ lease[JobOf(p)] = held[p].lease
  BY Holding DEF Unrecorded, Executing, Mine, JobOf
<1>2. lease[JobOf(p)] # None
  BY <1>1, NoneAssumption DEF Leases
<1>3. result[JobOf(p)] = None
  BY <1>1 DEF JournalInv, Unwritten, JournaledResults, Recorded
<1>4. state[JobOf(p)] \notin Terminal /\ state[JobOf(p)] \notin Unassigned
  BY <1>1, <1>2, <1>3 DEF SystemInv, ControlInv, Row, LeaseRow, ResultRow
<1> QED BY <1>1, <1>4 DEF ActiveOf, SystemInv, ControlInv, ControlTypeOK, JobStates, Unassigned,
        Exists

\* While a recipe is watched the control plane counts the job as the agent's own
\* (claim, execute), if the data directory has one process.
THEOREM WatchedIsOpen == Spec => [](OneProcess => WatchedJobIsOpen)
<1>1. SystemInv /\ JournalInv => WatchedJobIsOpen
  BY HeldIsOpen DEF WatchedJobIsOpen, Unrecorded
<1> QED BY <1>1, SystemInvariant, JournalInvariant, PTL

-----------------------------------------------------------------------------
(* The contract of JobContract is implemented: every step of control plane *)
(* or agents is a step of the contract, or one it does not see.            *)

PhaseNow == [j \in Jobs |-> PhaseOf(state[j])]
LaunchedNow == [j \in Jobs |-> launches[j] > 0]

\* What each state of a row is in the contract.
LEMMA Phases ==
  /\ PhaseOf("ABSENT") = "new"
  /\ PhaseOf("WAITING_APPROVAL") = "held back"
  /\ PhaseOf("QUEUED") = "ready"
  /\ \A s \in Active : PhaseOf(s) = "assigned"
  /\ \A s \in Terminal : PhaseOf(s) = s
<1>1. /\ PhaseOf("ABSENT") = "new" /\ PhaseOf("WAITING_APPROVAL") = "held back"
      /\ PhaseOf("QUEUED") = "ready"
  BY DEF PhaseOf, Active
<1>2. ASSUME NEW s \in Active PROVE PhaseOf(s) = "assigned"
  BY DEF PhaseOf, Active
<1>3. ASSUME NEW s \in Terminal PROVE PhaseOf(s) = s
  BY DEF PhaseOf, Active, Terminal
<1> QED BY <1>1, <1>2, <1>3

\* A step that writes the state of one row moves that job alone.
LEMMA PhaseMoves ==
  ASSUME ControlTypeOK, NEW j \in Jobs, NEW s, state' = [state EXCEPT ![j] = s]
  PROVE  /\ PhaseNow' = [PhaseNow EXCEPT ![j] = PhaseOf(s)]
         /\ PhaseNow[j] = PhaseOf(state[j])
<1>1. \A i \in Jobs : state'[i] = IF i = j THEN s ELSE state[i]
  BY DEF ControlTypeOK
<1>2. PhaseNow' = [i \in Jobs |-> PhaseOf(IF i = j THEN s ELSE state[i])]
  BY <1>1 DEF PhaseNow
<1>3. PhaseNow' = [i \in Jobs |-> IF i = j THEN PhaseOf(s) ELSE PhaseOf(state[i])]
  BY <1>2
<1> QED BY <1>3 DEF PhaseNow

\* The steps the contract allows, in terms of the rows.
ContractMove(j, from, to) ==
  /\ PhaseNow[j] \in from
  /\ PhaseNow' = [PhaseNow EXCEPT ![j] = to]

\* Writing the state of one row is a move of the contract.
LEMMA RowMoves ==
  ASSUME ControlTypeOK, NEW j \in Jobs, NEW s, NEW from, NEW to,
         state' = [state EXCEPT ![j] = s], PhaseOf(state[j]) \in from, PhaseOf(s) = to
  PROVE  ContractMove(j, from, to)
BY PhaseMoves DEF ContractMove

\* The first launch of a job is seen as such.
LEMMA LaunchSeen ==
  ASSUME launches \in [Jobs -> Nat], NEW j \in Jobs, launches[j] = 0,
         launches' = [launches EXCEPT ![j] = 1]
  PROVE  ~LaunchedNow[j] /\ LaunchedNow' = [LaunchedNow EXCEPT ![j] = TRUE]
<1>1. \A i \in Jobs : (launches'[i] > 0) = (i = j \/ launches[i] > 0)
  OBVIOUS
<1>2. /\ DOMAIN LaunchedNow = Jobs
      /\ \A i \in Jobs : LaunchedNow[i] = (launches[i] > 0)
  BY Zenon DEF LaunchedNow
<1>3. \A i \in Jobs : (launches'[i] > 0) = (IF i = j THEN TRUE ELSE LaunchedNow[i])
  BY <1>1, <1>2, Zenon
<1>4. LaunchedNow' = [i \in Jobs |-> launches'[i] > 0]
  BY DEF LaunchedNow
<1>5. LaunchedNow' = [i \in Jobs |-> IF i = j THEN TRUE ELSE LaunchedNow[i]]
  BY <1>3, <1>4, Zenon
<1>6. [LaunchedNow EXCEPT ![j] = TRUE] = [i \in Jobs |-> IF i = j THEN TRUE ELSE LaunchedNow[i]]
  BY <1>2
<1>7. ~(launches[j] > 0)
  OBVIOUS
<1> QED BY <1>2, <1>5, <1>6, <1>7, Zenon

\* A job launched once is launched.
LEMMA OnceIsLaunched ==
  ASSUME launches \in [Jobs -> Nat], NEW j \in Jobs, launches[j] = 1
  PROVE  LaunchedNow[j]
<1>1. launches[j] > 0
  OBVIOUS
<1> QED BY <1>1, Zenon DEF LaunchedNow

\* Each of these is a step of the contract.
LEMMA ContractSteps ==
  ASSUME NEW j \in Jobs,
         \/ /\ \E to \in {"held back", "ready"} : ContractMove(j, {"new"}, to)
            /\ UNCHANGED <<LaunchedNow, cancelRequested>>
         \/ ContractMove(j, {"held back"}, "ready") /\ UNCHANGED <<LaunchedNow, cancelRequested>>
         \/ ContractMove(j, {"ready"}, "assigned") /\ UNCHANGED <<LaunchedNow, cancelRequested>>
         \/ /\ ContractMove(j, {"held back", "ready"}, "CANCELLED")
            /\ cancelRequested' \in {cancelRequested, [cancelRequested EXCEPT ![j] = TRUE]}
            /\ UNCHANGED LaunchedNow
         \/ /\ PhaseNow[j] = "assigned"
            /\ cancelRequested' = [cancelRequested EXCEPT ![j] = TRUE]
            /\ UNCHANGED <<PhaseNow, LaunchedNow>>
         \/ /\ PhaseNow[j] = "assigned"
            /\ ~LaunchedNow[j]
            /\ LaunchedNow' = [LaunchedNow EXCEPT ![j] = TRUE]
            /\ UNCHANGED <<PhaseNow, cancelRequested>>
         \/ \E o \in Terminal :
              /\ ContractMove(j, {"assigned"}, o)
              /\ o = "SUCCEEDED" => LaunchedNow[j] /\ ~cancelRequested[j]
              /\ UNCHANGED <<LaunchedNow, cancelRequested>>
  PROVE  Contract!ContractNext
BY DEF ContractMove, PhaseNow, LaunchedNow, Contract!ContractNext, Contract!Offer,
   Contract!Allow, Contract!Assign, Contract!Withdraw, Contract!AskToStop, Contract!LaunchOnce,
   Contract!Close, Contract!Move

\* The operator offers, allows, withdraws and asks to stop.
LEMMA OperatorContract ==
  ASSUME SystemInv, OperatorStep, UNCHANGED launches
  PROVE  [Contract!ContractNext]_(Contract!contractVars)
<1>. USE Phases DEF SystemInv, ControlInv
<1>. UNCHANGED LaunchedNow
  BY DEF LaunchedNow
<1>1. ASSUME NEW j \in Jobs, NEW g \in Goal, Submit(j, g)
      PROVE  Contract!ContractNext
  <2>1. /\ state' = [state EXCEPT ![j] = FirstState(g)] /\ state[j] = "ABSENT"
        /\ UNCHANGED cancelRequested
    BY <1>1 DEF Submit, Exists
  <2>2. PhaseOf(FirstState(g)) \in {"held back", "ready"}
    BY DEF FirstState
  <2>3. \E to \in {"held back", "ready"} : ContractMove(j, {"new"}, to)
    BY <2>1, <2>2, PhaseMoves DEF ContractMove
  <2> QED BY <2>1, <2>3, ContractSteps
<1>2. ASSUME NEW j \in Jobs, NEW plan \in Plan, NEW approve \in BOOLEAN, Approval(j, plan, approve)
      PROVE  Contract!ContractNext
  <2> DEFINE s == IF approve THEN "QUEUED" ELSE "CANCELLED"
  <2>1. /\ state' = [state EXCEPT ![j] = s] /\ state[j] = "WAITING_APPROVAL"
        /\ UNCHANGED cancelRequested
    BY <1>2 DEF Approval, Approvable
  <2>2. approve => PhaseOf(s) = "ready"
    OBVIOUS
  <2>3. ~approve => PhaseOf(s) = "CANCELLED"
    BY DEF Terminal
  <2> HIDE DEF s
  <2>4. /\ PhaseNow[j] = "held back"
        /\ PhaseNow' = [PhaseNow EXCEPT ![j] = PhaseOf(s)]
    BY <2>1, PhaseMoves
  <2>5. approve => ContractMove(j, {"held back"}, "ready")
    BY <2>2, <2>4 DEF ContractMove
  <2>6. ~approve => ContractMove(j, {"held back", "ready"}, "CANCELLED")
    BY <2>3, <2>4 DEF ContractMove
  <2> QED BY <2>1, <2>5, <2>6, ContractSteps
<1>3. ASSUME NEW j \in Jobs, Cancel(j)
      PROVE  Contract!ContractNext
  <2>1. /\ state' = [state EXCEPT ![j] = CancelledState(j)]
        /\ cancelRequested' = [cancelRequested EXCEPT ![j] = TRUE]
        /\ state[j] \notin Terminal /\ state[j] \in JobStates
    BY <1>3 DEF Cancel, Exists, ControlTypeOK
  <2>2. CASE state[j] \in {"QUEUED", "WAITING_APPROVAL"}
    <3>1. CancelledState(j) = "CANCELLED" /\ PhaseOf("CANCELLED") = "CANCELLED"
      BY <2>2 DEF CancelledState, Terminal
    <3>2. ContractMove(j, {"held back", "ready"}, "CANCELLED")
      BY <2>1, <2>2, <3>1, RowMoves
    <3> QED BY <2>1, <3>2, ContractSteps
  <2>3. CASE state[j] \in Active
    <3>1. state' = state
      BY <2>1, <2>3 DEF CancelledState, Active, ControlTypeOK
    <3>2. PhaseNow[j] = "assigned" /\ UNCHANGED PhaseNow
      BY <2>3, <3>1 DEF PhaseNow
    <3> QED BY <2>1, <3>2, ContractSteps
  <2> QED BY <2>1, <2>2, <2>3 DEF JobStates
<1> QED BY <1>1, <1>2, <1>3 DEF OperatorStep

\* The control plane assigns a job, and closes it with a success only if that is one.
LEMMA HandleContract ==
  ASSUME SystemInv, NEW a \in Agents, NEW r \in Request, Handle(a, r), UNCHANGED launches,
         IsResult(r) => Real(r.job, r.body)
  PROVE  [Contract!ContractNext]_(Contract!contractVars)
<1>. USE Phases DEF SystemInv, ControlInv
<1>. UNCHANGED LaunchedNow
  BY DEF LaunchedNow
<1>1. CASE UNCHANGED <<state, cancelRequested>>
  BY <1>1 DEF Contract!contractVars
<1>2. ASSUME NEW j \in Jobs, Dispatch(a, j)
      PROVE  Contract!ContractNext
  <2>1. /\ state' = [state EXCEPT ![j] = "DISPATCHED"] /\ state[j] = "QUEUED"
        /\ UNCHANGED cancelRequested
    BY <1>2 DEF Dispatch, Oldest, QueuedOf
  <2>2. ContractMove(j, {"ready"}, "assigned")
    BY <2>1, RowMoves DEF Active
  <2> QED BY <2>1, <2>2, ContractSteps
<1>3. ASSUME r.op = "progress", Progress(a, r.job, r.lease, r.sequence)
      PROVE  UNCHANGED Contract!contractVars
  <2>1. r.job \in Jobs /\ r.lease \in Leases
    BY <1>3 DEF Request
  <2>2. /\ state' = [state EXCEPT ![r.job] = "RUNNING"] /\ UNCHANGED cancelRequested
        /\ lease[r.job] # None /\ state[r.job] \notin Terminal /\ Exists(r.job)
    BY <1>3, <2>1, NoneAssumption DEF Progress, OwnedUnder, Owned, Streamable, Leases
  <2>3. state[r.job] \in Active
    BY <2>1, <2>2 DEF Row, LeaseRow, Unassigned, ControlTypeOK, JobStates, Exists
  <2>4. PhaseOf(state[r.job]) = "assigned" /\ PhaseOf("RUNNING") = "assigned"
    BY <2>3 DEF Active
  <2>5. ContractMove(r.job, {"assigned"}, "assigned")
    BY <2>1, <2>2, <2>4, RowMoves
  <2>6. PhaseNow' = PhaseNow
    BY <2>5 DEF PhaseNow, ContractMove
  <2> QED BY <2>2, <2>6 DEF PhaseNow, LaunchedNow, Contract!contractVars
<1>4. ASSUME r.op = "result", Result(a, r.job, r.body)
      PROVE  Contract!ContractNext
  <2> DEFINE o == Outcome(r.job, r.body)
  <2>1. r.job \in Jobs /\ r.body \in ResultBody /\ IsResult(r)
    BY <1>4, NullAssumption DEF Request, IsResult
  <2>2. /\ state' = [state EXCEPT ![r.job] = o] /\ UNCHANGED cancelRequested
        /\ lease[r.job] # None /\ state[r.job] \notin Terminal /\ Exists(r.job)
    BY <1>4, <2>1, NoneAssumption DEF Result, OwnedUnder, Owned, Open, ResultBody, Leases
  <2>3. state[r.job] \in Active
    BY <2>1, <2>2 DEF Row, LeaseRow, Unassigned, ControlTypeOK, JobStates, Exists
  <2>4. o \in Terminal
    BY <2>1 DEF Outcome, ResultBody, Terminal
  <2>5. o = "SUCCEEDED" => launches[r.job] = 1 /\ ~cancelRequested[r.job]
    BY <2>1 DEF Outcome, Real, Done
  <2> HIDE DEF o
  <2>6. ContractMove(r.job, {"assigned"}, o)
    BY <2>1, <2>2, <2>3, <2>4, RowMoves
  <2>7. launches[r.job] = 1 => LaunchedNow[r.job]
    BY <2>1, OnceIsLaunched DEF AgentTypeOK
  <2> QED BY <2>1, <2>2, <2>4, <2>5, <2>6, <2>7, ContractSteps
<1> QED BY <1>1, <1>2, <1>3, <1>4 DEF Handle, Heartbeat, controlVars, jobVars

\* A process launches a job that is assigned to its agent and was never launched;
\* nothing else it does is seen.
LEMMA ProcessContract ==
  ASSUME SystemInv, JournalInv, NEW p \in Processes, ProcessStep(p), UNCHANGED controlVars
  PROVE  [Contract!ContractNext]_(Contract!contractVars)
<1>1. UNCHANGED PhaseNow /\ UNCHANGED cancelRequested
  BY DEF PhaseNow, controlVars, jobVars
<1>2. CASE launches' = launches
  BY <1>1, <1>2 DEF PhaseNow, Contract!contractVars
<1>3. CASE Launch(p)
  <2> DEFINE j == JobOf(p)
  <2>1. /\ pc[p] \in Executing /\ launches[j] = 0
        /\ launches' = [launches EXCEPT ![j] = @ + 1]
    BY <1>3 DEF Launch, Executing, Launching, SystemInv, ProcessRows, LaunchingRow
  <2>2. j \in ActiveOf(Me(p))
    BY <1>3, HeldIsOpen DEF Launch, Unrecorded
  <2> HIDE DEF j
  <2>3. j \in Jobs /\ PhaseNow[j] = "assigned"
    BY <2>2, Phases DEF ActiveOf, PhaseNow
  <2>4. ~LaunchedNow[j] /\ LaunchedNow' = [LaunchedNow EXCEPT ![j] = TRUE]
    <3>1. launches' = [launches EXCEPT ![j] = 1]
      BY <2>1, <2>3
    <3> QED BY <2>1, <2>3, <3>1, LaunchSeen DEF SystemInv, AgentTypeOK
  <2> QED BY <1>1, <2>1, <2>3, <2>4, ContractSteps
<1> QED BY <1>2, <1>3, HostSteps

\* All steps together.
LEMMA SystemContract ==
  ASSUME SystemInv, JournalInv, RealInv, [Next]_vars
  PROVE  [Contract!ContractNext]_(Contract!contractVars)
<1>1. ASSUME UNCHANGED <<controlVars, launches>>
      PROVE  UNCHANGED Contract!contractVars
  BY <1>1 DEF Contract!contractVars, controlVars, jobVars
<1>2. CASE UNCHANGED vars
  BY <1>1, <1>2 DEF vars, agentVars, hostVars
<1>3. CASE Operate
  BY <1>3, OperatorContract DEF Operate, agentVars, hostVars
<1>4. CASE ServeLate
  <2>1. PICK m \in late : Handle(m.agent, m.request) /\ UNCHANGED agentVars
    BY <1>4 DEF ServeLate
  <2>2. m.agent \in Agents /\ m.request \in Request
    BY DEF SystemInv, AgentTypeOK, LateRequest
  <2> QED BY <2>1, <2>2, HandleContract DEF RealInv, RealLate, agentVars, hostVars
<1>5. CASE ChildEnds
  BY <1>1, <1>5 DEF ChildEnds, ChildExits
<1>6. ASSUME NEW p \in Processes, RunProcess(p)
      PROVE  [Contract!ContractNext]_(Contract!contractVars)
  BY <1>6, ProcessContract DEF RunProcess
<1>7. ASSUME NEW p \in Processes, Serve(p)
      PROVE  [Contract!ContractNext]_(Contract!contractVars)
  <2>1. Me(p) \in Agents /\ call[p] \in Request
    BY <1>7, IdentityAssumption DEF Me, Serve, SystemInv, AgentTypeOK
  <2> QED BY <1>7, <2>1, HandleContract DEF Serve, RealInv, RealCalls, hostVars
<1>8. ASSUME NEW p \in Processes, Restart(p) \/ Fault(p)
      PROVE  UNCHANGED Contract!contractVars
  BY <1>1, <1>8 DEF Restart, Start, Fault, GiveUp, Crash, Blocked, hostVars
<1> QED BY <1>2, <1>3, <1>4, <1>5, <1>6, <1>7, <1>8 DEF Next

\* Control plane and agents implement the contract of JobContract, if no two processes
\* share a data directory: whatever is lost, late or repeated and wherever agents die,
\* the operator sees jobs move, start and end as architecture.md promises.  (With two
\* processes a job may be launched after it was closed; see MCTwoProcesses.)
THEOREM ContractImplemented == ASSUME OneProcess PROVE Spec => ImplementsContract
<1>1. ASSUME Init
      PROVE  Contract!ContractInit
  <2>1. /\ state = [j \in Jobs |-> "ABSENT"] /\ launches = [j \in Jobs |-> 0]
        /\ cancelRequested = [j \in Jobs |-> FALSE]
    BY <1>1 DEF Init, ControlInit, AgentInit
  <2>2. [j \in Jobs |-> PhaseOf(state[j])] = [j \in Jobs |-> "new"]
    BY <2>1, Phases
  <2>3. \A j \in Jobs : (launches[j] > 0) = FALSE
    BY <2>1
  <2>4. [j \in Jobs |-> launches[j] > 0] = [j \in Jobs |-> FALSE]
    BY <2>3, Zenon
  <2> QED BY <2>1, <2>2, <2>4 DEF Contract!ContractInit
<1>2. Spec => []JournalInv
  <2>1. OneProcess
    OBVIOUS
  <2> QED BY <2>1, JournalInvariant, PTL
<1>3. SystemInv /\ JournalInv /\ RealInv /\ [Next]_vars =>
        [Contract!ContractNext]_(Contract!contractVars)
  BY SystemContract
<1> QED BY <1>1, <1>2, <1>3, SystemInvariant, RealInvariant, PTL
        DEF Spec, ImplementsContract, Contract!ContractSpec
=============================================================================
