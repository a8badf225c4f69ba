----------------------------- MODULE AgentRunner -----------------------------
(***************************************************************************)
(* The agent, agent.py: processes that run the tick loop, the execution    *)
(* journal of each agent's data directory, and the children they launch.   *)
(* A call to the control plane is a request in `call' that stays there     *)
(* until `reply' holds the answer or the process gives up waiting; who     *)
(* answers is JobSystem's business.                                        *)
(*                                                                         *)
(* Nothing in agent.py stops two processes from opening one data           *)
(* directory, so a process and the identity it runs under are different    *)
(* things here.                                                            *)
(***************************************************************************)
EXTENDS Protocol

CONSTANTS
  Processes,     \* operating system processes that run agent.py
  IdentityOf,    \* the agent whose data directory a process opens
  Transcript,    \* the evidence of a run that was watched to its end
  Interruption   \* the evidence of a run found interrupted

ASSUME IdentityAssumption == IdentityOf \in [Processes -> Agents]
ASSUME EvidenceAssumption == {Transcript, Interruption} \subseteq Evidence

VARIABLES
  pc,         \* where each process is in tick and execute
  held,       \* the job view its last claim returned
  verdict,    \* the outcome it is about to record
  sequence,   \* its next progress sequence
  call,       \* its outstanding request
  reply,      \* the answer to it
  journal,    \* rows of table executions, by agent: the jobs STARTED
  recorded,   \* the result column of those rows
  workspace,  \* the workspaces in each agent's data directory
  child,      \* the recipe process of each job
  launches    \* how often each job's recipe was launched

processVars == <<pc, held, verdict, sequence, call, reply>>
hostVars == <<journal, recorded, workspace, child, launches>>
agentVars == <<processVars, hostVars>>

Watching == {"run", "progress", "poll", "reap"}
Waiting == {"beat", "claim", "progress", "poll", "report"}
Locations == {"down", "tick", "lookup", "fresh", "started", "prepared",
              "record"} \cup Watching \cup Waiting

Request ==
  [op : {"heartbeat", "claim"}] \cup [op : {"poll"}, job : Jobs]
  \cup [op : {"progress"}, job : Jobs, lease : Leases, sequence : Sequences]
  \cup [op : {"result"}, job : Jobs, body : ResultBody]

\* The columns of job_view the agent reads.  NoJob is the answer null, and the
\* answers that carry no job; an HTTP error takes the agent the same way.
JobView == [job : Jobs, lease : Leases, cancel : BOOLEAN]
NoJob == [job |-> None, lease |-> None, cancel |-> FALSE]

Verdict == [state : Terminal, exit : {0, 1}, evidence : Evidence]

ASSUME NullAssumption ==
  None \notin Request /\ None \notin JobView /\ None \notin Verdict

AgentInit ==
  /\ pc = [p \in Processes |-> "down"]
  /\ held = [p \in Processes |-> NoJob]
  /\ verdict = [p \in Processes |-> None]
  /\ sequence = [p \in Processes |-> 0]
  /\ call = [p \in Processes |-> None]
  /\ reply = [p \in Processes |-> None]
  /\ journal = [a \in Agents |-> {}]
  /\ recorded = [a \in Agents |-> [j \in Jobs |-> None]]
  /\ workspace = [a \in Agents |-> {}]
  /\ child = [j \in Jobs |-> "unborn"]
  /\ launches = [j \in Jobs |-> 0]

Me(p) == IdentityOf[p]
JobOf(p) == held[p].job
Recorded(p) == recorded[Me(p)][JobOf(p)]

Goto(p, l) == pc' = [pc EXCEPT ![p] = l]
Send(p, r) == call' = [call EXCEPT ![p] = r]
HangUp(p) == /\ call' = [call EXCEPT ![p] = None]
             /\ reply' = [reply EXCEPT ![p] = None]
Answered(p) == reply[p] # None
Forget(p) == /\ held' = [held EXCEPT ![p] = NoJob]
             /\ verdict' = [verdict EXCEPT ![p] = None]
             /\ sequence' = [sequence EXCEPT ![p] = 0]

-----------------------------------------------------------------------------
(* main and tick: heartbeat, claim, execute, report, and again.            *)

Start(p) ==
  /\ pc[p] = "down"
  /\ Goto(p, "tick")
  /\ UNCHANGED <<held, verdict, sequence, call, reply, hostVars>>

Tick(p) ==
  /\ pc[p] = "tick"
  /\ Goto(p, "beat")
  /\ Send(p, [op |-> "heartbeat"])
  /\ UNCHANGED <<held, verdict, sequence, reply, hostVars>>

Beaten(p) ==
  /\ pc[p] = "beat"
  /\ Answered(p)
  /\ Goto(p, "claim")
  /\ Send(p, [op |-> "claim"])
  /\ reply' = [reply EXCEPT ![p] = None]
  /\ UNCHANGED <<held, verdict, sequence, hostVars>>

Claimed(p) ==
  /\ pc[p] = "claim"
  /\ Answered(p)
  /\ held' = [held EXCEPT ![p] = reply[p]]
  /\ Goto(p, IF reply[p].job = None THEN "tick" ELSE "lookup")
  /\ HangUp(p)
  /\ UNCHANGED <<verdict, sequence, hostVars>>

\* The body of a result: it carries the lease of the view that was executed.
ResultWithoutLease(p, v) ==
  [lease |-> None, state |-> v.state, exit |-> v.exit,
   evidence |-> v.evidence, intact |-> TRUE]
ResultOf(p, v) ==
  [lease |-> held[p].lease, state |-> v.state, exit |-> v.exit,
   evidence |-> v.evidence, intact |-> TRUE]
SendResult(p, b) ==
  Send(p, [op |-> "result", job |-> JobOf(p), body |-> b])

\* The answer is only looked at for errors, and an error is only logged.
Reported(p) ==
  /\ pc[p] = "report"
  /\ Answered(p)
  /\ Goto(p, "tick")
  /\ HangUp(p)
  /\ Forget(p)
  /\ UNCHANGED hostVars

-----------------------------------------------------------------------------
(* execute: the journal decides, and is committed before any side effect.  *)

LookupOfRowOnly(p) == IF JobOf(p) \in journal[Me(p)] THEN "record" ELSE "fresh"
Lookup(p) ==
  IF JobOf(p) \notin journal[Me(p)] THEN "fresh"
  ELSE IF Recorded(p) # None THEN "report" ELSE "record"

InterruptedAsDone == [state |-> "SUCCEEDED", exit |-> 0, evidence |-> Interruption]
Interrupted == [state |-> "FAILED", exit |-> 1, evidence |-> Interruption]

\* A recorded result is returned as it is; a row without one is a run that was
\* interrupted, and is never repeated.
ConsultJournal(p) ==
  /\ pc[p] = "lookup"
  /\ Goto(p, Lookup(p))
  /\ IF Lookup(p) = "report" THEN SendResult(p, Recorded(p)) ELSE UNCHANGED call
  /\ verdict' = [verdict EXCEPT ![p] =
       IF Lookup(p) = "record" THEN Interrupted ELSE None]
  /\ UNCHANGED <<held, sequence, reply, hostVars>>

\* Less than 10 GB free, a workspace without a journal row, or a row that another
\* process inserted meanwhile: the exception ends the process.
Blocked(p) ==
  /\ pc[p] = "fresh"
  /\ Goto(p, "down")
  /\ Forget(p)
  /\ UNCHANGED <<call, reply, hostVars>>

Insertable(p) == JobOf(p) \notin workspace[Me(p)] \cup journal[Me(p)]

InsertAfterRun(p) ==
  /\ pc[p] = "fresh"
  /\ Goto(p, "started")
  /\ UNCHANGED <<held, verdict, sequence, call, reply, hostVars>>

InsertJournal(p) ==
  /\ pc[p] = "fresh"
  /\ Insertable(p)
  /\ journal' = [journal EXCEPT ![Me(p)] = @ \cup {JobOf(p)}]
  /\ Goto(p, "started")
  /\ UNCHANGED <<held, verdict, sequence, call, reply, recorded, workspace,
                 child, launches>>

MakeWorkspace(p) ==
  /\ pc[p] = "started"
  /\ workspace' = [workspace EXCEPT ![Me(p)] = @ \cup {JobOf(p)}]
  /\ Goto(p, "prepared")
  /\ UNCHANGED <<held, verdict, sequence, call, reply, journal, recorded,
                 child, launches>>

Launch(p) ==
  /\ pc[p] = "prepared"
  /\ child' = [child EXCEPT ![JobOf(p)] = "alive"]
  /\ launches' = [launches EXCEPT ![JobOf(p)] = @ + 1]
  /\ Goto(p, "run")
  /\ UNCHANGED <<held, verdict, sequence, call, reply, journal, recorded,
                 workspace>>

-----------------------------------------------------------------------------
(* The watching loop: stream, check the time, poll, look for the exit.     *)

Stream(p) ==
  /\ pc[p] = "run"
  /\ sequence[p] \in Sequences
  /\ Goto(p, "progress")
  /\ Send(p, [op |-> "progress", job |-> JobOf(p), lease |-> held[p].lease,
              sequence |-> sequence[p]])
  /\ UNCHANGED <<held, verdict, sequence, reply, hostVars>>

Streamed(p) ==
  /\ pc[p] = "progress"
  /\ Answered(p)
  /\ Goto(p, "run")
  /\ sequence' = [sequence EXCEPT ![p] = @ + 1]
  /\ HangUp(p)
  /\ UNCHANGED <<held, verdict, hostVars>>

\* The finally clause: the process group is gone before the result is made.
ChildAfter(p) == IF child[JobOf(p)] = "alive" THEN "killed" ELSE child[JobOf(p)]
Conclude(p, s) ==
  /\ Goto(p, "record")
  /\ child' = [child EXCEPT ![JobOf(p)] = ChildAfter(p)]
  /\ verdict' = [verdict EXCEPT ![p] =
       [state |-> s, exit |-> IF ChildAfter(p) = "done" THEN 0 ELSE 1,
        evidence |-> Transcript]]

Overrun(p) ==
  /\ pc[p] = "run"
  /\ Conclude(p, "TIMED_OUT")
  /\ UNCHANGED <<held, sequence, call, reply, journal, recorded, workspace,
                 launches>>

\* At most one poll per second: an iteration may go without.
Poll(p) ==
  /\ pc[p] = "run"
  /\ Goto(p, "poll")
  /\ Send(p, [op |-> "poll", job |-> JobOf(p)])
  /\ UNCHANGED <<held, verdict, sequence, reply, hostVars>>

SkipPoll(p) ==
  /\ pc[p] = "run"
  /\ Goto(p, "reap")
  /\ UNCHANGED <<held, verdict, sequence, call, reply, hostVars>>

Polled(p) ==
  /\ pc[p] = "poll"
  /\ Answered(p)
  /\ HangUp(p)
  /\ IF reply[p].cancel
     THEN Conclude(p, "CANCELLED")
     ELSE Goto(p, "reap") /\ UNCHANGED <<child, verdict>>
  /\ UNCHANGED <<held, sequence, journal, recorded, workspace, launches>>

ExitStateIgnored(p) == "SUCCEEDED"
ExitState(p) == IF child[JobOf(p)] = "done" THEN "SUCCEEDED" ELSE "FAILED"

Reap(p) ==
  /\ pc[p] = "reap"
  /\ IF child[JobOf(p)] = "alive"
     THEN Goto(p, "run") /\ UNCHANGED <<child, verdict>>
     ELSE Conclude(p, ExitState(p))
  /\ UNCHANGED <<held, sequence, call, reply, journal, recorded, workspace,
                 launches>>

\* record_result: the result is committed to the journal, then reported.
Record(p) ==
  /\ pc[p] = "record"
  /\ recorded' = [recorded EXCEPT ![Me(p)][JobOf(p)] = ResultOf(p, verdict[p])]
  /\ Goto(p, "report")
  /\ SendResult(p, ResultOf(p, verdict[p]))
  /\ UNCHANGED <<held, verdict, sequence, reply, journal, workspace, child,
                 launches>>

-----------------------------------------------------------------------------
(* What goes wrong.                                                        *)

\* No answer came in time, or the connection broke: progress and poll carry on,
\* every other call ends the tick.
GiveUp(p) ==
  /\ pc[p] \in Waiting
  /\ HangUp(p)
  /\ CASE pc[p] = "progress" ->
            /\ Goto(p, "run")
            /\ sequence' = [sequence EXCEPT ![p] = @ + 1]
            /\ UNCHANGED <<held, verdict>>
       [] pc[p] = "poll" ->
            Goto(p, "reap") /\ UNCHANGED <<held, verdict, sequence>>
       [] OTHER -> Goto(p, "tick") /\ Forget(p)
  /\ UNCHANGED hostVars

\* The process dies.  The recipe runs in a session of its own: it dies too when
\* the host goes down or a finally clause still runs, and survives otherwise.
Crash(p) ==
  /\ pc[p] # "down"
  /\ Goto(p, "down")
  /\ Forget(p)
  /\ HangUp(p)
  /\ \/ UNCHANGED child
     \/ /\ pc[p] \in Watching
        /\ child[JobOf(p)] = "alive"
        /\ child' = [child EXCEPT ![JobOf(p)] = "killed"]
  /\ UNCHANGED <<journal, recorded, workspace, launches>>

\* The recipe ends by itself, watched or not.
ChildExits(j) ==
  /\ child[j] = "alive"
  /\ \E s \in {"done", "failed"} : child' = [child EXCEPT ![j] = s]
  /\ UNCHANGED <<processVars, journal, recorded, workspace, launches>>

-----------------------------------------------------------------------------
\* What a process does on its own, without a fault.
ProcessStep(p) ==
  \/ Tick(p) \/ Beaten(p) \/ Claimed(p) \/ Reported(p)
  \/ ConsultJournal(p) \/ InsertJournal(p) \/ MakeWorkspace(p) \/ Launch(p)
  \/ Stream(p) \/ Streamed(p) \/ Overrun(p) \/ Poll(p) \/ SkipPoll(p)
  \/ Polled(p) \/ Reap(p) \/ Record(p)
=============================================================================
