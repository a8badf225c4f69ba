# OIDA Next: specifications, model checking and proofs

OIDA Next is a control plane (FastAPI and one SQLite file) that hands fixed
recipes to agents on other machines, with an operator who approves risky work,
and that distributes AI-made delivery plans to four module services.  This
directory holds TLA+ specifications of it, written from the source, the TLC
configurations that check them on small instances, and TLAPS proofs.

## 1. Inventory

| Component | State | Operations | Hard because |
|---|---|---|---|
| Job table, `control.py:355-619` | tables `jobs`, `agents`, `progress`, `events` | submit, approve or reject, cancel; register, heartbeat, claim, progress, result | requests of operator and agents in any order, repeated deliveries, results that race a cancellation |
| Agent, `agent.py` | table `executions`, the workspaces, one recipe process | tick (heartbeat, claim, execute, report), execute, record_result | crash between any two of journal, workspace, launch and result; lost answers; two processes on one directory |
| Job lifecycle (both) | the two above, and requests in flight | the composition | a request is handled after its sender gave up; the agent acts on an old view |
| Agent requests, `control.py:253-276`, `security.py` | table `nonces` | signature, clock window, nonce, purge | the clock is read before the transaction, which waits for a lock |
| Operator, `control.py:88-98, 180-341` | tables `settings`, `sessions`, the failures per peer in memory | setup, login, logout, session check | a slow password hash between reading and writing the failures, in a thread pool |
| Enrollment tokens, `control.py` | table `enrollment` | issue, use once, expire | two agents with one token, an agent that dies while it registers |
| Agent launcher, `control.py:130-173` | a process handle in memory, the file `identity.enc` | make or read the key, enroll, start the local agent at login | check and start in a thread pool; a control plane that restarts beside its agent; a key file made in two steps |
| AI drafts, `ai_workflow.py` | tables `ai_drafts`, `ai_draft_items`, `ai_verifications`; background tasks | create, generate, retry, edit, approve, approve a revision, verify | handlers that await remote calls, partial failure, retries, restarts |
| AI runtime, `ai_runtime.py` | provider settings | configure, generate a plan | settings read in three transactions |
| Orchestrations, `identity_bridge.py:265-545` | tables `orchestrations`, `orchestration_targets` | create or repeat an orchestration | the same key twice at once, checkpoints across awaits |
| Identity sessions, `identity_bridge.py:97-225` | connections and attempts in memory, by operator session | establish, look up, prune, disconnect, pair | a logout in a thread during the await of establish or the walk of prune |
| Ecosystem, `ecosystem.py`, `identity_bridge.py:632-662` | projects, links, work, references, events | create, map, attach, link, import | sequences that move a mapping; imports that wait for the same list |
| Planner and models (`models.py`), gateway, pairing and client (`module_*.py`), web interface, scripts | none, or none of their own | look-ups, proxying, rendering | not hard in this sense |

How they interact.  Operator and agents reach the job table by HTTP only; every
handler is one `BEGIN IMMEDIATE` transaction, so handlers are atomic and their
order is the only freedom.  Agent requests are signed and carry a nonce, so one
whose timestamp is not too far ahead is acted on at most once (`OnceUnlessAhead`),
and possibly after the agent stopped waiting.  The agent writes its own journal and learns of a cancellation only by polling.  The AI and
orchestration handlers are coroutines on one event loop: atomic between two
`await`s, and interleaved at them.

What makes each correct, in a sentence.  Job table: one job per agent, the
approval gate, one result per lease, closed means closed, an audit trail that
tells the truth.  Agent: never launch twice, never report what did not happen.
Lifecycle: a job is launched only while it is assigned, and every queued job is
closed in the end.  AI drafts: what is created is what the operator reviewed, one
writer per draft, APPROVED means a record for all that was asked for, only a lost
answer duplicates.
Orchestrations: a row says what the modules have, a retry continues where the last
request stopped.  Agent requests: a signed request is acted on once, if its timestamp is at
most 50 seconds ahead, and twice otherwise.  Login: the throttle counts what failed, one agent on a data directory, one key for a token.
Sessions: good for their hour, and after a logout neither the session nor its
identity is left.  Ecosystem: a link never moves, and the events tell of it once.

## 2. Modules

| Module | Models | How it corresponds to the code |
|---|---|---|
| `Protocol` | `protocol.py`: the messages and states both sides share | hashes are what they identify |
| `ControlJobs` | the job table | columns of `jobs` are variables; one action per handler: `Submit`, `Approval`, `Cancel`, `Register`, `Heartbeat`, `Dispatch` (claim), `Progress`, `Result` |
| `AgentRunner` | the agent | `pc` is the place in `tick` and `execute`; the journal is `journal` (rows) and `recorded` (their result); each statement that commits, sends or launches is an action |
| `JobContract` | the abstract specification of a job: offered, allowed, assigned, launched once, closed | `docs/architecture.md`, Lifecycle, as the code keeps it |
| `JobSystem` | `ControlJobs` and `AgentRunner` with requests between them | `Serve` handles a request whose sender waits, `ServeLate` one whose sender gave up; `Fault` is a lost answer, a crash or a blocked start |
| `AIDraft` | drafts, their generation, distribution and full-loop checks | `run[h]` is the frame of a coroutine that serves an approval or a check: the local variables it carries across `await`; its `todo` is the set of items left, served in the order of the code's loops (`Before`, `First`); a row is under its `Key`, which two items of one title can share; `made` has the items that rows were made of |
| `Orchestration` | one orchestration over four modules, its checkpoints and its retries | `run[h]` is the frame of a request: the modules left, and `partial` as the number of stages recorded in it |
| `AgentRequests` | `agent_auth`: clock check, purge and insertion of nonces | `checking` is the request that waits for the lock; `nonces` has the time of a row; the handler behind it is `Handle`; `ahead` records the requests whose timestamp was further ahead than `Margin` when they were admitted |
| `OperatorLogin` | setup, the throttle, the key file, the launcher and enrollment | `at` is the place of a login in its thread, one action for each statement that reads or writes what threads share; `process` is the local agent it started |
| `OperatorSession` | sessions, and the identity kept with each | `Arrive` is the dependency `operator`; `at` is whether a request has begun, awaits the account service, or deleted its session and has still to drop the identity |
| `Ecosystem` | projects, links, work, references and the import of projects | one action per handler; `run[h]` is an import that awaits the list of projects; `told` counts the rows of `events` by what they say |
| `*Proofs` | theorems and proofs about `ControlJobs`, `JobSystem`, `AIDraft`, `Orchestration`, `AgentRequests`, `OperatorLogin`, `OperatorSession`, `Ecosystem` | section 5 |
| `MC*` | the instances | section 3 |

`JobSystem` extends both machines and adds only what lies between them.  It
implements `JobContract` under the refinement mapping of its instance `Contract`:
a job's phase is its state with DISPATCHED and RUNNING as one, `launched` is
whether its recipe ever was.  Two assumptions of it are the subject of modules of
their own: that a request is handled at most once, which holds while the agent's
clock is no more than 50 seconds ahead, is `AgentRequests!OnceUnlessAhead`; how two
processes come to share a data directory is in `OperatorLogin`.

Abstractions.  Hashes: a request hash is the request, an action hash the plan, a
checksum whether it matches, a plan hash the plan.  Leases are fresh random
tokens: the n-th is n.  `lease_until` is written and read nowhere, and left out.
Evidence is a member of a small set and redaction a function on it.  Exit codes
are zero or not.  Time is left out: an overrun or a lost answer can come at any
moment.  `created` is the position in the order of submission.  In `AIDraft` an
item of a plan is a title and a body; what one item needs of remote calls inside
its module is one call, and a QA suite with its script and cases is a run of
items.  Rows have the keys of the code: an item has one of its own by its place in
the plan, but for the update of a task or a requirement by a revision, which is
keyed by the record it updates (`ai_workflow.py:584, 651`).  The record is known by
the parent's item that made it, and that is found by its title; `validate_plan`
admits equal titles, of which the code finds the last (`Prior`).

The restart of the control plane needs no action in `JobSystem`: its
state is in the database and every handler is one transaction, so a crash in a
handler is a lost request or a lost answer.  A full-loop check reads the modules
and appends a report that no handler reads: what it reports is left out, whether
it can report at all is not.  `AgentRequests`, `OperatorLogin` and
`OperatorSession` have a clock, since expiry is their subject; its unit is of any
length, and the windows are constants.  A password is right or wrong, a signature
there or not, a token or session a value nobody else has.  All logins are of one
peer, since the failures of each are kept apart.

## 3. Runs

| Run | Configuration | Shows |
|---|---|---|
| `control` | 2 jobs, 2 agents, 2 keys, 2 recipes, 2 cancellations per job, one chunk | the job table holds `OneActivePerAgent`, `ApprovalGate`, `ResultClosesLease`, `SuccessIsEarned`, `AuditTrailReplays` and `ClosedIsForever` against callers that send anything |
| `system` | 2 jobs behind one agent, a risky recipe, 1 fault | `LaunchIsLicensed`, `AtMostOneLaunch`, `SuccessIsReal`, `ResultIsJournaled`, `ReportsAreAcceptable`, `WatchedJobIsOpen`, that the whole implements `JobContract`, and `QueuedJobCloses` |
| `drafts` | 2 drafts, 2 plans, 2 modules, a revision with two changes of one task, 2 approvals or checks in flight, 1 lost answer, 1 restart | `OneWriter`, `DeliveredIsReviewed`, `ApprovedIsComplete`, `OnlyLossesDuplicate` |
| `revisions` | 3 drafts in a chain, tasks with one title, 1 module, 1 approval in flight, nothing lost | `DistributionSettles` |
| `orchestration` | 1 key, 3 requests of which 2 in flight, 2 modules of 2 and 3 stages, 1 unusable answer, 1 restart | `RowsAreReal`, `RetriesContinue`, `RetainedUnlessRaced` |
| `interrupted_without_crash` | 2 processes, no fault | finding 1 |
| `revision_check` | 2 drafts, 1 check in flight, nothing lost | finding 2 |
| `replayed_request` | 1 request and its copies, windows 6 and 12, lock 1, skew 6 | finding 3 |
| `requests` | 2 requests and their copies, a clock of 16 units, windows 3 and 6, lock 2, skew 4 | `OnceUnlessAhead`, `TwiceAtMost`, `Remembered` |
| `ecosystem` | 2 projects, 2 external ones in 2 applications of which 1 can be imported from, 1 piece of work, 1 job, 2 imports in flight | `OneProjectPerExternal`, `AnswersStayTrue`, `ToldOnce`, `NothingMoves` |
| `login` | 4 logins in 3 threads, 1 token of the route, 2 remote keys, a limit of 1 failure, 1 fault | `ThrottleIsExact`, `ThrottleIsBounded`, `OneLocalAgent`, `UnlockFailsOnlyRaced`, `RegisteredOnce` |
| `session` | 2 sessions, 3 requests, 1 module to pair, a limit of 2 attempts, 1 restart | `AttemptsAreBounded`, `LogoutDropsIdentity`, `SessionLasts` |

Bounds, and why they are enough.
- Two jobs are what it takes for one agent to hold one while another waits, and
  two agents for a job to be somebody else's.  A third job of one agent waits as
  the second does.  Two keys let a key be used again.
- `MaxFaults` bounds lost answers, crashes and blocked starts of a behaviour.
  With two jobs one fault already lets a late claim or a late result meet the
  next job; a crash after the journal row and the report that follows it are one
  fault too.  Behaviours with several faults, and with several processes on one
  data directory, are left to the proofs (section 5), which cover all the safety
  properties of `system` for any number of them.
- `system` has a risky recipe only: another one differs in that its jobs begin
  QUEUED, as a risky one does that is approved at once, and in nothing else; both
  together are in `control`.  `MCNamedInOrder` names jobs and keys in the order of
  their submission.  Jobs are fresh identifiers and keys are only compared, and a
  submission under a used key returns the old job or is refused, so every
  behaviour is one of these but for its names.  A constraint could hide a liveness
  violation if it cut what is fair; this one only leaves out submissions, to which
  no fairness applies, and a behaviour under it can always go on without them.
- `MaxSequence` 0 is one chunk per run: a repeated, a late and a fresh chunk all
  occur, since a process that gives up counts on.
- `MaxCancels` bounds the audit trail: the code lets the operator cancel an
  assigned job again and again, each time with an event; two requests per job are
  one that matters and one repeated.  In the composed runs one is enough, as a
  repeated one changes nothing but the trail.
- `MaxLosses` and `MaxRestarts` are 1 for drafts: one lost answer is what makes a
  second creation possible, and after a restart a distribution is never taken up
  again, so a second restart repeats the first.
- Two drafts are a draft and its revision; the third in `revisions` is a revision
  of a revision.  Two modules are what a partial distribution needs; `infra` is
  one of them because a revision compares it as a whole and its origin may be unset.
  In `drafts` the second plan has two tasks of the title the first has once: a
  revision then has two items under one key.  In `revisions` the first plan has two
  tasks of one title (`MCTwins`): the unchanged one is then an update of the other.
  `MCNamedInOrder` names drafts in the order they are created.
- One orchestration, as keys share nothing.  Three requests are two that race and
  one that resumes from what the race left.  `raced`, a history variable, says
  for which keys two requests were in flight at once.
- `requests`: timestamps are up to one unit further from the clock than the window,
  on either side, so all that the clock check tells apart is there: too old, good,
  good but further ahead than the margin (one unit), too far ahead.  The clock runs
  long enough for a nonce to be purged while copies of its request are still about.
  `replayed_request` has the proportions of the code: a nonce is kept for two
  windows, and the lock is a fraction of one.
- `login`: two threads race for the agent and its key.  Three are the fewest in
  which a list stored late forgets failures that others recorded (see the limits
  below), and a fourth login is let in by what was forgotten; it also comes after
  the others, or after a restart.  The windows are short, so that failures and
  tokens expire within one unit, and one fault is a restart or an agent that dies.
- `session`: with a limit of two a third request meets it; two sessions are what
  it takes to try to escape a limit that is global, and an hour of two units
  lets a session expire while a request of another purges it.
- `ecosystem`: two projects that want one external project, and two external
  projects that want one project; `MaxChanges` bounds the events of the two
  handlers that write one on each call.

Symmetry is used in safety runs over jobs, keys, agents, drafts and handlers, whose
values the specifications only compare; so too for requests, logins, sessions,
projects and external projects.  Runs with a liveness property use none.  Deadlock is
checked in every run of the job system, of `requests` and of `ecosystem`; it is not
for drafts and orchestrations, which really rest when all drafts are approved and
no request is under way, nor for `login` and `session`, where every login and
request comes to its end.

Fairness.  `JobSystem!FairSpec` has weak fairness for each process's loop (an
operating system schedules it, and `Restart` is the service manager's
restart-on-failure or the operator's), for serving a request that is waited for
(the control plane is a running server), and for the recipes (each is a finite
script, and the agent kills it after its timeout).  The operator promises nothing
and a late request may never arrive.  The number of faults is finite in a
behaviour, so what is shown is: once faults stop, the queue drains.
`AIDraft!FairSpec` has weak fairness for each handler only: the event loop runs
what can run, and `module_json` gives every remote call 30 seconds.

## 4. Findings

1. `interrupted_without_crash`.  `docs/architecture.md:32` says a job is reported
   FAILED "After a crash with uncertain STARTED work".  `unlock_local_agent`
   (`control.py:133`) checks for a process and starts one in two steps of a
   handler in a thread pool, and a restarted control plane forgets the agent it
   started; the agent does not lock its data directory.  A second process then
   claims the job the first is running, finds its row, and closes it as
   interrupted while the recipe goes on.  `LaunchedOnce` and `SuccessesAreReal`
   prove what still holds: no second launch, and no success that is not one.
   `OneAgentUnlessRaced` proves that nothing else leads there: one agent at most,
   unless two unlocks overlap or an agent outlives its control plane.
2. `revision_check`.  `docs/overnight-handoff.md:71` says "Approved revisions now
   expose their own `Run full-loop check`", and `docs/operator-guide-th.md:25` tells
   the operator to run it on every revision.  `_verify_infra`
   (`ai_workflow.py:804-805`) looks for the design among the revision's own items;
   a revision that leaves the infrastructure unchanged, or is approved without that
   module, has none (`ai_workflow.py:666`).  The IndexError is none of the exceptions
   `_safe_check` turns into UNAVAILABLE, so the check ends with a server error and
   stores nothing.

3. `replayed_request`.  `docs/security.md:8` says "Signed timestamp/nonce/body
   requests prevent replay", and `docs/architecture.md:26` "The server allows 60
   seconds clock skew, atomically rejects nonce reuse".  A timestamp 60 seconds
   ahead is accepted (`control.py:261`), and its window ends 120 seconds later, which
   is when its nonce may be purged (`control.py:272`).  The window is checked before
   the transaction and the purge made in it, after a wait for the database lock of
   up to 10 seconds.  So a copy of a request stamped more than 50 seconds ahead,
   checked just before its window ends, can purge the nonce of the first and be
   handled again.  `ActedOnOnce` proves that no other request is, `ActedOnTwiceAtMost`
   that this happens once.  What a second handling does: the job table's theorems
   hold, as they are for callers that send anything in any order; what `JobSystem`
   says of agents presupposes it does not happen.

Limits met while modelling, which the properties are worded around.
- A retry creates an item again whose answer was lost (`ai_workflow.py:332`), in
  spite of the message in `web/ecosystem.js:153`.  `OnlyLossesDuplicate` shows that
  nothing else does.
- A draft stays GENERATING when its background task dies with the process or of
  an answer of a shape `ai_runtime.py:214` does not expect; `retry-generation`
  accepts FAILED only (`GenerationDies`, `Restart`).
- Two requests for one orchestration key can replace a CREATED target by the
  other's failure (`identity_bridge.py:535`).  `RetainedUnlessRaced` shows that
  nothing else does.
- A logout drops the identity unless another request of the session is in flight,
  which can store one afterwards (`identity_bridge.py:213`); it lasts an hour at
  most and only its session could use it, which is gone.  `LogoutDropsIdentity`
  shows that nothing else keeps one.
- The login throttle is exact for logins one after the other.  Beside each other
  they all pass the check before one fails, so each further thread adds a failure
  to the ten.  More than that takes a restart, or a login that stores the list it
  filtered before others recorded their failures (`control.py:300`):
  those are forgotten, and further logins pass.  The history variable `lost` says
  whether a failure that counts was ever forgotten; `ThrottleIsBounded` is the
  bound while none was.  Without that condition TLC finds it violated in `login`.

- A revision finds what it changes by its title, and titles may repeat
  (`ai_workflow.py:571, 631`).  Of two changes of one record only the first is
  carried out: the second finds its key CREATED and is skipped (`:584`), and the
  revision is APPROVED.  If the parent has two items of one title, the last is
  taken for both, so an item that did not change overwrites the other's record.
  `ApprovedIsComplete` therefore says that each item's key has a record made of an
  item the approval asked for, of that very item unless it is an update.  TLC finds
  the stronger form, that each change is carried out, violated in `drafts`.
- A draft stays DISTRIBUTING, which no handler accepts, after a restart, when a
  revision of a revision looks for records its parent does not have (`:564`), when
  an answer has another shape, or when the origin of `document` or `infra` is unset
  (`identity_bridge.py:234` raises before anything is sent; `Unsent`).
  `DistributionSettles` shows for pm, whose origin is always set, that without
  these a draft and its revision settle, whatever calls fail.
- A revision that is approved module by module is APPROVED although a module that
  was not selected last has FAILED items; `ai_workflow.py:449-455` lets those be
  approved again.  `ApprovedIsComplete` is about the modules selected last.

## 5. Proofs

Every invariant and every action property that a passing run checks is a theorem here.

`ControlJobsProofs` proves, for any number of jobs, agents, keys, recipes and
leases, `ControlSpec => []P` for the type invariant, `OneActivePerAgent`,
`ApprovalGate`, `ResultClosesLease` and `SuccessIsEarned`, and
`ControlSpec => ClosedIsForever`.  Most are not inductive alone: that a result
closes a lease needs that an active job has a lease and an unassigned one has
none, and the gate needs that a queued job was already approved.  The inductive
invariant `ControlInv` is the type invariant, four facts about each row
(`LeaseRow`, `ResultRow`, `GateRow`, `SuccessRow`) and `OneActivePerAgent`, the
only fact about two rows.  Each action has a lemma; rows it does not touch go
through `UntouchedRow`.  `ClosedIsForever` is an action property that follows
from a step of any action from a state of `ControlInv`.

`AuditTrailReplays` is about a recursive function on the trail.  `Story(f, trail)`
says that `f` assigns to each prefix the state read off it; `OneStory` shows by a
least counterexample that there is at most one, so `Replay` is what any story says
(`ReplayTold`), and `TellsMore` extends one by an event.  Then each action adds to a
trail exactly what leads from the old state of its job to the new one.

`JobSystemProofs` proves, for any number of processes, data directories, faults
and late requests, `Spec => []P` for `TypeOK`, `AtMostOneLaunch` and
`LaunchIsLicensed`.  The inductive invariant `SystemInv` adds to `ControlInv`:
what a process holds is an existing job of its own agent under the lease in force
(`HeldRow`); so is what an answer on its way to it gives it, and a poll names the
job it holds (`CallRow`); a process between its journal row and the launch has inserted
that row and the job was not launched yet (`LaunchingRow`); what was launched has
a row and a lease (`LaunchedRows`); and no two processes stand between row and
launch of one job (`LaunchesAlone`).  The last holds because the primary key of
`executions` lets only one process insert; without it two processes on one
directory would break `AtMostOneLaunch`.  Steps of the control plane are handled
by what they keep of a leased row, steps of the agents one by one.

`SuccessIsReal` holds for any number of processes too: `RealInv` follows a success
from the recipe's exit code through verdict, journal, message and late message to
the stored result.  `ResultIsJournaled`, `ReportsAreAcceptable` and
`WatchedJobIsOpen` are false when two processes share a data directory (finding
1), so what is proved is `Spec => [](OneProcess => P)`, where `OneProcess` says
that no two do, a state predicate of the constants alone, which every run of
`JobSystem` but `interrupted_without_crash` satisfies.  `JournalInv` is the
invariant under that condition: what is on its way, waiting late or stored as a
result of a job is what the journal of its agent has recorded, well-formed and
under the lease in force; a process that has not recorded a result yet has none in
the journal, and its row is there from the insertion on.  With it a repeated report
equals the stored one, which the handler accepts.

The refinement `ContractImplemented` is `Spec => ImplementsContract` under the same
condition.  It is needed: with two processes one closes a job as interrupted
before the other launches it, which the contract forbids.  The proof takes a step
of a handler as a move of one row (`RowMoves`) and checks that the phases of
before and after are ones the contract connects; a launch is the contract's
because `LaunchingRow` makes it the first and `HeldIsOpen`, from `JournalInv`,
keeps the job assigned until then; a success is one of a launched job by
`RealInv`.  All else stutters.

`AIDraftProofs` proves all of the draft's invariants for any drafts, plans, sets
of items and handlers.  `OneWriter` and `DeliveredIsReviewed` need that nothing is
created of a draft whose plan can still change (`Early`), and that the plan in a
handler's frame is the one its draft was reviewed with (`Agreed`).
`OnlyLossesDuplicate` needs `Unmade`: while an item of a draft that can still be
taken up has no CREATED row and no answer for it waits to be written, it was
carried out at most as often as answers were lost.  A call is made in such a state
only, and a restart in DISTRIBUTING leaves a draft nobody takes up.
`ApprovedIsComplete` needs `Accounted`: while a handler distributes, an item that
was asked for is created, still in its `todo`, or of a module that failed.  APPROVED
is written when nothing is left and nothing failed.  What rows are made of is
`Inv4`: the plan of an approved draft and of its parent stay what they were
(`Revised`), what a handler serves is among the items its approval asked for
(`Approved`), and a created row was made of an item with its key (`Sourced`), its own
if it is no update (`KeyIsOwn`).  Nothing is assumed of titles.  Of the order of service the
proof needs only that what is served next is left (`FirstIsLeft`), which holds
because sets of numbers have a least one.

`OrchestrationProofs` proves the type invariant, `RowsAreReal`, `RetriesContinue`
and `RetainedUnlessRaced` for any modules, stages, keys and requests.  `RowsAreReal`
needs that a frame knows only what was carried out (`FrameReal`), since a row is
written from a frame.  The other two are about keys no two requests were in flight
for: they have one handler (`Alone`), whose frame agrees with the row it works on
(`InStep`), and a stage that neither of them knows of was carried out only as often
as answers were unusable or the process died (`Counted`).

`AgentRequestsProofs` proves `OnceUnlessAhead`, `TwiceAtMost` and `Remembered` for
any number of requests, any clocks of agents and any windows with
`2 * Window + MaxWait <= 2 * Keep` (`PurgeAssumption`; in the code 130 of 240
seconds).  The clocks need no assumption: that a timestamp was further ahead than
`Margin`, in the code 50 seconds, is read off the admission and put into `ahead`.
The invariant says how old a nonce can be against its request's timestamp
(`NonceRow`), that a request not in `ahead` keeps its nonce while a copy can pass
(`OnceRow`), that between two admissions a nonce was kept for its whole time, so
that a third is out of the window (`TwiceRow`), and that a request between check and
insertion is not older than the lock's timeout (`CheckingRow`).

`EcosystemProofs` proves all four properties for any number of projects, imports
and applications.  `Mappings` is types, unique links and true answers;
`NothingMoves` follows from one step in it, and `ToldOnce` is inductive beside it,
with one lemma for each kind of event.

`OperatorLoginProofs` proves `OneLocalAgent`, `UnlockFailsOnlyRaced` and
`RegisteredOnce`.  Unless `raced`, at most one login is past the check of the
handle, no process is alive that the handle does not name, and the key file is
empty only while that login writes it; for tokens, that a token in use is in no
row of `agents`, and that a local agent without one was registered before.

It also proves both properties of the throttle, for any number of threads.  Logins
that have begun are finitely many, so the sets have sizes.  `Bounded` says that
while nothing was forgotten every failure that counts is in the list, and those
together with the logins that passed the check are at most `Limit + Threads - 1`:
whoever passes it saw fewer than `Limit` in the list, and all others past it run in
another thread.  `Alone` follows one login at a time through check, store and
record, and says that its filtered list is what was denied in its window.

`OperatorSessionProofs` proves all three properties.  `AttemptsAreBounded` needs
that the attempts a window can still see are all in the table, which `prune` keeps
(`Limits`), and that a step adds one to a name only below the limit;
`LogoutDropsIdentity` needs that whoever still is in flight for a session that was
logged out is recorded in `overtaken`; `SessionLasts` needs what `expires` says of
`opened`.

The assumptions are those the modules declare, all checked by TLC on each run:
risky recipes are recipes, redaction maps evidence to evidence, bounds are
numbers, `None` is not a value of what it stands in for, each process has an
identity, an order of modules is a sequence, and there are finitely many jobs at any time (`JobsAssumption`).

Only model-checked: the two liveness properties, `QueuedJobCloses` and
`DistributionSettles`.  They rest on fairness, so on ENABLED, which
the prover cannot handle.  That the refinement and the three properties of reports
hold under `OneProcess` only is no limit of the proofs: in the instance of
`interrupted_without_crash` TLC finds all four violated.

## 6. Not modelled

The AI provider settings: they are read in three transactions and written in one,
and an answer made from two configurations is a plan that an operator reviews like
any other.  Lengths of evidence are abstracted, so the limit of 64000 characters is
not covered.  Cookies, origins and the loopback conditions of setup are conditions
on a request and leave no state.  The planner is a keyword look-up; the gateway,
pairing and client modules forward requests and keep no state; the web interface
renders; the scripts run alone.

## 7. Plan

Done, in this order: `Protocol`, `ControlJobs` and its proofs, `AgentRunner`,
`JobContract`, `JobSystem` and its first proofs, `AIDraft`, `Orchestration`,
`AgentRequests`, `Ecosystem`, `OperatorLogin` and `OperatorSession` with their
proofs, the full-loop checks of `AIDraft`, `AIDraftProofs`, the refinement of
`JobContract`, `OrchestrationProofs`, and the theorems about the audit trail and
the throttle.

What is left:
1. What happens once two processes share a directory, as theorems: how far the
   journal and the job table can then disagree.
2. Lemmas that carry the liveness arguments up to fairness: for each state of a
   queued job, which step is possible and that it brings the job nearer its end.
3. The lengths of evidence, as operators on numbers.
