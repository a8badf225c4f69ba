------------------------------ MODULE AIDraft ------------------------------
(***************************************************************************)
(* AI drafts, ai_workflow.py: a plan is generated in the background,       *)
(* edited, approved by its hash, and distributed to the modules item by    *)
(* item; approved drafts are revised by child drafts, and what they made   *)
(* is looked up again in the modules by a full-loop check.  Handlers are   *)
(* coroutines that give way to each other at every remote call, so a       *)
(* distribution is a frame that any other request can interleave with.     *)
(*                                                                         *)
(* A plan is its identity, which its hash identifies too.  A draft stands  *)
(* for the idempotency key it was asked for with: a key that is in use     *)
(* returns its draft or is refused.  An item of a draft has a row in       *)
(* ai_draft_items under its key, which it may share with another item:     *)
(* None, "FAILED", or, for CREATED, the plan it was made from.             *)
(***************************************************************************)
EXTENDS Naturals, Sequences, Functions, FiniteSetsExt

CONSTANTS
  Drafts,       \* drafts
  Plans,        \* plans, and so plan hashes
  Work,         \* what a plan asks of each module: a sequence of [title, body]
  Order,        \* the modules in the order they are served
  Handlers,     \* approvals and checks that can be in flight at once
  MaxLosses,    \* bound: remote calls that act but are not answered
  MaxRestarts,  \* bound: restarts of the control plane
  None

Modules == Range(Order)

ASSUME OrderAssumption == Order \in Seq(Modules)
ASSUME WorkAssumption ==
  \A p \in Plans, m \in Modules : Len(Work[p][m]) \in Nat \ {0}
ASSUME BoundsAssumption == MaxLosses \in Nat /\ MaxRestarts \in Nat
ASSUME NoPlanAssumption ==
  /\ {None, "FAILED"} \cap Plans = {}
  /\ None \notin Drafts /\ None # "FAILED"

VARIABLES
  status, plan, parent,  \* table ai_drafts
  rows,        \* table ai_draft_items, by draft and key
  generating,  \* the drafts a background task is generating a plan for
  run,         \* what each handler is distributing or checking
  reviewed,    \* the plan whose hash a draft was last approved with, and the items
               \* that approval asked for
  remote,      \* how often the modules carried out what a key stands for
  made,        \* the items that CREATED rows were made of
  losses, restarts

draftVars == <<status, plan, parent>>
vars == <<draftVars, rows, generating, run, reviewed, remote, made, losses, restarts>>

Statuses == {"GENERATING", "FAILED", "DRAFT", "DISTRIBUTING", "PARTIAL", "APPROVED"}

\* Item 0 is the record the module's other items hang on: the project or the
\* workspace; for a revision, the look-up of that record.  A first distribution and
\* a revision key an item by its place in the plan, and a revision the update of a
\* record by that record, given here by the parent's item that made it.
Indexes(m) == UNION {0 .. Len(Work[p][m]) : p \in Plans}
Item(m, k, n, x) == [module |-> m, kind |-> k, number |-> n, index |-> x]
ItemsOf(m) == {Item(m, k, n, n) : k \in {"first", "revision"}, n \in Indexes(m)}
KeyedByRecord == {"pm", "document"}
UpdatesOf(m) == {Item(m, "update", n, x) : n \in Indexes(m) \ {0}, x \in Indexes(m) \ {0}}
Items == (UNION {ItemsOf(m) : m \in Modules})
         \cup (UNION {UpdatesOf(m) : m \in Modules \cap KeyedByRecord})

Key(m, k, n) == [module |-> m, kind |-> k, number |-> n]
KeyOf(i) == Key(i.module, i.kind, i.number)
Keys == {KeyOf(i) : i \in Items}

Created(d) == {k \in Keys : rows[d][k] \in Plans}
FailedModules(d) == {k.module : k \in {x \in Keys : rows[d][x] = "FAILED"}}

Init ==
  /\ status = [d \in Drafts |-> "ABSENT"]
  /\ plan = [d \in Drafts |-> None]
  /\ parent = [d \in Drafts |-> None]
  /\ rows = [d \in Drafts |-> [k \in Keys |-> None]]
  /\ generating = {}
  /\ run = [h \in Handlers |-> None]
  /\ reviewed = [d \in Drafts |-> None]
  /\ remote = [d \in Drafts |-> [k \in Keys |-> 0]]
  /\ made = [d \in Drafts |-> {}]
  /\ losses = 0
  /\ restarts = 0

Exists(d) == status[d] # "ABSENT"
To(d, s) == status' = [status EXCEPT ![d] = s]

-----------------------------------------------------------------------------
(* Drafts and their generation.                                            *)

\* A row that starts generating.
Insert(d, p) ==
  /\ ~Exists(d)
  /\ To(d, "GENERATING")
  /\ parent' = [parent EXCEPT ![d] = p]
  /\ generating' = generating \cup {d}
  /\ UNCHANGED <<plan, rows, run, reviewed, remote, made, losses, restarts>>

CreateDraft(d) == Insert(d, None)

CreateRevision(d, p) == status[p] = "APPROVED" /\ Insert(d, p)

\* generate_draft writes its answer whatever became of the draft meanwhile.
Generated(d, p) ==
  /\ d \in generating
  /\ generating' = generating \ {d}
  /\ plan' = [plan EXCEPT ![d] = p]
  /\ To(d, "DRAFT")
  /\ UNCHANGED <<parent, rows, run, reviewed, remote, made, losses, restarts>>

GenerationFails(d) ==
  /\ d \in generating
  /\ generating' = generating \ {d}
  /\ To(d, "FAILED")
  /\ UNCHANGED <<plan, parent, rows, run, reviewed, remote, made, losses, restarts>>

\* An answer of another shape raises what generate_plan does not turn into an
\* HTTPException: the task ends and the row stays as it is.
GenerationDies(d) ==
  /\ d \in generating
  /\ generating' = generating \ {d}
  /\ UNCHANGED <<draftVars, rows, run, reviewed, remote, made, losses, restarts>>

Regenerable(d) == status[d] = "FAILED"

RetryGeneration(d) ==
  /\ Regenerable(d)
  /\ To(d, "GENERATING")
  /\ generating' = generating \cup {d}
  /\ UNCHANGED <<plan, parent, rows, run, reviewed, remote, made, losses, restarts>>

EditableUntilApproved(d) == status[d] \in {"DRAFT", "PARTIAL"}
Editable(d) == status[d] = "DRAFT"

UpdateDraft(d, p) ==
  /\ Editable(d)
  /\ plan' = [plan EXCEPT ![d] = p]
  /\ UNCHANGED <<status, parent, rows, generating, run, reviewed, remote, made,
                 losses, restarts>>

-----------------------------------------------------------------------------
(* Approval, and the distribution it starts.                               *)

\* What a plan asks for; each item is served when it is the first of those left.
BaseItems(p) ==
  {i \in Items : i.kind = "first" /\ i.index <= Len(Work[p][i.module])}

Asked(p, m) == 1 .. Len(Work[p][m])

\* The items of the parent with the title of item n.  Titles may repeat: the handler
\* finds the old item by its title, in a dict that keeps the last one.
Namesakes(p, old, m, n) == {x \in Asked(old, m) : Work[old][m][x].title = Work[p][m][n].title}
Prior(p, old, m, n) == Max(Namesakes(p, old, m, n))

\* What of plan p is not in the plan it revises; infra is compared as a whole.
Changed(p, old, m) ==
  IF m = "infra" THEN {n \in Asked(p, m) : Work[p][m] # Work[old][m]}
  ELSE {n \in Asked(p, m) : \/ Namesakes(p, old, m, n) = {}
                            \/ Work[old][m][Prior(p, old, m, n)] # Work[p][m][n]}

\* The look-up of the parent's record is made also when nothing hangs on it.
Revises(p, old, m, n) ==
  \/ n \in Changed(p, old, m)
  \/ n = 0 /\ (m # "infra" \/ Changed(p, old, m) # {})

\* The pm task or the requirement that item n updates, if it updates one.
Updates(p, old, m, n) == n > 0 /\ m \in KeyedByRecord /\ Namesakes(p, old, m, n) # {}
RevisionKey(p, old, m, n) ==
  IF Updates(p, old, m, n) THEN Key(m, "update", Prior(p, old, m, n)) ELSE Key(m, "revision", n)

RevisionItems(p, old, ms) ==
  {i \in Items :
     /\ i.module \in ms
     /\ Revises(p, old, i.module, i.index)
     /\ KeyOf(i) = RevisionKey(p, old, i.module, i.index)}

\* The parent's rows a revised item hangs on: its module's record, and, outside
\* infra, what the item of the same title made.
Needs(p, old, i) ==
  IF i.kind = "first" THEN {}
  ELSE {Key(i.module, "first", 0)} \cup
       {Key(i.module, "first", n) : n \in
          {x \in Asked(old, i.module) :
             /\ i.module # "infra"
             /\ i.index # 0
             /\ Namesakes(p, old, i.module, i.index) # {}
             /\ x = Prior(p, old, i.module, i.index)}}

\* What a handler carries across its awaits; the parent is read only once.
Frame(d, todo, old, roots) ==
  [draft |-> d, plan |-> plan[d], todo |-> todo, at |-> "ensure",
   failed |-> {}, revises |-> old, roots |-> roots]

Distribute(h, d, p, frame) ==
  /\ run[h] = None
  /\ p = plan[d]
  /\ To(d, "DISTRIBUTING")
  /\ run' = [run EXCEPT ![h] = frame]
  /\ reviewed' = [reviewed EXCEPT ![d] = [plan |-> p, items |-> frame.todo]]
  /\ UNCHANGED <<plan, parent, rows, generating, remote, made, losses, restarts>>

ApprovableWhileRunning(d) == status[d] \in {"DRAFT", "PARTIAL", "DISTRIBUTING"}
Approvable(d) == status[d] \in {"DRAFT", "PARTIAL"}

\* The hash the operator reviewed has to be that of the plan.
Approve(h, d, p) ==
  /\ Approvable(d)
  /\ Distribute(h, d, p, Frame(d, BaseItems(plan[d]), None, {}))

RevisionApprovable(d, ms) ==
  \/ Approvable(d)
  \/ status[d] = "APPROVED" /\ FailedModules(d) # {} /\ ms \subseteq FailedModules(d)

ApproveRevision(h, d, p, ms) ==
  /\ parent[d] # None
  /\ RevisionApprovable(d, ms)
  /\ LET old == plan[parent[d]]
     IN Distribute(h, d, p, Frame(d, RevisionItems(plan[d], old, ms), old,
                                  Created(parent[d])))

-----------------------------------------------------------------------------
(* One item of a distribution: ensure, the call it awaits, the checkpoint. *)

At(h, label) == run[h] # None /\ run[h].at = label
Distributing(h) == run[h] # None /\ run[h].at \in {"ensure", "call", "made", "lost"}
Todo(h) == run[h].todo

\* Items are served module by module, the module's record first.
Position(m) == CHOOSE k \in DOMAIN Order : Order[k] = m
Before(i, j) ==
  \/ Position(i.module) < Position(j.module)
  \/ i.module = j.module /\ i.index < j.index
First(items) == CHOOSE i \in items : \A j \in items : ~Before(j, i)
Next1(h) == First(Todo(h))
Later(h) == Todo(h) \ {Next1(h)}

Step(h, changed) == run' = [run EXCEPT ![h] = changed]

Rooted(h) == Needs(run[h].plan, run[h].revises, Next1(h)) \subseteq run[h].roots
Lookup(i) == i.kind = "revision" /\ i.index = 0

NeverSkip(d, i) == FALSE
IsDone(d, i) == rows[d][KeyOf(i)] \in Plans

Skip(h) ==
  /\ At(h, "ensure")
  /\ Todo(h) # {}
  /\ Rooted(h)
  /\ Lookup(Next1(h)) \/ IsDone(run[h].draft, Next1(h))
  /\ Step(h, [run[h] EXCEPT !.todo = Later(h)])
  /\ UNCHANGED <<draftVars, rows, generating, reviewed, remote, made, losses,
                 restarts>>

Call(h) ==
  /\ At(h, "ensure")
  /\ Todo(h) # {}
  /\ Rooted(h)
  /\ ~Lookup(Next1(h)) /\ ~IsDone(run[h].draft, Next1(h))
  /\ Step(h, [run[h] EXCEPT !.at = "call"])
  /\ UNCHANGED <<draftVars, rows, generating, reviewed, remote, made, losses,
                 restarts>>

\* A record of the parent that is not there is an IndexError or a StopIteration:
\* the handler ends and the draft stays DISTRIBUTING.
Unrooted(h) ==
  /\ At(h, "ensure")
  /\ Todo(h) # {}
  /\ ~Rooted(h)
  /\ Step(h, None)
  /\ UNCHANGED <<draftVars, rows, generating, reviewed, remote, made, losses,
                 restarts>>

NextKey(h) == KeyOf(Next1(h))
Act(h) == remote' = [remote EXCEPT ![run[h].draft][NextKey(h)] = @ + 1]
Lose == losses < MaxLosses /\ losses' = losses + 1

Answered(h) ==
  /\ At(h, "call")
  /\ Act(h)
  /\ Step(h, [run[h] EXCEPT !.at = "made"])
  /\ UNCHANGED <<draftVars, rows, generating, reviewed, made, losses, restarts>>

\* A timeout, an error status or an answer without an identifier, though the
\* module did what it was asked for.
Unanswered(h) ==
  /\ At(h, "call")
  /\ Act(h)
  /\ Lose
  /\ Step(h, [run[h] EXCEPT !.at = "lost"])
  /\ UNCHANGED <<draftVars, rows, generating, reviewed, made, restarts>>

\* A list where a record is expected is an AttributeError nobody catches.
Unreadable(h) ==
  /\ At(h, "call")
  /\ Act(h)
  /\ Lose
  /\ Step(h, None)
  /\ UNCHANGED <<draftVars, rows, generating, reviewed, made, restarts>>

\* The origins of these modules need not be set: then module_json raises before it
\* sends anything, and nobody catches that.
Optional == {"document", "infra"}
Unsent(h) ==
  /\ At(h, "call")
  /\ Next1(h).module \in Optional
  /\ Step(h, None)
  /\ UNCHANGED <<draftVars, rows, generating, reviewed, remote, made, losses,
                 restarts>>

RestWithFailed(h) == Todo(h)
Rest(h) == {i \in Todo(h) : i.module # Next1(h).module}

\* The row is replaced; a call the module refused, or that never reached it, is
\* still at "call".  A failure leaves out the rest of the module.
Checkpoint(h) ==
  /\ run[h] # None /\ run[h].at \in {"call", "made", "lost"}
  /\ LET done == run[h].at = "made"
     IN /\ rows' = [rows EXCEPT ![run[h].draft][NextKey(h)] =
                      IF done THEN run[h].plan ELSE "FAILED"]
        /\ made' = [made EXCEPT ![run[h].draft] = IF done THEN @ \cup {Next1(h)} ELSE @]
        /\ Step(h, [run[h] EXCEPT !.at = "ensure",
                      !.todo = IF done THEN Later(h) ELSE Rest(h),
                      !.failed = IF done THEN @ ELSE @ \cup {Next1(h).module}])
  /\ UNCHANGED <<draftVars, generating, reviewed, remote, losses, restarts>>

OutcomeUnlisted(h) == IF run[h].failed # {} THEN "INCOMPLETE" ELSE "APPROVED"
OutcomeOfLast(h) ==
  IF Order[Len(Order)] \in run[h].failed THEN "PARTIAL" ELSE "APPROVED"
Outcome(h) == IF run[h].failed # {} THEN "PARTIAL" ELSE "APPROVED"

Finish(h) ==
  /\ At(h, "ensure")
  /\ Todo(h) = {}
  /\ To(run[h].draft, Outcome(h))
  /\ Step(h, None)
  /\ UNCHANGED <<plan, parent, rows, generating, reviewed, remote, made, losses,
                 restarts>>

-----------------------------------------------------------------------------
(* The full-loop check: verify, and the four checkers it waits for.        *)

\* What the checkers look up in the draft before they ask a module: the records
\* of the draft, or of its parent, and the design the draft itself made.
CheckRooted(d) ==
  LET base == IF parent[d] = None THEN d ELSE parent[d]
      design == IF parent[d] = None THEN "first" ELSE "revision"
  IN /\ \A m \in Modules : Key(m, "first", 0) \in Created(base)
     /\ "infra" \in Modules => Key("infra", design, 1) \in Created(d)

\* A look-up that finds nothing is an IndexError, which _safe_check does not catch.
Check(h, d) ==
  /\ run[h] = None
  /\ status[d] = "APPROVED"
  /\ Step(h, [Frame(d, {}, None, {}) EXCEPT
                !.at = IF CheckRooted(d) THEN "reading" ELSE "dying"])
  /\ UNCHANGED <<draftVars, rows, generating, reviewed, remote, made, losses, restarts>>

\* The modules have all the records, or not, or do not answer, or answer what the
\* checkers cannot read: a result is stored that no handler reads, or none.
CheckEnds(h) ==
  /\ At(h, "reading") \/ At(h, "dying")
  /\ Step(h, None)
  /\ UNCHANGED <<draftVars, rows, generating, reviewed, remote, made, losses, restarts>>

-----------------------------------------------------------------------------

\* Background tasks and handlers die with the process; nothing resumes them.
Restart ==
  /\ restarts < MaxRestarts
  /\ restarts' = restarts + 1
  /\ generating' = {}
  /\ run' = [h \in Handlers |-> None]
  /\ UNCHANGED <<draftVars, rows, reviewed, remote, made, losses>>

GenerationNext(d) ==
  \/ \E p \in Plans : Generated(d, p)
  \/ GenerationFails(d)
  \/ GenerationDies(d)

OperatorNext ==
  \E d \in Drafts :
    \/ CreateDraft(d)
    \/ \E p \in Drafts : CreateRevision(d, p)
    \/ RetryGeneration(d)
    \/ \E p \in Plans : UpdateDraft(d, p)
    \/ \E h \in Handlers, p \in Plans :
         \/ Approve(h, d, p)
         \/ \E ms \in (SUBSET Modules) \ {{}} : ApproveRevision(h, d, p, ms)
    \/ \E h \in Handlers : Check(h, d)

HandlerNext(h) ==
  \/ Skip(h) \/ Call(h) \/ Unrooted(h)
  \/ Answered(h) \/ Unanswered(h) \/ Unreadable(h) \/ Unsent(h)
  \/ Checkpoint(h) \/ Finish(h) \/ CheckEnds(h)

Next ==
  \/ OperatorNext
  \/ \E d \in Drafts : GenerationNext(d)
  \/ \E h \in Handlers : HandlerNext(h)
  \/ Restart

Spec == Init /\ [][Next]_vars

\* The event loop runs every task that can go on, and every remote call is
\* answered or times out after 30 seconds.
Fairness == \A h \in Handlers : WF_vars(HandlerNext(h))
FairSpec == Spec /\ Fairness

-----------------------------------------------------------------------------
(* Properties.                                                             *)

Frames == [draft : Drafts, plan : Plans, todo : SUBSET Items,
           at : {"ensure", "call", "made", "lost", "reading", "dying"}, failed : SUBSET Modules,
           revises : Plans \cup {None}, roots : SUBSET Keys]

\* Tables and frames keep their types.
DraftTypeOK ==
  /\ status \in [Drafts -> Statuses \cup {"ABSENT"}]
  /\ plan \in [Drafts -> Plans \cup {None}]
  /\ parent \in [Drafts -> Drafts \cup {None}]
  /\ rows \in [Drafts -> [Keys -> Plans \cup {"FAILED", None}]]
  /\ generating \in SUBSET Drafts
  /\ \A h \in Handlers : run[h] # None => run[h] \in Frames
  /\ \A d \in Drafts : reviewed[d] # None =>
       reviewed[d] \in [plan : Plans, items : SUBSET Items]
  /\ remote \in [Drafts -> [Keys -> Nat]]
  /\ made \in [Drafts -> SUBSET Items]
  /\ losses \in 0 .. MaxLosses /\ restarts \in 0 .. MaxRestarts

\* A draft has one writer: no two handlers distribute it, none while its plan is
\* generated, and a handler's copy of the plan is what the row still says after
\* all the awaits (the status written before the first await of approve is the
\* only lock there is).
OneWriter ==
  /\ \A d \in generating : status[d] = "GENERATING"
  /\ \A h \in Handlers : Distributing(h) =>
       /\ status[run[h].draft] = "DISTRIBUTING"
       /\ run[h].plan = plan[run[h].draft]
       /\ \A g \in Handlers \ {h} : Distributing(g) => run[g].draft # run[h].draft

\* Every record that was created is of the plan the draft shows and whose hash
\* the operator approved, through edits, retries and partial distributions.
DeliveredIsReviewed ==
  \A d \in Drafts : \A k \in Created(d) :
    rows[d][k] = plan[d] /\ plan[d] = reviewed[d].plan

\* For every item an APPROVED draft was last approved with there is a CREATED row,
\* collected over several partial distributions maybe: of a first draft for all items
\* of its plan, of a revision for those of the modules selected last, whatever became
\* of the modules selected before.  The row was made of that item or, for the update
\* of a record, of another one of the approval with the same title: of two changes
\* to one record only one is carried out.
ApprovedIsComplete ==
  \A d \in Drafts : status[d] = "APPROVED" =>
    /\ \A i \in {x \in reviewed[d].items : ~Lookup(x)} :
         /\ IsDone(d, i)
         /\ \E j \in made[d] \cap reviewed[d].items : KeyOf(j) = KeyOf(i)
         /\ i.kind # "update" => i \in made[d]
    /\ parent[d] = None => reviewed[d].items = BaseItems(plan[d])

\* Only an answer that was lost makes a module carry out a key again: retries,
\* restarts and requests side by side do not.
OnlyLossesDuplicate ==
  \A d \in Drafts, k \in Keys : remote[d][k] <= 1 + losses

\* If no answer is lost or unreadable, every origin is set and the process lives, a
\* draft does not stay DISTRIBUTING, whatever calls fail; but for a revision of a
\* revision, whose parent need not have made the records it hangs on.
DistributionSettles ==
  \A d \in Drafts :
    status[d] = "DISTRIBUTING" /\ (parent[d] # None => parent[parent[d]] = None)
      ~> status[d] \in {"PARTIAL", "APPROVED"}

\* What docs/overnight-handoff.md:71 says: "Approved revisions now expose their own
\* `Run full-loop check`": the check of an APPROVED draft has a result.
ChecksAnswer == \A h \in Handlers : ~At(h, "dying")
=============================================================================
