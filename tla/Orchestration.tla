---------------------------- MODULE Orchestration ----------------------------
(***************************************************************************)
(* Orchestrations, identity_bridge.py: one request creates the records of  *)
(* a requirement in four modules, one after the other, and checkpoints     *)
(* each module's progress in table orchestration_targets.  The same key    *)
(* asks for the same orchestration again: to retry it, or because an       *)
(* earlier request is still on its way.  Requests are coroutines, which    *)
(* give way to each other while they await a module.                       *)
(*                                                                         *)
(* A module's records are made by one remote call after the other, its     *)
(* stages: the project, then what hangs on it; the workspace, the design,  *)
(* then their link.  A key stands for its request: the key with another    *)
(* request is refused and changes nothing.                                 *)
(***************************************************************************)
EXTENDS Naturals, Sequences, SequencesExt

CONSTANTS
  Keys,        \* idempotency keys, one orchestration each
  Order,       \* the modules in the order they are served
  Stages,      \* how many remote calls each module takes
  Handlers,    \* requests that can be in flight at once
  MaxRequests, \* bound: requests in a behaviour
  MaxLosses,   \* bound: unusable answers in a behaviour
  MaxRestarts, \* bound: restarts of the control plane
  None

Modules == Range(Order)

ASSUME OrderAssumption == Order \in Seq(Modules)
ASSUME StagesAssumption == Stages \in [Modules -> Nat \ {0}]
ASSUME BoundsAssumption ==
  MaxRequests \in Nat /\ MaxLosses \in Nat /\ MaxRestarts \in Nat

VARIABLES
  known,     \* table orchestrations
  row,       \* table orchestration_targets, by key and module
  run,       \* what each handler carries across its awaits
  remote,    \* how often the modules carried each stage out
  raced,     \* the keys that two requests were in flight for at once
  requests, losses, restarts

vars == <<known, row, run, remote, raced, requests, losses, restarts>>

\* A row's result is the stages recorded so far.  A stage other than the last
\* may be recorded without an identifier: the answer had none.
Row == [status : {"ABSENT", "IN_PROGRESS", "CREATED", "FAILED"},
        done : Nat, blank : BOOLEAN]
NoRow == [status |-> "ABSENT", done |-> 0, blank |-> FALSE]

\* A handler: the modules still to serve, and of the first of them the stages
\* that are done.
Frame == [key : Keys, todo : Seq(Modules), done : Nat, blank : BOOLEAN,
          at : {"look", "ready", "made", "lost"}]

ASSUME NoneAssumption == None \notin Frame

Init ==
  /\ known = {}
  /\ row = [k \in Keys |-> [m \in Modules |-> NoRow]]
  /\ run = [h \in Handlers |-> None]
  /\ remote = [k \in Keys |-> [m \in Modules |-> [s \in 1 .. Stages[m] |-> 0]]]
  /\ raced = {}
  /\ requests = 0
  /\ losses = 0
  /\ restarts = 0

At(h, label) == run[h] # None /\ run[h].at = label
KeyOf(h) == run[h].key
Module(h) == Head(run[h].todo)
MyRow(h) == row[KeyOf(h)][Module(h)]
Goto(h, l) == run' = [run EXCEPT ![h].at = l]
Write(h, r) == row' = [row EXCEPT ![KeyOf(h)][Module(h)] = r]

Busy(k) == \E h \in Handlers : run[h] # None /\ KeyOf(h) = k

\* The row is inserted, or found, in the transaction before the first await.
Orchestrate(h, k) ==
  /\ run[h] = None
  /\ requests < MaxRequests
  /\ requests' = requests + 1
  /\ known' = known \cup {k}
  /\ run' = [run EXCEPT ![h] = [key |-> k, todo |-> Order, at |-> "look",
                                done |-> 0, blank |-> FALSE]]
  /\ raced' = IF Busy(k) THEN raced \cup {k} ELSE raced
  /\ UNCHANGED <<row, remote, losses, restarts>>

-----------------------------------------------------------------------------
(* create_target: one module.                                              *)

SettledNever(h) == MyRow(h).status = "SETTLED"
Settled(h) == MyRow(h).status = "CREATED"

Pass(h) ==
  /\ At(h, "look")
  /\ run[h].todo # <<>>
  /\ Settled(h)
  /\ run' = [run EXCEPT ![h].todo = Tail(@)]
  /\ UNCHANGED <<known, row, remote, raced, requests, losses, restarts>>

\* What an earlier request recorded, whatever became of it.
RecordedNothing(h) == 0
Recorded(h) == MyRow(h).done

Resume(h) ==
  /\ At(h, "look")
  /\ run[h].todo # <<>>
  /\ ~Settled(h)
  /\ run' = [run EXCEPT ![h].at = "ready", ![h].done = Recorded(h),
                        ![h].blank = MyRow(h).blank]
  /\ UNCHANGED <<known, row, remote, raced, requests, losses, restarts>>

LastStage(h) == run[h].done + 1 = Stages[Module(h)]

\* The last stage names the record before it, and has none to name: the module
\* does not find it, or, for infra, the handler does not even ask.
RootlessNever(h) == FALSE
Rootless(h) == LastStage(h) /\ run[h].blank

Act(h) == remote' = [remote EXCEPT ![KeyOf(h)][Module(h)][run[h].done + 1] = @ + 1]
Lose == losses < MaxLosses /\ losses' = losses + 1

Answered(h) ==
  /\ At(h, "ready")
  /\ ~Rootless(h)
  /\ Act(h)
  /\ Goto(h, "made")
  /\ UNCHANGED <<known, row, raced, requests, losses, restarts>>

\* An answer without the identifier.
AnsweredBlank(h) ==
  /\ At(h, "ready")
  /\ ~LastStage(h)
  /\ Act(h)
  /\ Lose
  /\ run' = [run EXCEPT ![h].at = "made", ![h].blank = TRUE]
  /\ UNCHANGED <<known, row, raced, requests, restarts>>

\* A timeout or an error status, though the module did what it was asked for.
Unanswered(h) ==
  /\ At(h, "ready")
  /\ ~Rootless(h)
  /\ Act(h)
  /\ Lose
  /\ Goto(h, "lost")
  /\ UNCHANGED <<known, row, raced, requests, restarts>>

Refused(h) ==
  /\ At(h, "ready")
  /\ Goto(h, "lost")
  /\ UNCHANGED <<known, row, remote, raced, requests, losses, restarts>>

\* A list where a record is expected is an AttributeError nobody catches.  (The
\* answer to the link of infra alone is not read; the model lets it fail too.)
Unreadable(h) ==
  /\ At(h, "ready")
  /\ ~Rootless(h)
  /\ Act(h)
  /\ Lose
  /\ run' = [run EXCEPT ![h] = None]
  /\ UNCHANGED <<known, row, raced, requests, restarts>>

\* The origins of these modules need not be set: then module_json raises before it
\* sends anything, and nobody catches that.
Optional == {"document", "infra"}
Unsent(h) ==
  /\ At(h, "ready")
  /\ Module(h) \in Optional
  /\ Module(h) = "infra" => ~Rootless(h)
  /\ run' = [run EXCEPT ![h] = None]
  /\ UNCHANGED <<known, row, remote, raced, requests, losses, restarts>>

Checkpoint(h) ==
  /\ At(h, "made")
  /\ ~LastStage(h)
  /\ Write(h, [status |-> "IN_PROGRESS", done |-> run[h].done + 1,
               blank |-> run[h].blank])
  /\ run' = [run EXCEPT ![h].at = "ready", ![h].done = @ + 1]
  /\ UNCHANGED <<known, remote, raced, requests, losses, restarts>>

\* The rows are replaced without another look at them.
Next1(h) == run' = [run EXCEPT ![h].at = "look", ![h].todo = Tail(@)]

Succeed(h) ==
  /\ At(h, "made")
  /\ LastStage(h)
  /\ Write(h, [status |-> "CREATED", done |-> Stages[Module(h)], blank |-> run[h].blank])
  /\ Next1(h)
  /\ UNCHANGED <<known, remote, raced, requests, losses, restarts>>

Fail(h) ==
  /\ At(h, "lost")
  /\ Write(h, [status |-> "FAILED", done |-> run[h].done, blank |-> run[h].blank])
  /\ run' = [run EXCEPT ![h].at = "look", ![h].todo = Tail(@)]
  /\ UNCHANGED <<known, remote, raced, requests, losses, restarts>>

Return(h) ==
  /\ At(h, "look")
  /\ run[h].todo = <<>>
  /\ run' = [run EXCEPT ![h] = None]
  /\ UNCHANGED <<known, row, remote, raced, requests, losses, restarts>>

-----------------------------------------------------------------------------
Restart ==
  /\ restarts < MaxRestarts
  /\ restarts' = restarts + 1
  /\ run' = [h \in Handlers |-> None]
  /\ UNCHANGED <<known, row, remote, raced, requests, losses>>

HandlerNext(h) ==
  \/ Pass(h) \/ Resume(h)
  \/ Answered(h) \/ AnsweredBlank(h) \/ Unanswered(h) \/ Refused(h)
  \/ Unreadable(h) \/ Unsent(h)
  \/ Checkpoint(h) \/ Succeed(h) \/ Fail(h) \/ Return(h)

Next ==
  \/ \E h \in Handlers, k \in Keys : Orchestrate(h, k)
  \/ \E h \in Handlers : HandlerNext(h)
  \/ Restart

Spec == Init /\ [][Next]_vars

-----------------------------------------------------------------------------
(* Properties.                                                             *)

OrchestrationTypeOK ==
  /\ known \in SUBSET Keys
  /\ row \in [Keys -> [Modules -> Row]]
  /\ \A k \in Keys, m \in Modules : row[k][m].done <= Stages[m]
  /\ \A h \in Handlers : run[h] # None => run[h] \in Frame
  /\ \A k \in Keys, m \in Modules : remote[k][m] \in [1 .. Stages[m] -> Nat]
  /\ raced \in SUBSET Keys
  /\ requests \in 0 .. MaxRequests /\ losses \in 0 .. MaxLosses
  /\ restarts \in 0 .. MaxRestarts

\* A row tells the truth: each stage it records was carried out, and CREATED is
\* said only of all stages, each hung on a record that has an identifier, also
\* when two requests write the row in turn.
RowsAreReal ==
  \A k \in Keys, m \in Modules :
    /\ \A s \in 1 .. row[k][m].done : remote[k][m][s] > 0
    /\ row[k][m].status = "CREATED" =>
         row[k][m].done = Stages[m] /\ ~row[k][m].blank

\* Retries continue from the checkpoint: without requests side by side, only an
\* answer or a handler that was lost makes a module carry out a stage again.
RetriesContinue ==
  \A k \in Keys \ raced, m \in Modules : \A s \in 1 .. Stages[m] :
    remote[k][m][s] <= 1 + losses + restarts

\* What was created stays recorded as created, in spite of failed retries, unless
\* two requests were in flight for the key at once.
RetainedUnlessRaced ==
  [][\A k \in Keys \ raced', m \in Modules :
       row[k][m].status = "CREATED" => row'[k][m] = row[k][m]]_vars
=============================================================================
