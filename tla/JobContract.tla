----------------------------- MODULE JobContract -----------------------------
(***************************************************************************)
(* What the system promises about a job, whatever happens between control  *)
(* plane and agent: the "Lifecycle" section of architecture.md.  A job is  *)
(* one of                                                                  *)
(*   "new", "held back" (waits for approval), "ready", "assigned", or      *)
(*   closed by its outcome.                                                *)
(* JobSystem implements this specification.                                *)
(***************************************************************************)
CONSTANTS Job, Outcomes

VARIABLES
  phase,      \* "new", "held back", "ready", "assigned" or an outcome
  launched,   \* whether its recipe was launched
  stop        \* whether its cancellation was requested

contractVars == <<phase, launched, stop>>

ContractInit ==
  /\ phase = [j \in Job |-> "new"]
  /\ launched = [j \in Job |-> FALSE]
  /\ stop = [j \in Job |-> FALSE]

Move(j, from, to) ==
  /\ phase[j] \in from
  /\ phase' = [phase EXCEPT ![j] = to]

Offer(j) ==
  /\ \E to \in {"held back", "ready"} : Move(j, {"new"}, to)
  /\ UNCHANGED <<launched, stop>>

Allow(j) == Move(j, {"held back"}, "ready") /\ UNCHANGED <<launched, stop>>

Assign(j) == Move(j, {"ready"}, "assigned") /\ UNCHANGED <<launched, stop>>

\* Rejection and cancellation of a job that no agent has end it at once.
Withdraw(j) ==
  /\ Move(j, {"held back", "ready"}, "CANCELLED")
  /\ stop' \in {stop, [stop EXCEPT ![j] = TRUE]}
  /\ UNCHANGED launched

\* Cancellation of an assigned job is a request.
AskToStop(j) ==
  /\ phase[j] = "assigned"
  /\ stop' = [stop EXCEPT ![j] = TRUE]
  /\ UNCHANGED <<phase, launched>>

\* Only an assigned job is launched, and only once.
LaunchOnce(j) ==
  /\ phase[j] = "assigned"
  /\ ~launched[j]
  /\ launched' = [launched EXCEPT ![j] = TRUE]
  /\ UNCHANGED <<phase, stop>>

\* The end: success needs a launch and no request to stop.
Close(j, o) ==
  /\ Move(j, {"assigned"}, o)
  /\ o = "SUCCEEDED" => launched[j] /\ ~stop[j]
  /\ UNCHANGED <<launched, stop>>

ContractNext ==
  \E j \in Job :
    \/ Offer(j) \/ Allow(j) \/ Assign(j) \/ Withdraw(j)
    \/ AskToStop(j) \/ LaunchOnce(j)
    \/ \E o \in Outcomes : Close(j, o)

ContractSpec == ContractInit /\ [][ContractNext]_contractVars
=============================================================================
