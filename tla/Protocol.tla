------------------------------ MODULE Protocol ------------------------------
(***************************************************************************)
(* The wire contracts of protocol.py that the control plane and the agent  *)
(* share.  A hash is modelled by what it identifies: a request hash by the *)
(* whole goal body, an action hash by the action plan, a checksum by       *)
(* whether it matches the evidence it came with.                           *)
(***************************************************************************)
EXTENDS Naturals, Sequences, FiniteSets

CONSTANTS
  Jobs,          \* the job identifiers uuid4 can hand out
  Agents,        \* agent identities (hashes of their public keys)
  Keys,          \* idempotency keys the operator uses
  Recipes,       \* the fixed recipes
  RiskyRecipes,  \* those whose plan has risk MEDIUM (package_check)
  Evidence,      \* what a run printed, before redaction
  Redact,        \* security.redact on evidence
  MaxSequence,   \* bound: progress sequences are 0 .. MaxSequence
  None           \* SQL NULL, JSON null

ASSUME RecipesAssumption == RiskyRecipes \subseteq Recipes
ASSUME RedactAssumption == Redact \in [Evidence -> Evidence]
ASSUME SequenceAssumption == MaxSequence \in Nat
ASSUME JobsAssumption == IsFiniteSet(Jobs)

Terminal == {"SUCCEEDED", "FAILED", "CANCELLED", "TIMED_OUT"}
Active == {"DISPATCHED", "RUNNING"}
JobStates == {"WAITING_APPROVAL", "QUEUED"} \cup Active \cup Terminal

\* The body of POST /goals.  Its digest is the request hash.
Goal == [key : Keys, target : Agents, recipe : Recipes]

\* The immutable plan; the timeout is a number the agent enforces and no
\* property tells apart, the other fields are constants.
Plan == [recipe : Recipes, target : Agents]
ActionPlan(g) == [recipe |-> g.recipe, target |-> g.target]
Risky(g) == g.recipe \in RiskyRecipes

\* Leases are fresh random tokens: the n-th one issued is n.
Leases == Nat \ {0}
Sequences == 0 .. MaxSequence

\* The body of POST .../result: exit 0 stands for code zero, 1 for any other,
\* intact for a checksum that matches the evidence.
ResultBody == [lease : Leases, state : Terminal, exit : {0, 1},
               evidence : Evidence, intact : BOOLEAN]
StoredResult == [lease : Leases, state : Terminal, exit : {0, 1},
                 evidence : Evidence]

ASSUME NoneAssumption ==
  /\ None \notin Jobs /\ None \notin Nat
  /\ None \notin ResultBody /\ None \notin StoredResult
=============================================================================
