--------------------------- MODULE OperatorLogin ---------------------------
(***************************************************************************)
(* Setup and login of the operator, control.py:88-195 and 296-328, and     *)
(* what a login starts: the agent of this machine, which enrolls with a    *)
(* token of its own, agent.py:90-104 and 240-272.                          *)
(*                                                                         *)
(* Logins run in threads.  The list of failures, the key file and the      *)
(* handle of the local process are shared by them without a lock; only the *)
(* password check is serialized, by the transaction around it.             *)
(*                                                                         *)
(* All logins are of one client, since the failures of each are kept apart.*)
(* Passwords are right or wrong.  The session of a login is in             *)
(* OperatorSession, what an agent does after its enrollment in AgentRunner.*)
(***************************************************************************)
EXTENDS Integers, FiniteSets

CONSTANTS
  Logins,       \* login requests; each may start one process, named like it
  Threads,      \* how many of them run at once
  Remote,       \* keys of other machines
  LocalKey,     \* the key in local-agent/identity.enc
  Issued,       \* tokens of the enrollment route
  Window,       \* 60 seconds
  Limit,        \* 10 failures
  TokenTTL,     \* 300 seconds
  MaxTime,      \* bound: clock
  MaxFaults,    \* bound: ends of the control plane and of agents
  None

ASSUME LoginNumbers == Window \in Nat \ {0} /\ Limit \in Nat \ {0} /\ Threads \in Nat \ {0}
ASSUME LoginBounds == TokenTTL \in Nat /\ MaxTime \in Nat /\ MaxFaults \in Nat
ASSUME LocalKeyAssumption == LocalKey \notin Remote
ASSUME NobodyAssumption == None \notin Logins \cup Issued \cup Nat
ASSUME TokensAssumption == Logins \cap Issued = {}

VARIABLES
  clock,
  password,   \* whether the operator is set up
  at,         \* where each login is
  began,      \* its variable now
  kept,       \* the recent failures it found, before it stores them
  failures,   \* failed logins the control plane remembers for the client
  expires,    \* table enrollment
  keyFile,    \* identity.enc: none, empty or whole
  handle,     \* app.state.local_agent_process
  process,    \* local agents
  agents,     \* table agents: the token each key was registered with
  raced,      \* history: two unlocks overlapped, or an agent outlived the control plane
  beside,     \* history: a login began beside another, or failures were forgotten by a restart
  lost,       \* history: a failure was forgotten within its window
  faults

throttle == <<began, kept, failures, beside, lost>>
machine == <<expires, keyFile, handle, process, agents, raced>>
vars == <<clock, password, at, throttle, machine, faults>>

Keys == Remote \cup {LocalKey}
Tokens == Logins \cup Issued

Throttling == {"filter", "store", "check", "verify"}
Unlocking == {"unlock", "key", "open", "write", "look", "enroll", "start"}
Ended == {"in", "denied", "limited", "broken", "gone"}
Places == {"new"} \cup Throttling \cup Unlocking \cup Ended

Running(l) == at[l] \in Throttling \cup Unlocking
Goto(l, p) == at' = [at EXCEPT ![l] = p]

\* poll() is None.
Alive(p) == process[p] \in {"enrolling", "ticking"}

Init ==
  /\ clock = 0
  /\ password = FALSE
  /\ at = [l \in Logins |-> "new"]
  /\ began = [l \in Logins |-> 0]
  /\ kept = [l \in Logins |-> {}]
  /\ failures = {}
  /\ expires = [t \in Tokens |-> None]
  /\ keyFile = "none"
  /\ handle = None
  /\ process = [l \in Logins |-> "none"]
  /\ agents = [k \in Keys |-> None]
  /\ raced = FALSE
  /\ beside = FALSE
  /\ lost = FALSE
  /\ faults = 0

Tick ==
  /\ clock < MaxTime
  /\ clock' = clock + 1
  /\ UNCHANGED <<password, at, throttle, machine, faults>>

\* The first setup; any other is refused.
Setup ==
  /\ ~password
  /\ password' = TRUE
  /\ UNCHANGED <<clock, at, throttle, machine, faults>>

-----------------------------------------------------------------------------
(* The throttle.                                                           *)

RecentToTheSecond(l, f) == began[f] >= began[l] - Window
Recent(l, f) == began[f] > began[l] - Window

\* What the client's list forgets when it becomes fs.
Forgets(fs) == lost' = (lost \/ \E f \in failures \ fs : began[f] > clock - Window)

Begin(l) ==
  /\ at[l] = "new"
  /\ Cardinality({m \in Logins : Running(m)}) < Threads
  /\ began' = [began EXCEPT ![l] = clock]
  /\ beside' = (beside \/ \E m \in Logins : at[m] \in Throttling)
  /\ Goto(l, "filter")
  /\ UNCHANGED <<clock, password, kept, failures, lost, machine, faults>>

\* The list is filtered, stored, and read again for its length: three steps.
Filter(l) ==
  /\ at[l] = "filter"
  /\ kept' = [kept EXCEPT ![l] = {f \in failures : Recent(l, f)}]
  /\ Goto(l, "store")
  /\ UNCHANGED <<clock, password, began, failures, beside, lost, machine, faults>>

Store(l) ==
  /\ at[l] = "store"
  /\ failures' = kept[l]
  /\ Forgets(kept[l])
  /\ Goto(l, "check")
  /\ UNCHANGED <<clock, password, began, kept, beside, machine, faults>>

TooManyLate == Cardinality(failures) > Limit
TooMany == Cardinality(failures) >= Limit

Check(l) ==
  /\ at[l] = "check"
  /\ Goto(l, IF TooMany THEN "limited" ELSE "verify")
  /\ UNCHANGED <<clock, password, throttle, machine, faults>>

\* Inside the transaction.  The password may be wrong, or none set up yet.
Deny(l) ==
  /\ at[l] = "verify"
  /\ failures' = failures \cup {l}
  /\ Goto(l, "denied")
  /\ UNCHANGED <<clock, password, began, kept, beside, lost, machine, faults>>

Accept(l) ==
  /\ at[l] = "verify"
  /\ password
  /\ Goto(l, "unlock")
  /\ UNCHANGED <<clock, password, throttle, machine, faults>>

-----------------------------------------------------------------------------
(* unlock_local_agent.                                                     *)

\* poll() is not asked.
WatchedNever == FALSE
Watched == handle # None /\ Alive(handle)

Unlock(l) ==
  /\ at[l] = "unlock"
  /\ IF Watched THEN Goto(l, "in") /\ UNCHANGED raced
     ELSE /\ Goto(l, "key")
          /\ raced' = (raced \/ \E m \in Logins \ {l} : at[m] \in Unlocking \ {"unlock"})
  /\ UNCHANGED <<clock, password, throttle, expires, keyFile, handle, process, agents, faults>>

\* load_key: a file that is there is read, and must be whole.
KeyReadNever == FALSE
KeyRead == keyFile = "whole"

LoadKey(l) ==
  /\ at[l] = "key"
  /\ Goto(l, CASE KeyRead -> "look" [] keyFile = "none" -> "open" [] OTHER -> "broken")
  /\ UNCHANGED <<clock, password, throttle, machine, faults>>

\* os.open with O_EXCL, and the write behind it.
OpenKey(l) ==
  /\ at[l] = "open"
  /\ IF keyFile = "none" THEN keyFile' = "empty" /\ Goto(l, "write")
     ELSE Goto(l, "broken") /\ UNCHANGED keyFile
  /\ UNCHANGED <<clock, password, throttle, expires, handle, process, agents, raced, faults>>

WriteKey(l) ==
  /\ at[l] = "write"
  /\ keyFile' = "whole"
  /\ Goto(l, "look")
  /\ UNCHANGED <<clock, password, throttle, expires, handle, process, agents, raced, faults>>

\* An agent that is not registered yet gets a token.
LookUp(l) ==
  /\ at[l] = "look"
  /\ IF agents[LocalKey] # None THEN Goto(l, "start") /\ UNCHANGED expires
     ELSE /\ Goto(l, "enroll")
          /\ expires' = [expires EXCEPT ![l] = clock + TokenTTL]
  /\ UNCHANGED <<clock, password, throttle, keyFile, handle, process, agents, raced, faults>>

\* Popen, with --enroll if there is a token.
Start(l) ==
  /\ at[l] \in {"enroll", "start"}
  /\ process' = [process EXCEPT ![l] = IF at[l] = "enroll" THEN "enrolling" ELSE "ticking"]
  /\ handle' = l
  /\ Goto(l, "in")
  /\ UNCHANGED <<clock, password, throttle, expires, keyFile, agents, raced, faults>>

-----------------------------------------------------------------------------
(* Enrollment.                                                             *)

\* The enrollment route.
Enrollment(t) ==
  /\ expires[t] = None
  /\ \A k \in Keys : agents[k] # t
  /\ expires' = [expires EXCEPT ![t] = clock + TokenTTL]
  /\ UNCHANGED <<clock, password, at, throttle, keyFile, handle, process, agents, raced, faults>>

Valid(t) == expires[t] # None /\ expires[t] > clock

SpentNever(t) == UNCHANGED expires
\* DELETE FROM enrollment.
Spent(t) == expires' = [expires EXCEPT ![t] = None]

\* The route agents register with, for a new key and a valid token.
Register(k, t) ==
  /\ Valid(t)
  /\ agents[k] = None
  /\ agents' = [agents EXCEPT ![k] = t]
  /\ Spent(t)

RegisterRemote(k, t) ==
  /\ Register(k, t)
  /\ UNCHANGED <<clock, password, at, throttle, keyFile, handle, process, raced, faults>>

RegisterLocal(l) ==
  /\ process[l] = "enrolling"
  /\ Register(LocalKey, l)
  /\ process' = [process EXCEPT ![l] = "ticking"]
  /\ UNCHANGED <<clock, password, at, throttle, keyFile, handle, raced, faults>>

\* 401 or 409: the process does not catch it.
RegisterRefused(l) ==
  /\ process[l] = "enrolling"
  /\ ~Valid(l) \/ agents[LocalKey] # None
  /\ process' = [process EXCEPT ![l] = "dead"]
  /\ UNCHANGED <<clock, password, at, throttle, expires, keyFile, handle, agents, raced, faults>>

-----------------------------------------------------------------------------
(* Faults.                                                                 *)

\* It is killed, or an answer to its registration is lost: it ends.
AgentDies(l) ==
  /\ faults < MaxFaults
  /\ Alive(l)
  /\ process' = [process EXCEPT ![l] = "dead"]
  /\ \/ UNCHANGED <<expires, agents>>
     \/ process[l] = "enrolling" /\ Register(LocalKey, l)
  /\ faults' = faults + 1
  /\ UNCHANGED <<clock, password, at, throttle, keyFile, handle, raced>>

\* The control plane forgets its failures and its process; the process lives on.
Restart ==
  /\ faults < MaxFaults
  /\ at' = [l \in Logins |-> IF Running(l) THEN "gone" ELSE at[l]]
  /\ failures' = {}
  /\ Forgets({})
  /\ beside' = TRUE
  /\ handle' = None
  /\ raced' = (raced \/ keyFile = "empty" \/ \E l \in Logins : Alive(l))
  /\ faults' = faults + 1
  /\ UNCHANGED <<clock, password, began, kept, expires, keyFile, process, agents>>

Next ==
  \/ Tick
  \/ Setup
  \/ \E l \in Logins :
       \/ Begin(l) \/ Filter(l) \/ Store(l) \/ Check(l) \/ Deny(l) \/ Accept(l)
       \/ Unlock(l) \/ LoadKey(l) \/ OpenKey(l) \/ WriteKey(l) \/ LookUp(l) \/ Start(l)
       \/ RegisterLocal(l) \/ RegisterRefused(l) \/ AgentDies(l)
  \/ \E t \in Issued : Enrollment(t) \/ \E k \in Remote : RegisterRemote(k, t)
  \/ Restart

Spec == Init /\ [][Next]_vars

-----------------------------------------------------------------------------
(* Properties.                                                             *)

LoginTypeOK ==
  /\ clock \in 0..MaxTime
  /\ password \in BOOLEAN
  /\ at \in [Logins -> Places]
  /\ began \in [Logins -> Nat]
  /\ kept \in [Logins -> SUBSET Logins]
  /\ failures \in SUBSET Logins
  /\ expires \in [Tokens -> Nat \cup {None}]
  /\ keyFile \in {"none", "empty", "whole"}
  /\ handle \in Logins \cup {None}
  /\ process \in [Logins -> {"none", "enrolling", "ticking", "dead"}]
  /\ agents \in [Keys -> Tokens \cup {None}]
  /\ raced \in BOOLEAN
  /\ beside \in BOOLEAN
  /\ lost \in BOOLEAN
  /\ faults \in 0..MaxFaults

Denied == {l \in Logins : at[l] = "denied"}
Guesses == {l \in Denied : began[l] > clock - Window}

\* "Login throttling (10 failures/minute per direct peer)" (docs/security.md:5) is
\* exact for logins that come one after the other: never more failures in a window,
\* and nobody is locked out who has not failed that often in the window before.
ThrottleIsExact ==
  ~beside =>
    /\ Cardinality(Guesses) <= Limit
    /\ \A l \in Logins : at[l] = "limited" =>
         Cardinality({f \in Denied : began[f] \in (began[l] - Window + 1)..began[l]}) >= Limit

\* Logins beside each other pass the check before one of them fails: that makes one
\* failure more for each other thread, and nothing else does but a list that is
\* stored late, or a restart, which forgets failures.
ThrottleIsBounded == ~lost => Cardinality(Guesses) <= Limit + Threads - 1

\* Two agents run on one data directory only after two unlocks that overlapped, or
\* if one outlived its control plane; however tokens, keys and deaths come in between.
OneLocalAgent == ~raced => \A l, m \in Logins : Alive(l) /\ Alive(m) => l = m

\* A login with the right password fails only beside another one that makes the
\* key file too, or after a control plane that died while it wrote it.
UnlockFailsOnlyRaced == ~raced => \A l \in Logins : at[l] # "broken"

\* A token registers one key, and an agent that takes jobs is registered, also if it
\* was started without a token.
RegisteredOnce ==
  /\ \A j, k \in Keys : agents[j] # None /\ agents[j] = agents[k] => j = k
  /\ \A l \in Logins : process[l] = "ticking" => agents[LocalKey] # None
=============================================================================
