-------------------------- MODULE OperatorSession --------------------------
(***************************************************************************)
(* The sessions of the operator, control.py:221-245, 296-341, and the      *)
(* shared identity that is kept with each of them in memory,               *)
(* identity_bridge.py:97-225 and its callers in lines 554-632.             *)
(*                                                                         *)
(* The identity is obtained from the account service across an await,      *)
(* while logouts run in threads.  Every request first passes operator,     *)
(* which looks at the session once.  Whether the password of a login was   *)
(* right, and how many logins there may be, is in OperatorLogin; the       *)
(* modules a token is used for are external.                               *)
(***************************************************************************)
EXTENDS Integers, FiniteSets

CONSTANTS
  Sessions,   \* hashes of session tokens, each made by one login
  Requests,   \* requests with a session
  Modules,    \* modules an account can be paired with: pm and qa
  TTL,        \* 3600 seconds, of sessions and at most of identities
  Window,     \* 60 seconds
  Limit,      \* 5 attempts
  MaxTime,    \* bound: clock
  MaxRestarts,\* bound: ends of the control plane
  None

ASSUME SessionNumbers == TTL \in Nat \ {0} /\ Window \in Nat \ {0} /\ Limit \in Nat \ {0}
ASSUME SessionBounds == MaxTime \in Nat /\ MaxRestarts \in Nat
ASSUME ModuleNames == Modules \cap {"operator", "use", "connect", "disconnect", "logout"} = {}
ASSUME NoSession == None \notin Nat \cup Sessions

VARIABLES
  clock,
  sso,         \* config: whether this process has an owner exchange token
  opened,      \* when each session was opened
  expires,     \* table sessions
  connection,  \* connections: when the identity of a session expires
  attempts,    \* attempts of this process, with their time
  at,          \* where each request is
  kind,        \* what it is
  of,          \* its session
  out,         \* history: sessions that were logged out
  overtaken,   \* history: those with another request in flight at their logout
  asked,       \* history: every attempt of this process, never pruned
  restarts

request == <<at, kind, of>>
history == <<out, overtaken, asked>>
vars == <<clock, sso, opened, expires, connection, attempts, request, history, restarts>>

Owner == "operator"
Kinds == {"use", "connect", "disconnect", "logout"} \cup Modules
Attempt == [name : {Owner} \cup Modules, by : Requests, time : Nat]

Init ==
  /\ clock = 0
  /\ sso \in BOOLEAN
  /\ opened = [s \in Sessions |-> None]
  /\ expires = [s \in Sessions |-> None]
  /\ connection = [s \in Sessions |-> None]
  /\ attempts = {}
  /\ at = [r \in Requests |-> "new"]
  /\ kind = [r \in Requests |-> None]
  /\ of = [r \in Requests |-> None]
  /\ out = {}
  /\ overtaken = {}
  /\ asked = {}
  /\ restarts = 0

Tick ==
  /\ clock < MaxTime
  /\ clock' = clock + 1
  /\ UNCHANGED <<sso, opened, expires, connection, attempts, request, history, restarts>>

Goto(r, p) == at' = [at EXCEPT ![r] = p]
Running(r) == at[r] \in {"begun", "await", "popping"}

-----------------------------------------------------------------------------
(* Sessions.                                                               *)

OldBeforeTime(s) == expires[s] # None /\ expires[s] <= clock + 1
Old(s) == expires[s] # None /\ expires[s] < clock

\* A login deletes what is old.
Login(s) ==
  /\ opened[s] = None
  /\ opened' = [opened EXCEPT ![s] = clock]
  /\ expires' = [t \in Sessions |-> IF t = s THEN clock + TTL ELSE
                                    IF Old(t) THEN None ELSE expires[t]]
  /\ UNCHANGED <<clock, sso, connection, attempts, request, history, restarts>>

\* The dependency operator; anything else is answered with 401.
Operator(s) == expires[s] # None /\ expires[s] > clock

Arrive(r, s, k) ==
  /\ at[r] = "new"
  /\ Operator(s)
  /\ at' = [at EXCEPT ![r] = "begun"]
  /\ kind' = [kind EXCEPT ![r] = k]
  /\ of' = [of EXCEPT ![r] = s]
  /\ UNCHANGED <<clock, sso, opened, expires, connection, attempts, history, restarts>>

\* The row goes first, the identity after it.
Logout(r) ==
  /\ at[r] = "begun" /\ kind[r] = "logout"
  /\ expires' = [expires EXCEPT ![of[r]] = None]
  /\ Goto(r, "popping")
  /\ UNCHANGED <<clock, sso, opened, connection, attempts, kind, of, history, restarts>>

PoppedLater(s) == UNCHANGED connection
Popped(s) == connection' = [connection EXCEPT ![s] = None]

\* About to remove an identity.
Removing(r) ==
  \/ at[r] = "popping"
  \/ at[r] = "begun" /\ kind[r] = "disconnect"

Others(r) == {q \in Requests \ {r} : Running(q) /\ of[q] = of[r]}

Ended(r) ==
  IF kind[r] = "logout"
  THEN /\ out' = out \cup {of[r]}
       /\ overtaken' = overtaken \cup {of[q] : q \in Others(r)}
  ELSE UNCHANGED <<out, overtaken>>

Disconnect(r) ==
  /\ Removing(r)
  /\ Popped(of[r])
  /\ Goto(r, "done")
  /\ Ended(r)
  /\ UNCHANGED <<clock, sso, opened, expires, attempts, kind, of, asked, restarts>>

-----------------------------------------------------------------------------
(* Identities.                                                             *)

\* prune, of connections and attempts.
KeptConnections == [s \in Sessions |->
                      IF connection[s] # None /\ connection[s] <= clock THEN None
                      ELSE connection[s]]
Recent == {a \in attempts : clock - a.time < Window}

Tried(name, r) == [name |-> name, by |-> r, time |-> clock]

LimitedEach(name, r, tried) ==
  Cardinality({a \in tried : a.name = name /\ of[a.by] = of[r]}) >= Limit
\* The limit is global, not one of each session.
Limited(name, r, tried) == Cardinality({a \in tried : a.name = name}) >= Limit

Try(name, r, tried) ==
  /\ attempts' = tried \cup {Tried(name, r)}
  /\ asked' = asked \cup {Tried(name, r)}

\* With an identity: pairing has a limit of its own, and does not prune again.
Proceed(r, tried) ==
  IF kind[r] \notin Modules
  THEN Goto(r, "done") /\ attempts' = tried /\ UNCHANGED asked
  ELSE IF Limited(kind[r], r, tried)
  THEN Goto(r, "refused") /\ attempts' = tried /\ UNCHANGED asked
  ELSE Goto(r, "done") /\ Try(kind[r], r, tried)

\* establish, up to its call of the account service.
Establish(r, tried) ==
  IF Limited(Owner, r, tried)
  THEN Goto(r, "refused") /\ attempts' = tried /\ UNCHANGED asked
  ELSE Goto(r, "await") /\ Try(Owner, r, tried)

\* Any request that needs the identity, up to its first await; connect is for
\* those without SSO.
Begin(r) ==
  /\ at[r] = "begun"
  /\ kind[r] \in {"use", "connect"} \cup Modules
  /\ IF kind[r] = "connect"
     THEN IF sso THEN Goto(r, "refused") /\ UNCHANGED <<connection, attempts, asked>>
          ELSE connection' = KeptConnections /\ Establish(r, Recent)
     ELSE /\ connection' = KeptConnections
          /\ IF KeptConnections[of[r]] # None THEN Proceed(r, Recent)
             ELSE IF sso THEN Establish(r, Recent)
             ELSE Goto(r, "refused") /\ attempts' = Recent /\ UNCHANGED asked
  /\ UNCHANGED <<clock, sso, opened, expires, kind, of, out, overtaken, restarts>>

\* A thread removes a key between prune's list and its look at that key: KeyError.
PruneRaises(r, o) ==
  /\ at[r] = "begun"
  /\ kind[r] \in {"use"} \cup Modules \cup IF sso THEN {} ELSE {"connect"}
  /\ Removing(o)
  /\ connection[of[o]] # None
  /\ Popped(of[o])
  /\ at' = [at EXCEPT ![r] = "refused", ![o] = "done"]
  /\ Ended(o)
  /\ UNCHANGED <<clock, sso, opened, expires, attempts, kind, of, asked, restarts>>

\* The answer of the account service; its identity lasts an hour at most.
Connected(r, ttl) ==
  /\ at[r] = "await"
  /\ connection' = [connection EXCEPT ![of[r]] = clock + ttl]
  /\ Proceed(r, attempts)
  /\ UNCHANGED <<clock, sso, opened, expires, kind, of, out, overtaken, restarts>>

\* It denies, does not answer, or answers with something else.
Denied(r) ==
  /\ at[r] = "await"
  /\ Goto(r, "refused")
  /\ UNCHANGED <<clock, sso, opened, expires, connection, attempts, kind, of, history, restarts>>

\* Sessions are in the database, identities and attempts are not.
Restart ==
  /\ restarts < MaxRestarts
  /\ restarts' = restarts + 1
  /\ sso' \in BOOLEAN
  /\ connection' = [s \in Sessions |-> None]
  /\ attempts' = {}
  /\ asked' = {}
  /\ at' = [r \in Requests |-> IF Running(r) THEN "refused" ELSE at[r]]
  /\ UNCHANGED <<clock, opened, expires, kind, of, out, overtaken>>

Next ==
  \/ Tick
  \/ \E s \in Sessions : Login(s) \/ \E r \in Requests, k \in Kinds : Arrive(r, s, k)
  \/ \E r \in Requests :
       \/ Logout(r) \/ Disconnect(r) \/ Begin(r) \/ Denied(r)
       \/ \E o \in Requests : PruneRaises(r, o)
       \/ \E ttl \in 1..TTL : Connected(r, ttl)
  \/ Restart

Spec == Init /\ [][Next]_vars

-----------------------------------------------------------------------------
(* Properties.                                                             *)

SessionTypeOK ==
  /\ clock \in 0..MaxTime
  /\ sso \in BOOLEAN
  /\ opened \in [Sessions -> Nat \cup {None}]
  /\ expires \in [Sessions -> Nat \cup {None}]
  /\ connection \in [Sessions -> Nat \cup {None}]
  /\ attempts \in SUBSET Attempt
  /\ at \in [Requests -> {"new", "begun", "await", "popping", "done", "refused"}]
  /\ kind \in [Requests -> Kinds \cup {None}]
  /\ of \in [Requests -> Sessions \cup {None}]
  /\ \A r \in Requests : at[r] # "new" => of[r] \in Sessions /\ opened[of[r]] # None
  /\ out \in SUBSET Sessions
  /\ overtaken \in SUBSET Sessions
  /\ asked \in SUBSET Attempt
  /\ restarts \in 0..MaxRestarts

\* The account service and the pairing of a module are asked at most Limit times in
\* any window, whichever and however many sessions ask side by side ("issuing a fresh
\* OIDA session cannot bypass it", identity_bridge.py:152), in the life of a process.
AttemptsAreBounded ==
  \A name \in {Owner} \cup Modules :
    Cardinality({a \in asked : a.name = name /\ clock - a.time < Window}) <= Limit

\* "Logout revokes the hashed session and drops its linked identity from server
\* memory" (docs/security.md:5): an identity is kept for a session that was logged out
\* only if another request of that session was in flight at its logout.
LogoutDropsIdentity == \A s \in out : connection[s] # None => s \in overtaken

\* A session is good until it is logged out or its hour is over, whatever is logged
\* in, purged or restarted meanwhile; and never again after its logout.
SessionLasts ==
  \A s \in Sessions :
    /\ s \in out => ~Operator(s)
    /\ opened[s] # None /\ clock < opened[s] + TTL /\ ~Operator(s) =>
         \/ s \in out
         \/ \E r \in Requests : of[r] = s /\ kind[r] = "logout" /\ at[r] \in {"popping", "refused"}
=============================================================================
