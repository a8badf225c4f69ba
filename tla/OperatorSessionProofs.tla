----------------------- MODULE OperatorSessionProofs -----------------------
(***************************************************************************)
(* Sessions, their identities and the limits, for any number of sessions   *)
(* and requests.                                                           *)
(***************************************************************************)
EXTENDS OperatorSession, FiniteSetTheorems, TLAPS

-----------------------------------------------------------------------------
(* Types.                                                                  *)

LEMMA InitType == Init => SessionTypeOK
<1> SUFFICES ASSUME Init PROVE SessionTypeOK
  OBVIOUS
<1>1. clock \in 0..MaxTime /\ restarts \in 0..MaxRestarts
  BY SessionBounds DEF Init
<1>2. /\ opened \in [Sessions -> Nat \cup {None}]
      /\ expires \in [Sessions -> Nat \cup {None}]
      /\ connection \in [Sessions -> Nat \cup {None}]
      /\ at \in [Requests -> {"new", "begun", "await", "popping", "done", "refused"}]
      /\ kind \in [Requests -> Kinds \cup {None}]
      /\ of \in [Requests -> Sessions \cup {None}]
  BY DEF Init
<1> QED BY <1>1, <1>2 DEF Init, SessionTypeOK

\* What Proceed and Establish do, in one: nothing is tried, or one attempt that the
\* limit allows.
Tries(r, tried) ==
  \/ attempts' = tried /\ UNCHANGED asked
  \/ \E name \in {Owner} \cup Modules : ~Limited(name, r, tried) /\ Try(name, r, tried)

LEMMA TriesFacts ==
  ASSUME NEW r \in Requests, NEW tried, Proceed(r, tried) \/ Establish(r, tried)
  PROVE  /\ Tries(r, tried)
         /\ \E p \in {"done", "refused", "await"} : Goto(r, p)
BY DEF Proceed, Establish, Tries

LEMMA TriesType ==
  ASSUME SessionTypeOK, NEW r \in Requests, NEW tried \in SUBSET Attempt, Tries(r, tried)
  PROVE  attempts' \in SUBSET Attempt /\ asked' \in SUBSET Attempt
<1>1. clock \in Nat
  BY SessionBounds DEF SessionTypeOK
<1> QED BY <1>1 DEF SessionTypeOK, Tries, Try, Tried, Attempt

LEMMA BeginFacts ==
  ASSUME NEW r \in Requests, Begin(r)
  PROVE  /\ at[r] = "begun" /\ kind[r] \in {"use", "connect"} \cup Modules
         /\ \E p \in {"done", "refused", "await"} : Goto(r, p)
         /\ connection' \in {connection, KeptConnections}
         /\ Tries(r, Recent) \/ UNCHANGED <<attempts, asked>>
         /\ UNCHANGED <<clock, sso, opened, expires, kind, of, out, overtaken, restarts>>
<1>1. CASE kind[r] = "connect" /\ sso
  BY <1>1 DEF Begin
<1>2. CASE /\ ~(kind[r] = "connect" /\ sso)
           /\ Proceed(r, Recent) \/ Establish(r, Recent)
  <2>1. connection' = KeptConnections
    BY <1>2 DEF Begin
  <2> QED BY <1>2, <2>1, TriesFacts DEF Begin
<1>3. CASE /\ ~(kind[r] = "connect" /\ sso)
           /\ Goto(r, "refused") /\ attempts' = Recent /\ UNCHANGED asked
  BY <1>3 DEF Begin, Tries
<1> QED BY <1>1, <1>2, <1>3 DEF Begin

\* The end of a logout or a disconnection.
LEMMA EndedFacts ==
  ASSUME SessionTypeOK, NEW o \in Requests, Removing(o), Popped(of[o]), Ended(o)
  PROVE  /\ of[o] \in Sessions
         /\ connection' = [connection EXCEPT ![of[o]] = None]
         /\ out' \in SUBSET Sessions /\ overtaken' \subseteq overtaken \cup {of[o]}
         /\ overtaken' \in SUBSET Sessions
         /\ overtaken \subseteq overtaken'
         /\ out' = out \/ (kind[o] = "logout" /\ out' = out \cup {of[o]})
<1>1. of[o] \in Sessions
  BY DEF Removing, SessionTypeOK
<1>2. {of[q] : q \in Others(o)} \subseteq {of[o]}
  BY DEF Others
<1> QED BY <1>1, <1>2 DEF SessionTypeOK, Popped, Ended

\* A session in the table lasts an hour from its login.
Hour == \A s \in Sessions : expires[s] # None => opened[s] # None /\ expires[s] = opened[s] + TTL

\* Where requests go without any change of their session.
LEMMA AtType ==
  ASSUME SessionTypeOK, NEW r \in Requests, at[r] # "new",
         NEW p \in {"await", "popping", "done", "refused"}, Goto(r, p),
         UNCHANGED <<opened, of>>
  PROVE  /\ at' \in [Requests -> {"new", "begun", "await", "popping", "done", "refused"}]
         /\ \A q \in Requests : at'[q] # "new" => of'[q] \in Sessions /\ opened'[of'[q]] # None
BY DEF SessionTypeOK, Goto

LEMMA StepType == SessionTypeOK /\ Hour /\ [Next]_vars => SessionTypeOK'
<1> SUFFICES ASSUME SessionTypeOK, Hour, [Next]_vars PROVE SessionTypeOK'
  OBVIOUS
<1> USE DEF request, history
<1>n. clock \in Nat /\ clock + TTL \in Nat
  BY SessionBounds, SessionNumbers DEF SessionTypeOK
<1>1. CASE Tick
  BY <1>1, SessionBounds DEF Tick, SessionTypeOK
<1>2. ASSUME NEW s \in Sessions, Login(s) PROVE SessionTypeOK'
  <2>1. /\ opened' \in [Sessions -> Nat \cup {None}]
        /\ expires' \in [Sessions -> Nat \cup {None}]
        /\ \A t \in Sessions : opened[t] # None => opened'[t] # None
    BY <1>2, <1>n, NoSession DEF Login, SessionTypeOK
  <2> QED BY <1>2, <2>1 DEF Login, SessionTypeOK
<1>3. ASSUME NEW s \in Sessions, NEW r \in Requests, NEW k \in Kinds, Arrive(r, s, k)
      PROVE  SessionTypeOK'
  <2>1. expires[s] # None
    BY <1>3 DEF Arrive, Operator
  <2>2. opened[s] # None
    BY <2>1 DEF Hour
  <2> QED BY <1>3, <2>2 DEF Arrive, SessionTypeOK
<1>4. ASSUME NEW r \in Requests, Logout(r) PROVE SessionTypeOK'
  <2>1. /\ at' \in [Requests -> {"new", "begun", "await", "popping", "done", "refused"}]
        /\ \A q \in Requests : at'[q] # "new" => of'[q] \in Sessions /\ opened'[of'[q]] # None
    BY <1>4, AtType DEF Logout
  <2>2. expires' \in [Sessions -> Nat \cup {None}]
    BY <1>4 DEF Logout, SessionTypeOK
  <2> QED BY <1>4, <2>1, <2>2 DEF Logout, SessionTypeOK
<1>5. ASSUME NEW r \in Requests, Disconnect(r) PROVE SessionTypeOK'
  <2>1. /\ at' \in [Requests -> {"new", "begun", "await", "popping", "done", "refused"}]
        /\ \A q \in Requests : at'[q] # "new" => of'[q] \in Sessions /\ opened'[of'[q]] # None
    BY <1>5, AtType DEF Disconnect, Removing
  <2>2. connection' \in [Sessions -> Nat \cup {None}]
        /\ out' \in SUBSET Sessions /\ overtaken' \in SUBSET Sessions
    BY <1>5, EndedFacts DEF Disconnect, SessionTypeOK
  <2> QED BY <1>5, <2>1, <2>2 DEF Disconnect, SessionTypeOK
<1>6. ASSUME NEW r \in Requests, NEW o \in Requests, PruneRaises(r, o) PROVE SessionTypeOK'
  <2>1. /\ at' \in [Requests -> {"new", "begun", "await", "popping", "done", "refused"}]
        /\ \A q \in Requests : at'[q] # "new" => of'[q] \in Sessions /\ opened'[of'[q]] # None
    BY <1>6 DEF PruneRaises, Removing, SessionTypeOK
  <2>2. connection' \in [Sessions -> Nat \cup {None}]
        /\ out' \in SUBSET Sessions /\ overtaken' \in SUBSET Sessions
    BY <1>6, EndedFacts DEF PruneRaises, SessionTypeOK
  <2> QED BY <1>6, <2>1, <2>2 DEF PruneRaises, SessionTypeOK
<1>7. ASSUME NEW r \in Requests, Begin(r) PROVE SessionTypeOK'
  <2>1. /\ at' \in [Requests -> {"new", "begun", "await", "popping", "done", "refused"}]
        /\ \A q \in Requests : at'[q] # "new" => of'[q] \in Sessions /\ opened'[of'[q]] # None
    BY <1>7, AtType, BeginFacts
  <2>2. connection' \in [Sessions -> Nat \cup {None}]
    BY <1>7, BeginFacts DEF SessionTypeOK, KeptConnections
  <2>3. attempts' \in SUBSET Attempt /\ asked' \in SUBSET Attempt
    <3>1. Recent \in SUBSET Attempt
      BY DEF Recent, SessionTypeOK
    <3> QED BY <1>7, <3>1, BeginFacts, TriesType DEF SessionTypeOK
  <2> QED BY <1>7, <2>1, <2>2, <2>3, BeginFacts DEF SessionTypeOK
<1>8. ASSUME NEW r \in Requests, NEW ttl \in 1..TTL, Connected(r, ttl) PROVE SessionTypeOK'
  <2>1. /\ at' \in [Requests -> {"new", "begun", "await", "popping", "done", "refused"}]
        /\ \A q \in Requests : at'[q] # "new" => of'[q] \in Sessions /\ opened'[of'[q]] # None
    BY <1>8, AtType, TriesFacts DEF Connected
  <2>2. connection' \in [Sessions -> Nat \cup {None}]
    <3>1. clock + ttl \in Nat
      BY <1>n, SessionNumbers
    <3> QED BY <1>8, <3>1 DEF Connected, SessionTypeOK
  <2>3. attempts' \in SUBSET Attempt /\ asked' \in SUBSET Attempt
    BY <1>8, TriesFacts, TriesType DEF SessionTypeOK, Connected
  <2> QED BY <1>8, <2>1, <2>2, <2>3 DEF Connected, SessionTypeOK
<1>9. ASSUME NEW r \in Requests, Denied(r) PROVE SessionTypeOK'
  BY <1>9, AtType DEF Denied, SessionTypeOK
<1>10. CASE Restart
  <2>1. restarts' \in 0..MaxRestarts
    BY <1>10, SessionBounds DEF Restart, SessionTypeOK
  <2>2. /\ at' \in [Requests -> {"new", "begun", "await", "popping", "done", "refused"}]
        /\ \A q \in Requests : at'[q] # "new" => of'[q] \in Sessions /\ opened'[of'[q]] # None
    BY <1>10 DEF Restart, SessionTypeOK, Running
  <2> QED BY <1>10, <2>1, <2>2 DEF Restart, SessionTypeOK
<1>11. CASE UNCHANGED vars
  BY <1>11 DEF vars, SessionTypeOK
<1> QED BY <1>1, <1>2, <1>3, <1>4, <1>5, <1>6, <1>7, <1>8, <1>9, <1>10, <1>11 DEF Next

-----------------------------------------------------------------------------
(* Sessions.                                                               *)

\* The row of a session is gone.
Gone(s) == opened[s] # None /\ expires[s] = None

\* Its logout has deleted it.
LoggedOut(s) ==
  \/ s \in out
  \/ \E r \in Requests : of[r] = s /\ kind[r] = "logout" /\ at[r] \in {"popping", "refused"}

Popping == \A r \in Requests : at[r] = "popping" => kind[r] = "logout" /\ Gone(of[r])

Rows ==
  /\ Hour
  /\ Popping
  /\ \A s \in out : Gone(s)
  /\ \A s \in Sessions : Gone(s) /\ clock < opened[s] + TTL => LoggedOut(s)

\* A request of a session that was logged out is one that was in flight then.
Flights == \A r \in Requests : Running(r) /\ of[r] \in out => of[r] \in overtaken

Inv == SessionTypeOK /\ Rows /\ Flights /\ LogoutDropsIdentity

LEMMA InitInv == Init => Inv
<1> SUFFICES ASSUME Init PROVE Inv
  OBVIOUS
<1>1. SessionTypeOK
  BY InitType
<1>2. Rows
  BY DEF Init, Rows, Hour, Popping, Gone
<1>3. Flights /\ LogoutDropsIdentity
  BY DEF Init, Flights, LogoutDropsIdentity
<1> QED BY <1>1, <1>2, <1>3 DEF Inv

\* A request that moves on with nothing new but its place and its identity.
LEMMA MoveInv ==
  ASSUME Inv, SessionTypeOK', NEW r \in Requests, at[r] \in {"begun", "await"},
         NEW p \in {"await", "done", "refused"}, Goto(r, p),
         \A s \in Sessions \ {of[r]} : connection'[s] # None => connection[s] # None,
         connection'[of[r]] # None => connection[of[r]] # None \/ at[r] = "await",
         UNCHANGED <<clock, opened, expires, kind, of, out, overtaken>>
  PROVE  Inv'
<1>1. /\ at'[r] = p /\ \A q \in Requests \ {r} : at'[q] = at[q]
      /\ \A q \in Requests : Running(q)' => Running(q)
      /\ Running(r) /\ of[r] \in Sessions
  BY DEF Goto, Inv, SessionTypeOK, Running
<1>2. Rows'
  <2>1. \A s \in Sessions : LoggedOut(s) => LoggedOut(s)'
    BY <1>1 DEF LoggedOut
  <2> QED BY <1>1, <2>1 DEF Inv, Rows, Hour, Popping, Gone
<1>3. Flights'
  BY <1>1 DEF Inv, Flights
<1>4. LogoutDropsIdentity'
  BY <1>1 DEF Inv, Flights, LogoutDropsIdentity, SessionTypeOK
<1> QED BY <1>2, <1>3, <1>4 DEF Inv

LEMMA LoginInv ==
  ASSUME Inv, SessionTypeOK', NEW s \in Sessions, Login(s) PROVE Inv'
<1>1. /\ opened[s] = None /\ opened'[s] = clock /\ expires'[s] = clock + TTL
      /\ \A t \in Sessions \ {s} :
           /\ opened'[t] = opened[t]
           /\ expires'[t] = IF Old(t) THEN None ELSE expires[t]
      /\ UNCHANGED <<clock, connection, at, kind, of, out, overtaken>>
  BY DEF Login, Inv, SessionTypeOK, request, history
<1>2. clock \in Nat /\ clock + TTL \in Nat
  BY SessionBounds, SessionNumbers DEF Inv, SessionTypeOK
<1>3. s \notin out /\ \A r \in Requests : at[r] # "new" => of[r] # s
  BY <1>1 DEF Inv, Rows, Gone, SessionTypeOK
<1>4. Rows'
  <2>1. Hour'
    BY <1>1, <1>2, NoSession DEF Inv, Rows, Hour
  <2>2. \A t \in Sessions : Gone(t) => Gone(t)'
    BY <1>1 DEF Gone, Old
  <2>3. ASSUME NEW t \in Sessions, Gone(t)', clock' < opened'[t] + TTL PROVE LoggedOut(t)'
    <3>1. t # s
      BY <1>1, <1>2, <2>3, NoSession DEF Gone
    <3>2. ~Old(t)
      <4> SUFFICES ASSUME Old(t) PROVE FALSE
        OBVIOUS
      <4>1. expires[t] = opened[t] + TTL /\ expires[t] < clock
        BY DEF Old, Inv, Rows, Hour
      <4>2. opened[t] \in Nat /\ clock < opened[t] + TTL
        BY <1>1, <2>3, <3>1 DEF Inv, SessionTypeOK, Gone
      <4> QED BY <4>1, <4>2, <1>2, SessionNumbers
    <3>3. Gone(t) /\ clock < opened[t] + TTL
      BY <1>1, <2>3, <3>1, <3>2 DEF Gone
    <3> QED BY <1>1, <3>3 DEF Inv, Rows, LoggedOut
  <2>4. Popping'
    <3> SUFFICES ASSUME NEW r \in Requests, at[r] = "popping"
                 PROVE  kind[r] = "logout" /\ opened'[of[r]] # None /\ expires'[of[r]] = None
      BY <1>1 DEF Popping, Gone
    <3>1. of[r] \in Sessions /\ kind[r] = "logout" /\ Gone(of[r])
      BY DEF Inv, Rows, Popping, SessionTypeOK
    <3> QED BY <3>1, <2>2 DEF Gone
  <2>5. \A t \in out' : Gone(t)'
    BY <1>1, <2>2 DEF Inv, Rows, SessionTypeOK
  <2> QED BY <2>1, <2>3, <2>4, <2>5 DEF Rows
<1>5. Flights' /\ LogoutDropsIdentity'
  BY <1>1 DEF Inv, Flights, LogoutDropsIdentity, Running
<1> QED BY <1>4, <1>5 DEF Inv

LEMMA ArriveInv ==
  ASSUME Inv, SessionTypeOK', NEW s \in Sessions, NEW r \in Requests, NEW k \in Kinds,
         Arrive(r, s, k)
  PROVE  Inv'
<1>1. /\ at[r] = "new" /\ at'[r] = "begun" /\ of'[r] = s
      /\ \A q \in Requests \ {r} : at'[q] = at[q] /\ kind'[q] = kind[q] /\ of'[q] = of[q]
      /\ UNCHANGED <<clock, opened, expires, connection, out, overtaken>>
  BY DEF Arrive, Inv, SessionTypeOK, history
<1>2. s \notin out
  BY DEF Arrive, Operator, Inv, Rows, Gone
<1>3. Rows'
  <2>1. \A t \in Sessions : LoggedOut(t) => LoggedOut(t)'
    BY <1>1 DEF LoggedOut
  <2> QED BY <1>1, <2>1 DEF Inv, Rows, Hour, Popping, Gone
<1>4. Flights' /\ LogoutDropsIdentity'
  BY <1>1, <1>2 DEF Inv, Flights, LogoutDropsIdentity, Running
<1> QED BY <1>3, <1>4 DEF Inv

LEMMA LogoutInv ==
  ASSUME Inv, SessionTypeOK', NEW r \in Requests, Logout(r) PROVE Inv'
<1>1. /\ at[r] = "begun" /\ kind[r] = "logout" /\ at'[r] = "popping"
      /\ of[r] \in Sessions /\ opened[of[r]] # None
      /\ \A q \in Requests \ {r} : at'[q] = at[q]
      /\ expires'[of[r]] = None
      /\ \A s \in Sessions \ {of[r]} : expires'[s] = expires[s]
      /\ UNCHANGED <<clock, opened, connection, kind, of, out, overtaken>>
  BY DEF Logout, Goto, Inv, SessionTypeOK, history
<1>2. Rows'
  <2>1. \A t \in Sessions : Gone(t) => Gone(t)'
    BY <1>1 DEF Gone
  <2>2. LoggedOut(of[r])' /\ Gone(of[r])'
    <3> DEFINE s == of[r]
    <3>1. opened'[s] # None /\ expires'[s] = None
      BY <1>1
    <3>2. \E q \in Requests : of'[q] = s /\ kind'[q] = "logout" /\ at'[q] \in {"popping", "refused"}
      BY <1>1
    <3> QED BY <1>1, <3>1, <3>2 DEF LoggedOut, Gone
  <2>3. \A t \in Sessions : LoggedOut(t) => LoggedOut(t)'
    BY <1>1 DEF LoggedOut
  <2>4. Hour'
    BY <1>1 DEF Inv, Rows, Hour
  <2>5. Popping'
    <3> SUFFICES ASSUME NEW q \in Requests, at'[q] = "popping"
                 PROVE  kind[q] = "logout" /\ opened'[of[q]] # None /\ expires'[of[q]] = None
      BY <1>1 DEF Popping, Gone
    <3>1. CASE q = r
      BY <3>1, <1>1
    <3>2. CASE q # r
      <4>1. of[q] \in Sessions /\ kind[q] = "logout" /\ Gone(of[q])
        BY <3>2, <1>1 DEF Inv, Rows, Popping, SessionTypeOK
      <4> QED BY <4>1, <2>1 DEF Gone
    <3> QED BY <3>1, <3>2
  <2>6. \A t \in out' : Gone(t)'
    BY <1>1, <2>1 DEF Inv, Rows, SessionTypeOK
  <2>7. \A t \in Sessions : Gone(t)' /\ clock' < opened'[t] + TTL => LoggedOut(t)'
    BY <1>1, <2>2, <2>3 DEF Inv, Rows, Gone
  <2> QED BY <2>4, <2>5, <2>6, <2>7 DEF Rows
<1>3. Flights' /\ LogoutDropsIdentity'
  BY <1>1 DEF Inv, Flights, LogoutDropsIdentity, Running
<1> QED BY <1>2, <1>3 DEF Inv

\* An identity is removed; if it was a logout, it is complete.
LEMMA RemovedInv ==
  ASSUME Inv, SessionTypeOK', NEW o \in Requests, Removing(o), Popped(of[o]), Ended(o),
         at'[o] = "done",
         \A q \in Requests \ {o} : at'[q] = at[q] \/ (at[q] = "begun" /\ at'[q] = "refused"),
         UNCHANGED <<clock, opened, expires, kind, of>>
  PROVE  Inv'
<1>1. /\ of[o] \in Sessions
      /\ connection' = [connection EXCEPT ![of[o]] = None]
      /\ overtaken \subseteq overtaken'
      /\ out' = out \/ (kind[o] = "logout" /\ out' = out \cup {of[o]})
  BY EndedFacts DEF Inv
<1>2. kind[o] = "logout" => Gone(of[o]) /\ of[o] \in out'
  BY DEF Removing, Ended, Inv, Rows, Popping
<1>3. Rows'
  <2>1. \A t \in Sessions : LoggedOut(t) => LoggedOut(t)'
    <3> SUFFICES ASSUME NEW t \in Sessions, LoggedOut(t) PROVE LoggedOut(t)'
      OBVIOUS
    <3>1. CASE t \in out
      BY <3>1, <1>1 DEF LoggedOut
    <3>2. ASSUME NEW q \in Requests, of[q] = t, kind[q] = "logout",
                 at[q] \in {"popping", "refused"}
          PROVE  LoggedOut(t)'
      <4>1. CASE q = o
        BY <3>2, <4>1, <1>2 DEF LoggedOut
      <4>2. CASE q # o
        BY <3>2, <4>2 DEF LoggedOut
      <4> QED BY <4>1, <4>2
    <3> QED BY <3>1, <3>2 DEF LoggedOut
  <2>2. \A t \in out' : Gone(t)'
    BY <1>1, <1>2 DEF Inv, Rows, Gone
  <2> QED BY <2>1, <2>2 DEF Inv, Rows, Hour, Popping, Gone
<1>4. Flights'
  <2> SUFFICES ASSUME NEW q \in Requests, Running(q)', of[q] \in out' PROVE of[q] \in overtaken'
    BY DEF Flights
  <2>1. q # o /\ Running(q) /\ at'[q] = at[q]
    BY DEF Running
  <2>2. CASE of[q] \in out
    BY <1>1, <2>1, <2>2 DEF Inv, Flights
  <2>3. CASE of[q] \notin out
    <3>1. kind[o] = "logout" /\ of[q] = of[o]
      BY <1>1, <2>3
    <3> QED BY <2>1, <3>1 DEF Ended, Others
  <2> QED BY <2>2, <2>3
<1>5. LogoutDropsIdentity'
  <2> SUFFICES ASSUME NEW s \in out', connection'[s] # None PROVE s \in overtaken'
    BY DEF LogoutDropsIdentity
  <2>1. s # of[o] /\ s \in Sessions /\ connection'[s] = connection[s]
    BY <1>1 DEF Inv, SessionTypeOK
  <2>2. s \in out
    BY <1>1, <2>1
  <2> QED BY <1>1, <2>1, <2>2 DEF Inv, LogoutDropsIdentity
<1> QED BY <1>3, <1>4, <1>5 DEF Inv

LEMMA RestartInv == ASSUME Inv, SessionTypeOK', Restart PROVE Inv'
<1>1. /\ \A q \in Requests : ~Running(q)'
      /\ \A q \in Requests : at[q] \in {"popping", "refused"} => at'[q] = "refused"
      /\ \A s \in Sessions : connection'[s] = None
      /\ UNCHANGED <<clock, opened, expires, kind, of, out, overtaken>>
  BY DEF Restart, Running, Inv, SessionTypeOK
<1>2. Rows'
  <2>1. \A t \in Sessions : LoggedOut(t) => LoggedOut(t)'
    BY <1>1 DEF LoggedOut
  <2> QED BY <1>1, <2>1 DEF Inv, Rows, Hour, Popping, Gone, Running
<1>3. Flights' /\ LogoutDropsIdentity'
  BY <1>1 DEF Flights, LogoutDropsIdentity, Inv, SessionTypeOK
<1> QED BY <1>2, <1>3 DEF Inv

LEMMA StepInv == Inv /\ [Next]_vars => Inv'
<1> SUFFICES ASSUME Inv, [Next]_vars PROVE Inv'
  OBVIOUS
<1>0. SessionTypeOK'
  BY StepType DEF Inv, Rows
<1>1. CASE Tick
  <2>1. clock \in Nat /\ clock' = clock + 1
    BY <1>1, SessionBounds DEF Tick, Inv, SessionTypeOK
  <2>2. UNCHANGED <<opened, expires, connection, at, kind, of, out, overtaken>>
    BY <1>1 DEF Tick, request, history
  <2>3. Rows'
    <3>1. \A t \in Sessions : Gone(t)' /\ clock' < opened'[t] + TTL => LoggedOut(t)'
      <4> SUFFICES ASSUME NEW t \in Sessions, Gone(t), clock + 1 < opened[t] + TTL
                   PROVE  LoggedOut(t)
        BY <2>1, <2>2 DEF Gone, LoggedOut
      <4>1. opened[t] \in Nat
        BY DEF Gone, Inv, SessionTypeOK
      <4>2. clock < opened[t] + TTL
        BY <2>1, <4>1, SessionNumbers
      <4> QED BY <4>2 DEF Inv, Rows
    <3> QED BY <2>2, <3>1 DEF Inv, Rows, Hour, Popping, Gone
  <2>4. Flights' /\ LogoutDropsIdentity'
    BY <2>2 DEF Inv, Flights, LogoutDropsIdentity, Running
  <2> QED BY <1>0, <2>3, <2>4 DEF Inv
<1>2. ASSUME NEW s \in Sessions, Login(s) PROVE Inv'
  BY <1>0, <1>2, LoginInv
<1>3. ASSUME NEW s \in Sessions, NEW r \in Requests, NEW k \in Kinds, Arrive(r, s, k)
      PROVE  Inv'
  BY <1>0, <1>3, ArriveInv
<1>4. ASSUME NEW r \in Requests, Logout(r) PROVE Inv'
  BY <1>0, <1>4, LogoutInv
<1>5. ASSUME NEW r \in Requests, Disconnect(r) PROVE Inv'
  <2>1. at'[r] = "done" /\ \A q \in Requests \ {r} : at'[q] = at[q]
    BY <1>5 DEF Disconnect, Goto, Inv, SessionTypeOK
  <2> QED BY <1>0, <1>5, <2>1, RemovedInv DEF Disconnect
<1>6. ASSUME NEW r \in Requests, NEW o \in Requests, PruneRaises(r, o) PROVE Inv'
  <2>1. r # o
    BY <1>6, ModuleNames DEF PruneRaises, Removing
  <2>2. /\ at'[o] = "done"
        /\ \A q \in Requests \ {o} : at'[q] = at[q] \/ (at[q] = "begun" /\ at'[q] = "refused")
    BY <1>6, <2>1 DEF PruneRaises, Inv, SessionTypeOK
  <2> QED BY <1>0, <1>6, <2>2, RemovedInv DEF PruneRaises
<1>7. ASSUME NEW r \in Requests, Begin(r) PROVE Inv'
  <2>1. \A s \in Sessions : connection'[s] # None => connection[s] # None
    BY <1>7, BeginFacts DEF KeptConnections
  <2>2. of[r] \in Sessions
    BY <1>7 DEF Begin, Inv, SessionTypeOK
  <2> QED BY <1>0, <1>7, <2>1, <2>2, BeginFacts, MoveInv
<1>8. ASSUME NEW r \in Requests, NEW ttl \in 1..TTL, Connected(r, ttl) PROVE Inv'
  <2>1. \A s \in Sessions \ {of[r]} : connection'[s] # None => connection[s] # None
    BY <1>8 DEF Connected, Inv, SessionTypeOK
  <2>2. /\ at[r] = "await"
        /\ \E p \in {"done", "refused", "await"} : Goto(r, p)
        /\ UNCHANGED <<clock, opened, expires, kind, of, out, overtaken>>
    BY <1>8, TriesFacts DEF Connected
  <2> QED BY <1>0, <2>1, <2>2, MoveInv
<1>9. ASSUME NEW r \in Requests, Denied(r) PROVE Inv'
  BY <1>0, <1>9, MoveInv DEF Denied, history
<1>10. CASE Restart
  BY <1>0, <1>10, RestartInv
<1>11. CASE UNCHANGED vars
  BY <1>0, <1>11 DEF vars, request, history, Inv, Rows, Hour, Popping, Gone, LoggedOut, Flights,
                     LogoutDropsIdentity, Running
<1> QED BY <1>1, <1>2, <1>3, <1>4, <1>5, <1>6, <1>7, <1>8, <1>9, <1>10, <1>11 DEF Next

THEOREM SessionInvariant == Spec => []Inv
BY InitInv, StepInv, PTL DEF Spec

\* Sessions, requests and identities keep their types.
THEOREM SessionTypeCorrect == Spec => []SessionTypeOK
<1>1. Inv => SessionTypeOK
  BY DEF Inv
<1> QED BY <1>1, SessionInvariant, PTL

\* After a logout only a request that was in flight then can leave an identity behind.
THEOREM LogoutDrops == Spec => []LogoutDropsIdentity
<1>1. Inv => LogoutDropsIdentity
  BY DEF Inv
<1> QED BY <1>1, SessionInvariant, PTL

\* A session is good for its hour unless it is logged out, and never after that.
THEOREM SessionsLast == Spec => []SessionLasts
<1>1. ASSUME Inv PROVE SessionLasts
  <2> SUFFICES ASSUME NEW s \in Sessions
               PROVE  /\ s \in out => ~Operator(s)
                      /\ opened[s] # None /\ clock < opened[s] + TTL /\ ~Operator(s) =>
                           LoggedOut(s)
    BY DEF SessionLasts, LoggedOut
  <2>1. s \in out => ~Operator(s)
    BY <1>1 DEF Inv, Rows, Gone, Operator
  <2>2. ASSUME opened[s] # None, clock < opened[s] + TTL, ~Operator(s) PROVE Gone(s)
    BY <1>1, <2>2 DEF Inv, Rows, Hour, Popping, Gone, Operator
  <2> QED BY <1>1, <2>1, <2>2 DEF Inv, Rows
<1> QED BY <1>1, SessionInvariant, PTL

-----------------------------------------------------------------------------
(* The limits.                                                             *)

\* What an attempt is refused by: those of its name in the window.
AskedLately(name) == {a \in asked : a.name = name /\ clock - a.time < Window}

\* Pruning forgets nothing that still counts.
Remembered ==
  /\ IsFiniteSet(asked)
  /\ attempts \subseteq asked
  /\ \A a \in asked : clock - a.time < Window => a \in attempts

Limits == Remembered /\ AttemptsAreBounded

LEMMA InitLimits == Init => Limits
<1> SUFFICES ASSUME Init PROVE Limits
  OBVIOUS
<1>1. asked = {} /\ attempts = {}
  BY DEF Init
<1>2. Remembered
  BY <1>1, FS_EmptySet DEF Remembered
<1>3. ASSUME NEW name PROVE Cardinality(AskedLately(name)) <= Limit
  <2>1. AskedLately(name) = {}
    BY <1>1 DEF AskedLately
  <2>2. Cardinality(AskedLately(name)) = 0
    BY <2>1, FS_EmptySet
  <2> QED BY <2>2, SessionNumbers
<1> QED BY <1>2, <1>3 DEF Limits, AttemptsAreBounded, AskedLately

\* Nothing new is tried, and time may pass.
LEMMA NothingTried ==
  ASSUME SessionTypeOK, SessionTypeOK', Limits,
         clock' \in {clock, clock + 1}, asked' = asked,
         attempts' = attempts \/ (clock' = clock /\ attempts' = Recent)
  PROVE  Limits'
<1>1. clock \in Nat /\ \A a \in asked : a.time \in Nat
  BY SessionBounds DEF SessionTypeOK, Attempt
<1>2. Remembered'
  BY <1>1, SessionNumbers DEF Limits, Remembered, Recent
<1>3. ASSUME NEW name \in {Owner} \cup Modules PROVE Cardinality(AskedLately(name)') <= Limit
  <2>1. AskedLately(name)' \subseteq AskedLately(name)
    BY <1>1, SessionNumbers DEF AskedLately
  <2>2. AskedLately(name) \subseteq asked
    BY DEF AskedLately
  <2>3. /\ IsFiniteSet(AskedLately(name))
        /\ Cardinality(AskedLately(name)') <= Cardinality(AskedLately(name))
    BY <2>1, <2>2, FS_Subset DEF Limits, Remembered
  <2>4. IsFiniteSet(AskedLately(name)')
    BY <2>1, <2>3, FS_Subset
  <2>5. Cardinality(AskedLately(name)) \in Nat /\ Cardinality(AskedLately(name)') \in Nat
    BY <2>3, <2>4, FS_CardinalityType
  <2>6. Cardinality(AskedLately(name)) <= Limit
    BY DEF Limits, AttemptsAreBounded, AskedLately
  <2> QED BY <2>3, <2>5, <2>6, SessionNumbers
<1> QED BY <1>2, <1>3 DEF Limits, AttemptsAreBounded, AskedLately

\* One attempt that the limit allows.
LEMMA OneTried ==
  ASSUME SessionTypeOK, SessionTypeOK', Limits, clock' = clock,
         NEW r \in Requests, NEW tried \in {attempts, Recent}, Tries(r, tried)
  PROVE  Limits'
<1>1. CASE attempts' = tried /\ UNCHANGED asked
  BY <1>1, NothingTried
<1>2. ASSUME NEW n \in {Owner} \cup Modules, ~Limited(n, r, tried), Try(n, r, tried)
      PROVE  Limits'
  <2> DEFINE new == Tried(n, r)
             before == {a \in tried : a.name = n}
  <2>1. clock \in Nat /\ (\A a \in asked : a.time \in Nat) /\ new.time = clock /\ new.name = n
    BY SessionBounds DEF SessionTypeOK, Attempt, Tried
  <2>2. attempts' = tried \cup {new} /\ asked' = asked \cup {new}
    BY <1>2 DEF Try
  <2> HIDE DEF new
  <2>3. tried \subseteq asked /\ \A a \in asked : clock - a.time < Window => a \in tried
    BY DEF Limits, Remembered, Recent
  <2>4. Remembered'
    <3>1. IsFiniteSet(asked')
      BY <2>2, FS_AddElement DEF Limits, Remembered
    <3>2. attempts' \subseteq asked' /\ \A a \in asked' : clock' - a.time < Window => a \in attempts'
      BY <2>2, <2>3
    <3> QED BY <3>1, <3>2 DEF Remembered
  <2>5. IsFiniteSet(before) /\ Cardinality(before) \in Nat /\ Cardinality(before) < Limit
    <3>1. before \subseteq asked
      BY <2>3
    <3>2. IsFiniteSet(before)
      BY <3>1, FS_Subset DEF Limits, Remembered
    <3>3. Cardinality(before) \in Nat
      BY <3>2, FS_CardinalityType
    <3> QED BY <1>2, <3>2, <3>3, SessionNumbers DEF Limited
  <2>6. ASSUME NEW name \in {Owner} \cup Modules PROVE Cardinality(AskedLately(name)') <= Limit
    <3>1. CASE name = n
      <4>1. AskedLately(name)' \subseteq before \cup {new}
        BY <2>2, <2>3, <3>1 DEF AskedLately
      <4>2. IsFiniteSet(before \cup {new}) /\ Cardinality(before \cup {new}) <= Cardinality(before) + 1
        <5> HIDE DEF before
        <5>1. IsFiniteSet(before)
          BY <2>5
        <5>2. IsFiniteSet(before \cup {new})
          BY <5>1, FS_AddElement
        <5>3. Cardinality(before \cup {new}) = (IF new \in before THEN Cardinality(before) ELSE Cardinality(before) + 1)
          BY <5>1, FS_AddElement
        <5>4. Cardinality(before) \in Nat
          BY <2>5
        <5> QED BY <5>2, <5>3, <5>4
      <4>3. /\ IsFiniteSet(AskedLately(name)')
            /\ Cardinality(AskedLately(name)') <= Cardinality(before \cup {new})
        BY <4>1, <4>2, FS_Subset
      <4>4. /\ Cardinality(AskedLately(name)') \in Nat
            /\ Cardinality(before \cup {new}) \in Nat
        BY <4>2, <4>3, FS_CardinalityType
      <4> QED BY <2>5, <4>2, <4>3, <4>4, SessionNumbers
    <3>2. CASE name # n
      <4>1. AskedLately(name)' = AskedLately(name)
        BY <2>1, <2>2, <3>2 DEF AskedLately
      <4> QED BY <4>1 DEF Limits, AttemptsAreBounded, AskedLately
    <3> QED BY <3>1, <3>2
  <2> QED BY <2>4, <2>6 DEF Limits, AttemptsAreBounded, AskedLately
<1> QED BY <1>1, <1>2 DEF Tries

LEMMA StepLimits == Inv /\ Limits /\ [Next]_vars => Limits'
<1> SUFFICES ASSUME Inv, Limits, [Next]_vars PROVE Limits'
  OBVIOUS
<1>0. SessionTypeOK /\ SessionTypeOK'
  BY StepInv DEF Inv
<1>1. CASE clock' \in {clock, clock + 1} /\ UNCHANGED <<attempts, asked>>
  BY <1>0, <1>1, NothingTried
<1>2. ASSUME NEW r \in Requests, Begin(r) PROVE Limits'
  <2>1. clock' = clock
    BY <1>2, BeginFacts
  <2>2. CASE UNCHANGED <<attempts, asked>>
    BY <1>1, <2>1, <2>2
  <2>3. CASE Tries(r, Recent)
    BY <1>0, <2>1, <2>3, OneTried
  <2> QED BY <1>2, <2>2, <2>3, BeginFacts
<1>3. ASSUME NEW r \in Requests, NEW ttl \in 1..TTL, Connected(r, ttl) PROVE Limits'
  <2>1. clock' = clock /\ Tries(r, attempts)
    BY <1>3, TriesFacts DEF Connected
  <2> QED BY <1>0, <2>1, OneTried
<1>4. CASE Restart
  <2>1. asked' = {} /\ attempts' = {}
    BY <1>4 DEF Restart
  <2>2. Remembered'
    BY <2>1, FS_EmptySet DEF Remembered
  <2>3. ASSUME NEW name PROVE Cardinality(AskedLately(name)') <= Limit
    <3>1. AskedLately(name)' = {}
      BY <2>1 DEF AskedLately
    <3>2. Cardinality(AskedLately(name)') = 0
      BY <3>1, FS_EmptySet
    <3> QED BY <3>2, SessionNumbers
  <2> QED BY <2>2, <2>3 DEF Limits, AttemptsAreBounded, AskedLately
<1>5. \/ clock' \in {clock, clock + 1} /\ UNCHANGED <<attempts, asked>>
      \/ \E r \in Requests : Begin(r) \/ \E ttl \in 1..TTL : Connected(r, ttl)
      \/ Restart
  BY DEF Next, vars, request, history, Tick, Login, Arrive, Logout, Disconnect, Denied,
         PruneRaises
<1> QED BY <1>1, <1>2, <1>3, <1>4, <1>5

\* However many sessions and requests ask side by side, the account service and each
\* pairing are asked at most Limit times in any window.
THEOREM AttemptsBounded == Spec => []AttemptsAreBounded
<1>1. Init => Inv /\ Limits
  BY InitInv, InitLimits
<1>2. Inv /\ Limits /\ [Next]_vars => (Inv /\ Limits)'
  BY StepInv, StepLimits
<1>3. Limits => AttemptsAreBounded
  BY DEF Limits
<1> QED BY <1>1, <1>2, <1>3, PTL DEF Spec
=============================================================================
