------------------------ MODULE OperatorLoginProofs ------------------------
(***************************************************************************)
(* The local agent, the enrollment tokens and the login throttle, for any  *)
(* number of logins, threads, keys, failures and faults.                   *)
(***************************************************************************)
EXTENDS OperatorLogin, FiniteSetTheorems, TLAPS

-----------------------------------------------------------------------------
(* Types.                                                                  *)

LEMMA InitType == Init => LoginTypeOK
<1> SUFFICES ASSUME Init PROVE LoginTypeOK
  OBVIOUS
<1>1. clock \in 0..MaxTime /\ faults \in 0..MaxFaults
  BY LoginBounds DEF Init
<1>2. at \in [Logins -> Places]
  BY DEF Init, Places
<1>3. /\ began \in [Logins -> Nat]
      /\ kept \in [Logins -> SUBSET Logins]
      /\ expires \in [Tokens -> Nat \cup {None}]
      /\ process \in [Logins -> {"none", "enrolling", "ticking", "dead"}]
      /\ agents \in [Keys -> Tokens \cup {None}]
  BY DEF Init
<1> QED BY <1>1, <1>2, <1>3 DEF Init, LoginTypeOK

\* The steps of a login and of its process.
LoginStep(l) ==
  \/ Begin(l) \/ Filter(l) \/ Store(l) \/ Check(l) \/ Deny(l) \/ Accept(l)
  \/ Unlock(l) \/ LoadKey(l) \/ OpenKey(l) \/ WriteKey(l) \/ LookUp(l) \/ Start(l)
  \/ RegisterLocal(l) \/ RegisterRefused(l) \/ AgentDies(l)

LEMMA GotoType ==
  ASSUME LoginTypeOK, NEW l \in Logins, NEW p \in Places, Goto(l, p)
  PROVE  at' \in [Logins -> Places]
BY DEF LoginTypeOK, Goto

LEMMA RegisterType ==
  ASSUME LoginTypeOK, NEW k \in Keys, NEW t \in Tokens, Register(k, t)
  PROVE  /\ agents' \in [Keys -> Tokens \cup {None}]
         /\ expires' \in [Tokens -> Nat \cup {None}]
BY DEF LoginTypeOK, Register, Spent

LEMMA LoginStepType ==
  ASSUME LoginTypeOK, NEW l \in Logins, LoginStep(l)
  PROVE  LoginTypeOK'
<1> USE DEF throttle, machine
<1> {"new", "filter", "store", "check", "verify", "unlock", "key", "open", "write",
     "look", "enroll", "start", "in", "denied", "limited", "broken", "gone"} \subseteq Places
  BY DEF Places, Throttling, Unlocking, Ended
<1>t. l \in Tokens /\ LocalKey \in Keys
  BY DEF Tokens, Keys
<1>1. CASE Begin(l)
  BY <1>1, GotoType DEF Begin, LoginTypeOK
<1>2. CASE Filter(l)
  BY <1>2, GotoType DEF Filter, LoginTypeOK
<1>3. CASE Store(l)
  BY <1>3, GotoType DEF Store, Forgets, LoginTypeOK
<1>4. CASE Check(l)
  BY <1>4, GotoType DEF Check, LoginTypeOK
<1>5. CASE Deny(l)
  BY <1>5, GotoType DEF Deny, LoginTypeOK
<1>6. CASE Accept(l)
  BY <1>6, GotoType DEF Accept, LoginTypeOK
<1>7. CASE Unlock(l)
  BY <1>7, GotoType DEF Unlock, LoginTypeOK
<1>8. CASE LoadKey(l)
  <2>1. at' \in [Logins -> Places]
    BY <1>8, GotoType DEF LoadKey
  <2> QED BY <1>8, <2>1 DEF LoadKey, LoginTypeOK
<1>9. CASE OpenKey(l)
  BY <1>9, GotoType DEF OpenKey, LoginTypeOK
<1>10. CASE WriteKey(l)
  BY <1>10, GotoType DEF WriteKey, LoginTypeOK
<1>11. CASE LookUp(l)
  <2>1. clock + TokenTTL \in Nat
    BY LoginBounds DEF LoginTypeOK
  <2>2. at' \in [Logins -> Places]
    BY <1>11, GotoType DEF LookUp
  <2>3. expires' \in [Tokens -> Nat \cup {None}]
    BY <1>11, <2>1, <1>t DEF LookUp, LoginTypeOK
  <2> QED BY <1>11, <2>2, <2>3 DEF LookUp, LoginTypeOK
<1>12. CASE Start(l)
  <2>1. at' \in [Logins -> Places]
    BY <1>12, GotoType DEF Start
  <2> QED BY <1>12, <2>1 DEF Start, LoginTypeOK
<1>13. CASE RegisterLocal(l)
  BY <1>13, <1>t, RegisterType DEF RegisterLocal, LoginTypeOK
<1>14. CASE RegisterRefused(l)
  BY <1>14 DEF RegisterRefused, LoginTypeOK
<1>15. CASE AgentDies(l)
  <2>1. /\ agents' \in [Keys -> Tokens \cup {None}]
        /\ expires' \in [Tokens -> Nat \cup {None}]
    BY <1>15, <1>t, RegisterType DEF AgentDies, LoginTypeOK
  <2>2. faults' \in 0..MaxFaults
    BY <1>15, LoginBounds DEF AgentDies, LoginTypeOK
  <2> QED BY <1>15, <2>1, <2>2 DEF AgentDies, LoginTypeOK
<1> QED BY <1>1, <1>2, <1>3, <1>4, <1>5, <1>6, <1>7, <1>8, <1>9, <1>10, <1>11, <1>12,
           <1>13, <1>14, <1>15 DEF LoginStep

LEMMA StepType == LoginTypeOK /\ [Next]_vars => LoginTypeOK'
<1> SUFFICES ASSUME LoginTypeOK, [Next]_vars PROVE LoginTypeOK'
  OBVIOUS
<1>1. CASE Tick
  BY <1>1, LoginBounds DEF Tick, LoginTypeOK, throttle, machine
<1>2. CASE Setup
  BY <1>2 DEF Setup, LoginTypeOK, throttle, machine
<1>3. ASSUME NEW l \in Logins, LoginStep(l) PROVE LoginTypeOK'
  BY <1>3, LoginStepType
<1>4. ASSUME NEW t \in Issued, Enrollment(t) PROVE LoginTypeOK'
  <2>1. t \in Tokens /\ clock + TokenTTL \in Nat
    BY LoginBounds DEF Tokens, LoginTypeOK
  <2> QED BY <1>4, <2>1 DEF Enrollment, LoginTypeOK, throttle
<1>5. ASSUME NEW t \in Issued, NEW k \in Remote, RegisterRemote(k, t) PROVE LoginTypeOK'
  <2>1. t \in Tokens /\ k \in Keys
    BY DEF Tokens, Keys
  <2> QED BY <1>5, <2>1, RegisterType DEF RegisterRemote, LoginTypeOK, throttle
<1>6. CASE Restart
  <2>1. at' \in [Logins -> Places]
    BY <1>6 DEF Restart, LoginTypeOK, Places, Ended
  <2>2. /\ faults' \in 0..MaxFaults /\ beside' \in BOOLEAN /\ raced' \in BOOLEAN
        /\ lost' \in BOOLEAN
    BY <1>6, LoginBounds DEF Restart, Forgets, LoginTypeOK
  <2> QED BY <1>6, <2>1, <2>2 DEF Restart, LoginTypeOK
<1>7. CASE UNCHANGED vars
  BY <1>7 DEF vars, throttle, machine, LoginTypeOK
<1> QED BY <1>1, <1>2, <1>3, <1>4, <1>5, <1>6, <1>7 DEF Next, LoginStep

\* Requests, files, tokens and processes keep their types.
THEOREM LoginTypeCorrect == Spec => []LoginTypeOK
BY InitType, StepType, PTL DEF Spec

-----------------------------------------------------------------------------
(* The inductive invariant.                                                *)

\* From the look at the handle to the process that is stored in it.
Starting == Unlocking \ {"unlock"}

\* While nothing raced, one unlock at a time works on the key file and the handle,
\* and it works only while no process lives.
OneAtATime ==
  ~raced =>
    /\ \A l, m \in Logins : at[l] \in Starting /\ at[m] \in Starting => l = m
    /\ \A l \in Logins : Alive(l) => handle = l
    /\ \A l, m \in Logins : ~(at[l] \in Starting /\ Alive(m))

\* Nor does anyone else touch the key file it found missing.
KeyIsMade ==
  ~raced =>
    /\ \A l \in Logins : at[l] = "open" => keyFile = "none"
    /\ keyFile = "empty" => \E l \in Logins : at[l] = "write"
    /\ \A l \in Logins : at[l] # "broken"

\* The token of a login is made by its look-up, and is spent once it registered a key.
TokensAreFresh ==
  /\ \A l \in Logins :
       at[l] \in {"new", "filter", "store", "check", "verify", "unlock", "key", "open",
                  "write", "look"} =>
         expires[l] = None /\ \A k \in Keys : agents[k] # l
  /\ \A k \in Keys : agents[k] # None => expires[agents[k]] = None

StartIsRegistered ==
  \A l \in Logins : at[l] = "start" \/ process[l] = "ticking" => agents[LocalKey] # None

Inv ==
  LoginTypeOK /\ OneAtATime /\ KeyIsMade /\ TokensAreFresh /\ StartIsRegistered /\ RegisteredOnce

LEMMA InitInv == Init => Inv
<1> SUFFICES ASSUME Init PROVE Inv
  OBVIOUS
<1>1. LoginTypeOK
  BY InitType
<1>2. OneAtATime /\ KeyIsMade
  BY DEF Init, OneAtATime, KeyIsMade, Starting, Unlocking, Alive
<1>3. TokensAreFresh /\ StartIsRegistered /\ RegisteredOnce
  BY NobodyAssumption DEF Init, TokensAreFresh, StartIsRegistered, RegisteredOnce, Tokens, Keys
<1> QED BY <1>1, <1>2, <1>3 DEF Inv

\* Who moves within the throttle, or away from an unlock, disturbs nothing.
LEMMA AwayInv ==
  ASSUME Inv, LoginTypeOK', NEW l \in Logins, NEW p \in Throttling \cup {"unlock", "denied", "limited"},
         at[l] \in {"new"} \cup Throttling, Goto(l, p), UNCHANGED machine
  PROVE  Inv'
<1> USE DEF machine
<1>1. at' = [at EXCEPT ![l] = p] /\ at \in [Logins -> Places]
  BY DEF Goto, Inv, LoginTypeOK
<1>2. /\ at'[l] = p /\ \A m \in Logins \ {l} : at'[m] = at[m]
      /\ p \notin Starting /\ p # "broken" /\ p \notin {"open", "write", "start"}
      /\ at[l] \notin Starting /\ at[l] # "write"
      /\ at[l] \in {"new", "filter", "store", "check", "verify"}
  BY <1>1 DEF Starting, Unlocking, Throttling
<1>3. OneAtATime'
  BY <1>2 DEF Inv, OneAtATime, Alive
<1>4. KeyIsMade'
  BY <1>2 DEF Inv, KeyIsMade
<1>5. TokensAreFresh'
  BY <1>2 DEF Inv, TokensAreFresh
<1>6. StartIsRegistered' /\ RegisteredOnce'
  BY <1>2 DEF Inv, StartIsRegistered, RegisteredOnce
<1> QED BY <1>3, <1>4, <1>5, <1>6 DEF Inv

LEMMA ThrottleInv ==
  ASSUME Inv, LoginTypeOK', NEW l \in Logins,
         Begin(l) \/ Filter(l) \/ Store(l) \/ Check(l) \/ Deny(l) \/ Accept(l)
  PROVE  Inv'
<1>1. /\ UNCHANGED machine
      /\ at[l] \in {"new"} \cup Throttling
      /\ \E p \in Throttling \cup {"unlock", "denied", "limited"} : Goto(l, p)
  BY DEF Begin, Filter, Store, Check, Deny, Accept, Throttling
<1> QED BY <1>1, AwayInv

\* What a registration does to the tokens.
LEMMA RegisterInv ==
  ASSUME Inv, NEW k \in Keys, NEW t \in Tokens, Register(k, t), at' = at
  PROVE  /\ TokensAreFresh'
         /\ \A i, j \in Keys : agents'[i] # None /\ agents'[i] = agents'[j] => i = j
         /\ agents'[k] # None
         /\ \A j \in Keys : agents[j] # None => agents'[j] # None
<1>1. /\ agents' \in [Keys -> Tokens \cup {None}] /\ expires' \in [Tokens -> Nat \cup {None}]
      /\ agents'[k] = t /\ \A j \in Keys \ {k} : agents'[j] = agents[j]
      /\ expires'[t] = None /\ \A u \in Tokens \ {t} : expires'[u] = expires[u]
  BY DEF Inv, LoginTypeOK, Register, Spent
<1>2. t # None
  BY NobodyAssumption DEF Tokens
<1>3. expires[t] # None /\ \A j \in Keys : agents[j] # t
  BY <1>2 DEF Register, Valid, Inv, TokensAreFresh
<1>4. \A i, j \in Keys : agents'[i] # None /\ agents'[i] = agents'[j] => i = j
  BY <1>1, <1>3 DEF Inv, RegisteredOnce
<1>5. TokensAreFresh'
  <2>1. ASSUME NEW l \in Logins,
               at[l] \in {"new", "filter", "store", "check", "verify", "unlock", "key",
                          "open", "write", "look"}
        PROVE  expires'[l] = None /\ \A j \in Keys : agents'[j] # l
    <3>1. l # t /\ l \in Tokens /\ expires[l] = None /\ \A j \in Keys : agents[j] # l
      BY <1>3, <2>1 DEF Inv, TokensAreFresh, Tokens
    <3> QED BY <3>1, <1>1
  <2>2. ASSUME NEW j \in Keys, agents'[j] # None PROVE expires'[agents'[j]] = None
    <3>1. CASE j = k
      BY <3>1, <1>1
    <3>2. CASE j # k
      <4>1. agents'[j] = agents[j] /\ agents[j] \in Tokens /\ agents[j] # t
        BY <3>2, <1>1, <1>3, <2>2 DEF Inv, LoginTypeOK
      <4> QED BY <4>1, <1>1, <2>2 DEF Inv, TokensAreFresh
    <3> QED BY <3>1, <3>2
  <2> QED BY <2>1, <2>2 DEF TokensAreFresh
<1> QED BY <1>1, <1>2, <1>4, <1>5

\* A process that changes its state, or dies, while no login moves.
LEMMA ProcessInv ==
  ASSUME Inv, LoginTypeOK', NEW l \in Logins, Alive(l), NEW x \in {"ticking", "dead"},
         process' = [process EXCEPT ![l] = x],
         UNCHANGED <<at, keyFile, handle, raced>>,
         \/ UNCHANGED <<expires, agents>>
         \/ Register(LocalKey, l),
         x = "ticking" => agents'[LocalKey] # None
  PROVE  Inv'
<1>1. /\ process'[l] = x /\ \A m \in Logins \ {l} : process'[m] = process[m]
      /\ \A m \in Logins : Alive(m)' => Alive(m)
  BY DEF Inv, LoginTypeOK, Alive
<1>2. OneAtATime' /\ KeyIsMade'
  BY <1>1 DEF Inv, OneAtATime, KeyIsMade
<1>3. /\ TokensAreFresh'
      /\ \A i, j \in Keys : agents'[i] # None /\ agents'[i] = agents'[j] => i = j
      /\ agents[LocalKey] # None => agents'[LocalKey] # None
  <2>1. LocalKey \in Keys /\ l \in Tokens
    BY DEF Keys, Tokens
  <2>2. CASE UNCHANGED <<expires, agents>>
    BY <2>2 DEF Inv, TokensAreFresh, RegisteredOnce
  <2>3. CASE Register(LocalKey, l)
    BY <2>1, <2>3, RegisterInv
  <2> QED BY <2>2, <2>3
<1>4. StartIsRegistered' /\ RegisteredOnce'
  BY <1>1, <1>3 DEF Inv, StartIsRegistered, RegisteredOnce
<1> QED BY <1>2, <1>3, <1>4 DEF Inv

LEMMA ProcessStepInv ==
  ASSUME Inv, LoginTypeOK', NEW l \in Logins,
         RegisterLocal(l) \/ RegisterRefused(l) \/ AgentDies(l)
  PROVE  Inv'
<1>t. LocalKey \in Keys /\ l \in Tokens
  BY DEF Keys, Tokens
<1>1. CASE RegisterLocal(l)
  <2>1. /\ Alive(l) /\ process' = [process EXCEPT ![l] = "ticking"]
        /\ UNCHANGED <<at, keyFile, handle, raced>> /\ Register(LocalKey, l)
    BY <1>1 DEF RegisterLocal, Alive
  <2>2. agents'[LocalKey] # None
    BY <2>1, <1>t, RegisterInv
  <2> QED BY <2>1, <2>2, ProcessInv
<1>2. CASE RegisterRefused(l)
  <2>1. /\ Alive(l) /\ process' = [process EXCEPT ![l] = "dead"]
        /\ UNCHANGED <<at, keyFile, handle, raced>> /\ UNCHANGED <<expires, agents>>
    BY <1>2 DEF RegisterRefused, Alive
  <2> QED BY <2>1, ProcessInv
<1>3. CASE AgentDies(l)
  <2>1. /\ Alive(l) /\ process' = [process EXCEPT ![l] = "dead"]
        /\ UNCHANGED <<at, keyFile, handle, raced>>
        /\ UNCHANGED <<expires, agents>> \/ Register(LocalKey, l)
    BY <1>3 DEF AgentDies
  <2> QED BY <2>1, ProcessInv
<1> QED BY <1>1, <1>2, <1>3

\* The steps of an unlock.
LEMMA UnlockInv ==
  ASSUME Inv, LoginTypeOK', NEW l \in Logins,
         Unlock(l) \/ LoadKey(l) \/ OpenKey(l) \/ WriteKey(l)
  PROVE  Inv'
<1>1. /\ at \in [Logins -> Places]
      /\ at[l] \in {"unlock", "key", "open", "write"}
      /\ at'[l] \in {"in", "key", "open", "write", "look", "broken"}
      /\ \A m \in Logins \ {l} : at'[m] = at[m]
      /\ UNCHANGED <<expires, handle, process, agents>>
  BY DEF Unlock, LoadKey, OpenKey, WriteKey, Goto, Inv, LoginTypeOK, machine
<1>2. TokensAreFresh' /\ StartIsRegistered' /\ RegisteredOnce'
  BY <1>1 DEF Inv, TokensAreFresh, StartIsRegistered, RegisteredOnce
<1>3. CASE Unlock(l)
  <2>1. CASE Watched
    <3>1. at'[l] = "in" /\ raced' = raced /\ keyFile' = keyFile
      BY <1>1, <1>3, <2>1 DEF Unlock, Goto, Inv, LoginTypeOK
    <3>2. OneAtATime'
      BY <1>1, <3>1 DEF Inv, OneAtATime, Alive, Starting, Unlocking
    <3>3. KeyIsMade'
      BY <1>1, <1>3, <3>1 DEF Inv, KeyIsMade, Unlock
    <3> QED BY <1>2, <3>2, <3>3 DEF Inv
  <2>2. CASE ~Watched
    <3>1. /\ at[l] = "unlock" /\ at'[l] = "key" /\ keyFile' = keyFile
          /\ raced' = (raced \/ \E m \in Logins \ {l} : at[m] \in Starting)
      BY <1>1, <1>3, <2>2 DEF Unlock, Goto, Inv, LoginTypeOK, Starting
    <3>2. ASSUME ~raced' PROVE ~raced /\ \A m \in Logins : at[m] \notin Starting
      BY <3>1, <3>2 DEF Starting
    <3>3. ASSUME ~raced' PROVE \A m \in Logins : ~Alive(m)
      BY <2>2, <3>2, <3>3, NobodyAssumption DEF Inv, OneAtATime, Watched
    <3>4. OneAtATime'
      BY <1>1, <3>1, <3>2, <3>3 DEF OneAtATime, Alive
    <3>5. KeyIsMade'
      BY <1>1, <3>1, <3>2 DEF Inv, KeyIsMade
    <3> QED BY <1>2, <3>4, <3>5 DEF Inv
  <2> QED BY <2>1, <2>2
<1>4. ASSUME LoadKey(l) \/ OpenKey(l) \/ WriteKey(l)
      PROVE  at[l] \in Starting /\ raced' = raced
  BY <1>4 DEF LoadKey, OpenKey, WriteKey, Starting, Unlocking, machine
<1>5. ASSUME LoadKey(l) \/ OpenKey(l) \/ WriteKey(l) PROVE OneAtATime'
  BY <1>1, <1>4, <1>5 DEF Inv, OneAtATime, Alive
<1>6. CASE LoadKey(l)
  <2>1. /\ at[l] = "key" /\ keyFile' = keyFile
        /\ at'[l] = CASE KeyRead -> "look" [] keyFile = "none" -> "open" [] OTHER -> "broken"
    BY <1>6 DEF LoadKey, Goto, Inv, LoginTypeOK, machine
  <2>2. ASSUME ~raced PROVE keyFile # "empty"
    BY <2>1, <2>2, <1>4, <1>6 DEF Inv, OneAtATime, KeyIsMade, Starting, Unlocking
  <2>3. ~raced => at'[l] # "broken" /\ (at'[l] = "open" => keyFile = "none")
    BY <2>1, <2>2 DEF Inv, LoginTypeOK, KeyRead
  <2>4. KeyIsMade'
    BY <1>1, <1>4, <1>6, <2>1, <2>3 DEF Inv, KeyIsMade
  <2> QED BY <1>2, <1>5, <1>6, <2>4 DEF Inv
<1>7. CASE OpenKey(l)
  <2>1. at[l] = "open"
    BY <1>7 DEF OpenKey
  <2>2. ASSUME ~raced PROVE keyFile = "none" /\ keyFile' = "empty" /\ at'[l] = "write"
    BY <1>7, <2>1, <2>2 DEF Inv, KeyIsMade, OpenKey, Goto, LoginTypeOK
  <2>3. ASSUME ~raced, NEW m \in Logins \ {l} PROVE at[m] \notin Starting
    BY <1>4, <1>7, <2>3 DEF Inv, OneAtATime
  <2>4. KeyIsMade'
    BY <1>1, <1>4, <1>7, <2>2, <2>3 DEF Inv, KeyIsMade, Starting, Unlocking
  <2> QED BY <1>2, <1>5, <1>7, <2>4 DEF Inv
<1>8. CASE WriteKey(l)
  <2>1. at[l] = "write" /\ keyFile' = "whole" /\ at'[l] = "look"
    BY <1>8 DEF WriteKey, Goto, Inv, LoginTypeOK
  <2>2. ASSUME ~raced, NEW m \in Logins \ {l} PROVE at[m] \notin Starting
    BY <1>4, <1>8, <2>2 DEF Inv, OneAtATime
  <2>3. KeyIsMade'
    BY <1>1, <1>4, <1>8, <2>1, <2>2 DEF Inv, KeyIsMade, Starting, Unlocking
  <2> QED BY <1>2, <1>5, <1>8, <2>3 DEF Inv
<1> QED BY <1>3, <1>6, <1>7, <1>8

LEMMA LookUpInv ==
  ASSUME Inv, LoginTypeOK', NEW l \in Logins, LookUp(l) PROVE Inv'
<1>1. /\ at[l] = "look" /\ at'[l] \in {"start", "enroll"}
      /\ \A m \in Logins \ {l} : at'[m] = at[m]
      /\ UNCHANGED <<keyFile, handle, process, agents, raced>>
      /\ at'[l] = "start" => agents[LocalKey] # None
  BY DEF LookUp, Goto, Inv, LoginTypeOK
<1>2. l \in Tokens /\ \A u \in Tokens \ {l} : expires'[u] = expires[u]
  BY DEF LookUp, Inv, LoginTypeOK, Tokens
<1>3. OneAtATime' /\ KeyIsMade'
  BY <1>1 DEF Inv, OneAtATime, KeyIsMade, Alive, Starting, Unlocking
<1>4. TokensAreFresh'
  <2>1. \A k \in Keys : agents[k] # l
    BY <1>1 DEF Inv, TokensAreFresh
  <2>2. ASSUME NEW m \in Logins,
               at'[m] \in {"new", "filter", "store", "check", "verify", "unlock", "key",
                           "open", "write", "look"}
        PROVE  expires'[m] = None /\ \A k \in Keys : agents'[k] # m
    <3>1. m # l /\ m \in Tokens
      BY <1>1, <2>2 DEF Tokens
    <3> QED BY <3>1, <1>1, <1>2, <2>2 DEF Inv, TokensAreFresh
  <2>3. ASSUME NEW k \in Keys, agents'[k] # None PROVE expires'[agents'[k]] = None
    <3>1. agents[k] \in Tokens \ {l}
      BY <1>1, <2>1, <2>3 DEF Inv, LoginTypeOK
    <3> QED BY <3>1, <1>1, <1>2, <2>3 DEF Inv, TokensAreFresh
  <2> QED BY <2>2, <2>3 DEF TokensAreFresh
<1>5. StartIsRegistered' /\ RegisteredOnce'
  BY <1>1 DEF Inv, StartIsRegistered, RegisteredOnce
<1> QED BY <1>3, <1>4, <1>5 DEF Inv

LEMMA StartInv ==
  ASSUME Inv, LoginTypeOK', NEW l \in Logins, Start(l) PROVE Inv'
<1>1. /\ at[l] \in {"start", "enroll"} /\ at'[l] = "in"
      /\ \A m \in Logins \ {l} : at'[m] = at[m] /\ process'[m] = process[m]
      /\ process'[l] = IF at[l] = "enroll" THEN "enrolling" ELSE "ticking"
      /\ handle' = l
      /\ UNCHANGED <<expires, keyFile, agents, raced>>
  BY DEF Start, Goto, Inv, LoginTypeOK
<1>2. OneAtATime'
  <2>1. at[l] \in Starting /\ at'[l] \notin Starting
    BY <1>1 DEF Starting, Unlocking
  <2>2. ASSUME ~raced, NEW m \in Logins \ {l} PROVE at'[m] \notin Starting /\ ~Alive(m)'
    BY <1>1, <2>1, <2>2 DEF Inv, OneAtATime, Alive
  <2> QED BY <1>1, <2>1, <2>2 DEF OneAtATime
<1>3. KeyIsMade' /\ TokensAreFresh'
  BY <1>1 DEF Inv, KeyIsMade, TokensAreFresh
<1>4. StartIsRegistered' /\ RegisteredOnce'
  BY <1>1 DEF Inv, StartIsRegistered, RegisteredOnce
<1> QED BY <1>2, <1>3, <1>4 DEF Inv

LEMMA EnrollmentInv ==
  ASSUME Inv, LoginTypeOK', NEW t \in Issued, Enrollment(t) PROVE Inv'
<1>1. /\ t \in Tokens /\ t \notin Logins
      /\ \A u \in Tokens \ {t} : expires'[u] = expires[u]
      /\ \A k \in Keys : agents[k] # t
      /\ UNCHANGED <<at, keyFile, handle, process, agents, raced>>
  BY TokensAssumption DEF Enrollment, Inv, LoginTypeOK, Tokens
<1>2. OneAtATime' /\ KeyIsMade' /\ StartIsRegistered' /\ RegisteredOnce'
  BY <1>1 DEF Inv, OneAtATime, KeyIsMade, StartIsRegistered, RegisteredOnce, Alive
<1>3. TokensAreFresh'
  <2>1. \A l \in Logins : expires'[l] = expires[l]
    BY <1>1 DEF Tokens
  <2>2. \A k \in Keys : agents[k] # None => expires'[agents[k]] = expires[agents[k]]
    BY <1>1 DEF Inv, LoginTypeOK
  <2> QED BY <1>1, <2>1, <2>2 DEF Inv, TokensAreFresh
<1> QED BY <1>2, <1>3 DEF Inv

LEMMA RegisterRemoteInv ==
  ASSUME Inv, LoginTypeOK', NEW t \in Issued, NEW k \in Remote, RegisterRemote(k, t) PROVE Inv'
<1>1. /\ k \in Keys /\ t \in Tokens /\ LocalKey \in Keys /\ Register(k, t)
      /\ UNCHANGED <<at, keyFile, handle, process, raced>>
  BY DEF RegisterRemote, Keys, Tokens
<1>2. /\ TokensAreFresh'
      /\ \A i, j \in Keys : agents'[i] # None /\ agents'[i] = agents'[j] => i = j
      /\ agents[LocalKey] # None => agents'[LocalKey] # None
  BY <1>1, RegisterInv
<1>3. OneAtATime' /\ KeyIsMade' /\ StartIsRegistered' /\ RegisteredOnce'
  BY <1>1, <1>2 DEF Inv, OneAtATime, KeyIsMade, StartIsRegistered, RegisteredOnce, Alive
<1> QED BY <1>2, <1>3 DEF Inv

LEMMA RestartInv == ASSUME Inv, LoginTypeOK', Restart PROVE Inv'
<1>1. /\ \A l \in Logins : at'[l] \notin Starting /\ at'[l] \notin {"open", "write", "start"}
      /\ \A l \in Logins : at'[l] = "broken" => at[l] = "broken"
      /\ \A l \in Logins : at'[l] \in {"new", "filter", "store", "check", "verify", "unlock",
                                       "key", "open", "write", "look"} => at'[l] = at[l]
      /\ UNCHANGED <<expires, keyFile, process, agents>>
      /\ raced' = (raced \/ keyFile = "empty" \/ \E l \in Logins : Alive(l))
  BY DEF Restart, Running, Starting, Unlocking, Throttling, Inv, LoginTypeOK
<1>2. OneAtATime'
  BY <1>1 DEF Inv, OneAtATime, Alive
<1>3. KeyIsMade' /\ TokensAreFresh' /\ StartIsRegistered' /\ RegisteredOnce'
  BY <1>1 DEF Inv, KeyIsMade, TokensAreFresh, StartIsRegistered, RegisteredOnce
<1> QED BY <1>2, <1>3 DEF Inv

LEMMA StepInv == Inv /\ [Next]_vars => Inv'
<1> SUFFICES ASSUME Inv, [Next]_vars PROVE Inv'
  OBVIOUS
<1>1. LoginTypeOK'
  BY StepType DEF Inv
<1>2. CASE UNCHANGED <<at, machine>>
  BY <1>1, <1>2 DEF machine, Inv, OneAtATime, KeyIsMade, TokensAreFresh, StartIsRegistered,
                    RegisteredOnce, Alive
<1>3. CASE Tick \/ Setup \/ UNCHANGED vars
  BY <1>2, <1>3 DEF Tick, Setup, vars
<1>4. ASSUME NEW l \in Logins, LoginStep(l) PROVE Inv'
  BY <1>1, <1>4, ThrottleInv, UnlockInv, LookUpInv, StartInv, ProcessStepInv DEF LoginStep
<1>5. ASSUME NEW t \in Issued, Enrollment(t) PROVE Inv'
  BY <1>1, <1>5, EnrollmentInv
<1>6. ASSUME NEW t \in Issued, NEW k \in Remote, RegisterRemote(k, t) PROVE Inv'
  BY <1>1, <1>6, RegisterRemoteInv
<1>7. CASE Restart
  BY <1>1, <1>7, RestartInv
<1> QED BY <1>3, <1>4, <1>5, <1>6, <1>7 DEF Next, LoginStep

THEOREM LoginInvariant == Spec => []Inv
BY InitInv, StepInv, PTL DEF Spec

\* However many logins there were: two agents live on one data directory only after
\* overlapping unlocks or a control plane that one of them outlived.
THEOREM OneAgentUnlessRaced == Spec => []OneLocalAgent
<1>1. Inv => OneLocalAgent
  BY DEF Inv, OneAtATime, OneLocalAgent
<1> QED BY <1>1, LoginInvariant, PTL

\* unlock_local_agent raises, and loses a login whose password was right, only beside
\* another unlock or over a key file that a crash tore.
THEOREM UnlockWorksUnlessRaced == Spec => []UnlockFailsOnlyRaced
<1>1. Inv => UnlockFailsOnlyRaced
  BY DEF Inv, KeyIsMade, UnlockFailsOnlyRaced
<1> QED BY <1>1, LoginInvariant, PTL

\* An enrollment token registers one key at most, and whoever takes jobs is registered.
THEOREM TokensRegisterOnce == Spec => []RegisteredOnce
<1>1. Inv => RegisteredOnce
  BY DEF Inv
<1> QED BY <1>1, LoginInvariant, PTL

-----------------------------------------------------------------------------
(* The throttle.                                                           *)

Begun == {l \in Logins : at[l] # "new"}
Active == {l \in Logins : Running(l)}
Verifying == {l \in Logins : at[l] = "verify"}
RecentAt(t, fs) == {f \in fs : began[f] > t - Window}

\* Only finitely many logins began, the threads run a few of them, and the lists
\* hold failed ones.
Remembered ==
  /\ IsFiniteSet(Begun)
  /\ Cardinality(Active) <= Threads
  /\ failures \subseteq Denied
  /\ \A l \in Logins : at[l] = "store" => kept[l] \subseteq Denied

\* While nothing is forgotten: a check that is passed sees all recent failures, and
\* each thread but its own may be past the check as well.
Bounded ==
  ~lost =>
    /\ Guesses \subseteq failures
    /\ Cardinality(Guesses \cup Verifying) <= Limit + Threads - 1

\* Logins one after the other: who is at the throttle is alone there, and its list
\* is what was denied in the window before it.
Before(l) == {f \in Denied : began[f] \in (began[l] - Window + 1)..began[l]}
Alone ==
  ~beside =>
    /\ ~lost
    /\ Cardinality(Guesses) <= Limit
    /\ \A l, m \in Logins : at[l] \in Throttling /\ at[m] \in Throttling => l = m
    /\ \A l \in Logins : at[l] \in Throttling => \A f \in Denied : began[f] <= began[l]
    /\ \A l \in Logins : at[l] = "store" =>
         /\ RecentAt(clock, failures) \subseteq kept[l]
         /\ kept[l] \subseteq RecentAt(began[l], Denied)
    /\ \A l \in Logins : at[l] = "check" => failures \subseteq RecentAt(began[l], Denied)
    /\ \A l \in Logins : at[l] = "verify" => Cardinality(failures) < Limit
    /\ \A l \in Logins : at[l] = "limited" => Cardinality(Before(l)) >= Limit

CountInv ==
  /\ LoginTypeOK
  /\ \A l \in Logins : began[l] <= clock
  /\ Remembered
  /\ Bounded
  /\ Alone

\* A part of a finite set is finite and no larger.
LEMMA Smaller ==
  ASSUME NEW S, IsFiniteSet(S), NEW T, T \subseteq S
  PROVE  /\ IsFiniteSet(T) /\ Cardinality(T) \in Nat /\ Cardinality(S) \in Nat
         /\ Cardinality(T) <= Cardinality(S)
<1>1. T \in SUBSET S
  OBVIOUS
<1>2. IsFiniteSet(T) /\ Cardinality(T) <= Cardinality(S)
  BY <1>1, FS_Subset
<1> QED BY <1>2, FS_CardinalityType

\* What is counted is finite.
LEMMA FiniteCounts ==
  ASSUME CountInv
  PROVE  /\ IsFiniteSet(Active) /\ IsFiniteSet(failures) /\ IsFiniteSet(Denied)
         /\ IsFiniteSet(Guesses) /\ IsFiniteSet(Verifying) /\ IsFiniteSet(Guesses \cup Verifying)
<1>1. /\ Active \subseteq Begun /\ Denied \subseteq Begun /\ Verifying \subseteq Begun
      /\ Guesses \subseteq Denied /\ failures \subseteq Denied
  BY DEF CountInv, Remembered, Active, Running, Throttling, Unlocking, Begun, Denied, Verifying,
     Guesses
<1>2. IsFiniteSet(Begun)
  BY DEF CountInv, Remembered
<1>3. IsFiniteSet(Denied) /\ IsFiniteSet(Active) /\ IsFiniteSet(Verifying)
  BY <1>1, <1>2, Smaller
<1>4. IsFiniteSet(Guesses) /\ IsFiniteSet(failures)
  BY <1>1, <1>3, Smaller
<1>5. Guesses \cup Verifying \subseteq Begun
  BY <1>1
<1>6. IsFiniteSet(Guesses \cup Verifying)
  BY <1>2, <1>5, Smaller
<1> QED BY <1>3, <1>4, <1>6

\* The first part of the invariant, when no login begins.
LEMMA RememberedStep ==
  ASSUME CountInv, Begun' = Begun, Active' \subseteq Active, failures' \subseteq Denied',
         \A l \in Logins : at'[l] = "store" => kept'[l] \subseteq Denied'
  PROVE  Remembered'
<1>1. Cardinality(Active') \in Nat /\ Cardinality(Active) \in Nat /\ Cardinality(Active') <= Cardinality(Active)
  BY FiniteCounts, Smaller
<1>2. Cardinality(Active') <= Threads
  BY <1>1, LoginNumbers DEF CountInv, Remembered
<1> QED BY <1>2 DEF CountInv, Remembered

\* The bound, when nobody passes the check.
LEMMA BoundedStep ==
  ASSUME CountInv,
         ~lost' => /\ ~lost
                   /\ Guesses' \subseteq failures'
                   /\ Guesses' \cup Verifying' \subseteq Guesses \cup Verifying
  PROVE  Bounded'
<1> SUFFICES ASSUME ~lost'
             PROVE  Guesses' \subseteq failures' /\ Cardinality(Guesses' \cup Verifying') <= Limit + Threads - 1
  BY DEF Bounded
<1>1. /\ Cardinality(Guesses' \cup Verifying') \in Nat /\ Cardinality(Guesses \cup Verifying) \in Nat
      /\ Cardinality(Guesses' \cup Verifying') <= Cardinality(Guesses \cup Verifying)
  BY FiniteCounts, Smaller
<1>2. Cardinality(Guesses \cup Verifying) <= Limit + Threads - 1
  BY DEF CountInv, Bounded
<1> QED BY <1>1, <1>2, LoginNumbers

\* Who was locked out for good reason stays so.
LEMMA LimitedStays ==
  ASSUME CountInv, ~beside, Denied \subseteq Denied', IsFiniteSet(Denied'),
         NEW l \in Logins, at[l] = "limited",
         \A m \in Logins : at[m] # "new" => began'[m] = began[m]
  PROVE  Cardinality(Before(l)') >= Limit
<1>1. Before(l) \subseteq Before(l)'
  BY DEF Before, Denied
<1>2. Before(l)' \subseteq Denied'
  BY DEF Before
<1>3. IsFiniteSet(Before(l)')
  BY <1>2, Smaller
<1>4. /\ Cardinality(Before(l)) \in Nat /\ Cardinality(Before(l)') \in Nat
      /\ Cardinality(Before(l)) <= Cardinality(Before(l)')
  BY <1>1, <1>3, Smaller
<1>5. Cardinality(Before(l)) >= Limit
  BY DEF CountInv, Alone
<1> QED BY <1>4, <1>5, LoginNumbers

\* Fewer recent failures stay few.
LEMMA GuessesStay ==
  ASSUME CountInv, ~beside, Guesses' \subseteq Guesses
  PROVE  Cardinality(Guesses') <= Limit
<1>1. /\ Cardinality(Guesses') \in Nat /\ Cardinality(Guesses) \in Nat
      /\ Cardinality(Guesses') <= Cardinality(Guesses)
  BY FiniteCounts, Smaller
<1>2. Cardinality(Guesses) <= Limit
  BY DEF CountInv, Alone
<1> QED BY <1>1, <1>2, LoginNumbers

\* Steps that are not about the throttle.
LEMMA QuietCount ==
  ASSUME CountInv, LoginTypeOK', UNCHANGED <<clock, throttle>>,
         \A m \in Logins : \/ at'[m] = at[m]
                           \/ at[m] \in Unlocking /\ at'[m] \in Unlocking \cup {"in", "broken"}
  PROVE  CountInv'
<1>1. UNCHANGED <<clock, began, kept, failures, beside, lost>>
  BY DEF throttle
<1>2. \A m \in Logins : \A p \in {"new", "denied", "limited"} \cup Throttling :
        at'[m] = p <=> at[m] = p
  BY DEF Throttling, Unlocking
<1>3. \A m \in Logins : at'[m] \in Throttling <=> at[m] \in Throttling
  BY <1>2
<1>4. Begun' = Begun /\ Denied' = Denied /\ Verifying' = Verifying
  BY <1>2 DEF Begun, Denied, Verifying, Throttling
<1>5. Active' \subseteq Active
  BY <1>3 DEF Active, Running, Unlocking
<1>6. Guesses' = Guesses
  BY <1>1, <1>4 DEF Guesses
<1>7. Remembered'
  BY <1>1, <1>2, <1>4, <1>5, RememberedStep DEF CountInv, Remembered, Throttling
<1>8. Bounded'
  BY <1>1, <1>4, <1>6, BoundedStep DEF CountInv, Bounded
<1>9. \A l \in Logins : Before(l)' = Before(l)
  BY <1>1, <1>4 DEF Before
<1>10. Alone'
  BY <1>1, <1>2, <1>3, <1>4, <1>6, <1>9 DEF CountInv, Alone, RecentAt, Throttling
<1> QED BY <1>1, <1>7, <1>8, <1>10 DEF CountInv

\* The clock goes on: failures leave the window.
LEMMA TickCount ==
  ASSUME CountInv, LoginTypeOK', Tick
  PROVE  CountInv'
<1>1. /\ UNCHANGED <<at, began, kept, failures, beside, lost>>
      /\ clock' = clock + 1 /\ clock \in Nat /\ Window \in Nat
      /\ \A m \in Logins : began[m] \in Nat
  BY LoginNumbers, LoginBounds DEF Tick, throttle, CountInv, LoginTypeOK
<1>2. /\ Begun' = Begun /\ Denied' = Denied /\ Verifying' = Verifying /\ Active' = Active
      /\ Denied \subseteq Logins
  BY <1>1 DEF Begun, Denied, Verifying, Active, Running
<1>3. Guesses' \subseteq Guesses
  BY <1>1, <1>2 DEF Guesses
<1>4. Remembered'
  BY <1>1, <1>2, RememberedStep DEF CountInv, Remembered
<1>5. Bounded'
  BY <1>1, <1>2, <1>3, BoundedStep DEF CountInv, Bounded
<1>6. \A l \in Logins : Before(l)' = Before(l)
  BY <1>1, <1>2 DEF Before
<1>7. RecentAt(clock', failures) \subseteq RecentAt(clock, failures)
  BY <1>1 DEF RecentAt, CountInv, LoginTypeOK
<1>8. ~beside => Cardinality(Guesses') <= Limit
  BY <1>3, GuessesStay
<1>9. \A l \in Logins : RecentAt(began[l], Denied)' = RecentAt(began[l], Denied)
  BY <1>1, <1>2 DEF RecentAt
<1>10. RecentAt(clock, failures)' = RecentAt(clock', failures)
  BY <1>1 DEF RecentAt
<1>11. Alone'
  BY <1>1, <1>2, <1>6, <1>7, <1>8, <1>9, <1>10 DEF CountInv, Alone
<1>12. \A l \in Logins : began'[l] <= clock'
  BY <1>1 DEF CountInv
<1> QED BY <1>4, <1>5, <1>11, <1>12 DEF CountInv

\* What one login that moves leaves alone.
LEMMA MoveCount ==
  ASSUME CountInv, NEW l \in Logins, NEW p \in Places, Goto(l, p)
  PROVE  /\ at'[l] = p /\ \A m \in Logins \ {l} : at'[m] = at[m]
         /\ at[l] # "new" /\ p # "new" => Begun' = Begun
         /\ p # "denied" => Denied' = Denied \ {l}
         /\ p = "denied" => Denied' = Denied \cup {l}
         /\ p # "verify" => Verifying' = Verifying \ {l}
         /\ p = "verify" => Verifying' = Verifying \cup {l}
         /\ at[l] \in Throttling => Active' \subseteq Active
<1>1. /\ at'[l] = p /\ \A m \in Logins \ {l} : at'[m] = at[m]
  BY DEF Goto, CountInv, LoginTypeOK
<1> QED BY <1>1 DEF Begun, Denied, Verifying, Active, Running

\* A login begins.
LEMMA BeginCount ==
  ASSUME CountInv, LoginTypeOK', NEW l \in Logins, Begin(l)
  PROVE  CountInv'
<1>1. /\ at[l] = "new" /\ Goto(l, "filter") /\ UNCHANGED <<clock, kept, failures, lost>>
      /\ beside' = (beside \/ \E m \in Logins : at[m] \in Throttling)
      /\ began' = [began EXCEPT ![l] = clock] /\ Cardinality(Active) < Threads
      /\ "filter" \in Places /\ "filter" \in Throttling
  BY DEF Begin, Active, Places, Throttling
<1>2. /\ at'[l] = "filter" /\ (\A m \in Logins \ {l} : at'[m] = at[m])
      /\ Denied' = Denied /\ Verifying' = Verifying
  <2>1. /\ at'[l] = "filter" /\ (\A m \in Logins \ {l} : at'[m] = at[m])
        /\ Denied' = Denied \ {l} /\ Verifying' = Verifying \ {l}
    BY <1>1, MoveCount
  <2> QED BY <1>1, <2>1 DEF Denied, Verifying
<1>3. /\ began'[l] = clock /\ \A m \in Logins \ {l} : began'[m] = began[m]
      /\ clock \in Nat /\ \A m \in Logins : began[m] \in Nat
  BY <1>1 DEF CountInv, LoginTypeOK
<1>4. \A m \in Logins : began'[m] <= clock'
  BY <1>1, <1>3 DEF CountInv
<1>5. Begun' = Begun \cup {l} /\ Active' = Active \cup {l} /\ l \notin Active /\ l \notin Denied
  BY <1>1, <1>2 DEF Begun, Active, Running, Denied, Throttling, Unlocking
<1>6. IsFiniteSet(Begun')
  BY <1>5, FS_AddElement DEF CountInv, Remembered
<1>7. Cardinality(Active') <= Threads
  <2>1. Cardinality(Active') = Cardinality(Active) + 1 /\ Cardinality(Active) \in Nat
    BY <1>5, FiniteCounts, FS_AddElement, FS_CardinalityType
  <2> QED BY <1>1, <2>1, LoginNumbers
<1>8. Remembered'
  BY <1>1, <1>2, <1>6, <1>7 DEF CountInv, Remembered
<1>9. Guesses' = Guesses
  BY <1>1, <1>2, <1>3, <1>5 DEF Guesses
<1>10. Bounded'
  BY <1>1, <1>2, <1>9, BoundedStep DEF CountInv, Bounded
<1>11. Alone'
  <2> SUFFICES ASSUME ~beside'
               PROVE  Alone'
    BY DEF Alone
  <2>1. ~beside /\ \A m \in Logins : at[m] \notin Throttling
    BY <1>1
  <2>2. \A m \in Logins : at'[m] \in Throttling => m = l
    BY <1>2, <2>1
  <2>3. ~lost' /\ Cardinality(Guesses') <= Limit
    BY <1>1, <1>9, <2>1 DEF CountInv, Alone
  <2>4. \A m \in Logins : at'[m] \notin {"store", "check", "verify"}
    BY <1>2, <2>2 DEF Throttling
  <2>5. \A f \in Denied : began[f] <= began'[l] /\ began'[f] = began[f]
    BY <1>3, <1>5 DEF CountInv, Denied
  <2>6. ASSUME NEW m \in Logins, at'[m] = "limited"
        PROVE  Cardinality(Before(m)') >= Limit
    <3>1. at[m] = "limited"
      BY <1>2, <2>6
    <3> QED BY <1>1, <1>2, <1>3, <2>1, <3>1, FiniteCounts, LimitedStays
  <2> QED BY <1>2, <2>2, <2>3, <2>4, <2>5, <2>6 DEF Alone
<1> QED BY <1>4, <1>8, <1>10, <1>11 DEF CountInv

\* It filters the list.
LEMMA FilterCount ==
  ASSUME CountInv, LoginTypeOK', NEW l \in Logins, Filter(l)
  PROVE  CountInv'
<1>1. /\ at[l] = "filter" /\ Goto(l, "store") /\ UNCHANGED <<clock, began, failures, beside, lost>>
      /\ kept' = [kept EXCEPT ![l] = {f \in failures : Recent(l, f)}]
      /\ "store" \in Places /\ "store" \in Throttling /\ at[l] \in Throttling
  BY DEF Filter, Places, Throttling
<1>2. /\ at'[l] = "store" /\ (\A m \in Logins \ {l} : at'[m] = at[m]) /\ Begun' = Begun
      /\ Denied' = Denied /\ Verifying' = Verifying /\ Active' \subseteq Active
  <2>1. /\ at'[l] = "store" /\ (\A m \in Logins \ {l} : at'[m] = at[m]) /\ Begun' = Begun
        /\ Denied' = Denied \ {l} /\ Verifying' = Verifying \ {l} /\ Active' \subseteq Active
    BY <1>1, MoveCount
  <2> QED BY <1>1, <2>1 DEF Denied, Verifying
<1>3. /\ kept'[l] = RecentAt(began[l], failures) /\ \A m \in Logins \ {l} : kept'[m] = kept[m]
  BY <1>1 DEF CountInv, LoginTypeOK, Recent, RecentAt
<1>4. kept'[l] \subseteq failures
  BY <1>3 DEF RecentAt
<1>5. Remembered'
  BY <1>1, <1>2, <1>3, <1>4, RememberedStep DEF CountInv, Remembered
<1>6. Guesses' = Guesses
  BY <1>1, <1>2 DEF Guesses
<1>7. Bounded'
  BY <1>1, <1>2, <1>6, BoundedStep DEF CountInv, Bounded
<1>8. \A m \in Logins : Before(m)' = Before(m) /\ RecentAt(began[m], Denied)' = RecentAt(began[m], Denied)
  BY <1>1, <1>2 DEF Before, RecentAt
<1>9. RecentAt(clock, failures) \subseteq kept'[l] /\ kept'[l] \subseteq RecentAt(began[l], Denied)
  <2>1. /\ began[l] <= clock /\ clock \in Nat /\ (\A f \in Logins : began[f] \in Nat)
        /\ failures \subseteq Logins /\ failures \subseteq Denied
    BY DEF CountInv, LoginTypeOK, Remembered
  <2> QED BY <1>3, <2>1, LoginNumbers DEF RecentAt
<1>10. RecentAt(clock, failures)' = RecentAt(clock, failures)
  BY <1>1 DEF RecentAt
<1>11. Alone'
  <2> SUFFICES ASSUME ~beside
               PROVE  Alone'
    BY <1>1 DEF Alone
  <2>1. \A m \in Logins : at'[m] \in Throttling => m = l
    BY <1>1, <1>2 DEF CountInv, Alone
  <2>2. \A m \in Logins : at'[m] \notin {"check", "verify"} /\ (at'[m] = "store" => m = l)
    BY <1>2, <2>1 DEF Throttling
  <2>3. \A m \in Logins : at'[m] = "limited" => at[m] = "limited"
    BY <1>2
  <2> QED BY <1>1, <1>2, <1>6, <1>8, <1>9, <1>10, <2>1, <2>2, <2>3 DEF CountInv, Alone
<1> QED BY <1>1, <1>5, <1>7, <1>11 DEF CountInv

\* It stores what it kept.
LEMMA StoreCount ==
  ASSUME CountInv, LoginTypeOK', NEW l \in Logins, Store(l)
  PROVE  CountInv'
<1>1. /\ at[l] = "store" /\ Goto(l, "check") /\ UNCHANGED <<clock, began, kept, beside>>
      /\ failures' = kept[l]
      /\ lost' = (lost \/ \E f \in failures \ kept[l] : began[f] > clock - Window)
      /\ "check" \in Places /\ "check" \in Throttling /\ at[l] \in Throttling
  BY DEF Store, Forgets, Places, Throttling
<1>2. /\ at'[l] = "check" /\ (\A m \in Logins \ {l} : at'[m] = at[m]) /\ Begun' = Begun
      /\ Denied' = Denied /\ Verifying' = Verifying /\ Active' \subseteq Active
  <2>1. /\ at'[l] = "check" /\ (\A m \in Logins \ {l} : at'[m] = at[m]) /\ Begun' = Begun
        /\ Denied' = Denied \ {l} /\ Verifying' = Verifying \ {l} /\ Active' \subseteq Active
    BY <1>1, MoveCount
  <2> QED BY <1>1, <2>1 DEF Denied, Verifying
<1>3. Remembered'
  BY <1>1, <1>2, RememberedStep DEF CountInv, Remembered
<1>4. Guesses' = Guesses
  BY <1>1, <1>2 DEF Guesses
<1>5. ASSUME ~lost'
      PROVE  ~lost /\ Guesses \subseteq failures'
  BY <1>1, <1>5 DEF CountInv, Bounded, Guesses
<1>6. Bounded'
  BY <1>2, <1>4, <1>5, BoundedStep
<1>7. \A m \in Logins : Before(m)' = Before(m) /\ RecentAt(began[m], Denied)' = RecentAt(began[m], Denied)
  BY <1>1, <1>2 DEF Before, RecentAt
<1>8. Alone'
  <2> SUFFICES ASSUME ~beside
               PROVE  Alone'
    BY <1>1 DEF Alone
  <2>1. \A m \in Logins : at'[m] \in Throttling => m = l
    BY <1>1, <1>2 DEF CountInv, Alone
  <2>2. /\ \A m \in Logins : at'[m] \notin {"store", "verify"} /\ (at'[m] = "check" => m = l)
        /\ \A m \in Logins : at'[m] = "limited" => at[m] = "limited"
    BY <1>2, <2>1 DEF Throttling
  <2>3. failures' \subseteq RecentAt(began[l], Denied)
    BY <1>1 DEF CountInv, Alone
  <2>4. ~lost'
    BY <1>1 DEF CountInv, Alone, RecentAt
  <2> QED BY <1>1, <1>2, <1>4, <1>7, <2>1, <2>2, <2>3, <2>4 DEF CountInv, Alone
<1> QED BY <1>1, <1>3, <1>6, <1>8 DEF CountInv

\* Only who finds fewer failures than the limit goes on to the password.
LEMMA CheckCount ==
  ASSUME CountInv, LoginTypeOK', NEW l \in Logins, Check(l)
  PROVE  CountInv'
<1>1. /\ at[l] = "check" /\ UNCHANGED <<clock, began, kept, failures, beside, lost>>
      /\ at[l] \in Throttling
  BY DEF Check, Throttling, throttle
<1>n. /\ Cardinality(failures) \in Nat /\ Limit \in Nat /\ Threads \in Nat
  BY FiniteCounts, FS_CardinalityType, LoginNumbers
<1>2. PICK p \in {"limited", "verify"} : /\ Goto(l, p)
                                         /\ p = "limited" => Cardinality(failures) >= Limit
                                         /\ p = "verify" => Cardinality(failures) < Limit
  BY <1>n DEF Check, TooMany
<1>3. p \in Places
  BY DEF Places, Throttling, Ended
<1>4. /\ at'[l] = p /\ (\A m \in Logins \ {l} : at'[m] = at[m]) /\ Begun' = Begun
      /\ Denied' = Denied /\ Active' \subseteq Active
      /\ p = "verify" => Verifying' = Verifying \cup {l}
      /\ p # "verify" => Verifying' = Verifying
  <2>1. /\ at'[l] = p /\ (\A m \in Logins \ {l} : at'[m] = at[m]) /\ Begun' = Begun
        /\ Denied' = Denied \ {l} /\ Active' \subseteq Active
        /\ p = "verify" => Verifying' = Verifying \cup {l}
        /\ p # "verify" => Verifying' = Verifying \ {l}
    BY <1>1, <1>2, <1>3, MoveCount
  <2> QED BY <1>1, <2>1 DEF Denied, Verifying
<1>5. Guesses' = Guesses
  BY <1>1, <1>4 DEF Guesses
<1>6. Remembered'
  BY <1>1, <1>2, <1>4, RememberedStep DEF CountInv, Remembered
<1>7. Bounded'
  <2>1. CASE p = "limited"
    BY <1>1, <1>4, <1>5, <2>1, BoundedStep DEF CountInv, Bounded
  <2>2. CASE p = "verify"
    <3> SUFFICES ASSUME ~lost
                 PROVE  Cardinality(Guesses \cup Verifying') <= Limit + Threads - 1
      BY <1>1, <1>5 DEF CountInv, Bounded
    <3>1. Guesses \subseteq failures
      BY DEF CountInv, Bounded
    <3>2. Cardinality(Guesses) \in Nat /\ Cardinality(Guesses) < Limit
      BY <1>2, <1>n, <2>2, <3>1, FiniteCounts, Smaller
    <3>3. Verifying' \subseteq Active
      BY <1>1, <1>4, <2>2 DEF Verifying, Active, Running, Throttling
    <3>4. IsFiniteSet(Verifying') /\ Cardinality(Verifying') \in Nat /\ Cardinality(Verifying') <= Threads
      <4>1. /\ IsFiniteSet(Verifying') /\ Cardinality(Verifying') \in Nat
            /\ Cardinality(Verifying') <= Cardinality(Active) /\ Cardinality(Active) \in Nat
        BY <3>3, FiniteCounts, Smaller
      <4> QED BY <1>n, <4>1 DEF CountInv, Remembered
    <3>5. /\ Cardinality(Guesses \cup Verifying') \in Nat
          /\ Cardinality(Guesses \cup Verifying') <= Cardinality(Guesses) + Cardinality(Verifying')
      <4>1. IsFiniteSet(Guesses)
        BY FiniteCounts
      <4>2. /\ IsFiniteSet(Guesses \cup Verifying') /\ Cardinality(Guesses \cap Verifying') \in Nat
            /\ Cardinality(Guesses \cup Verifying') =
                 Cardinality(Guesses) + Cardinality(Verifying') - Cardinality(Guesses \cap Verifying')
        BY <3>4, <4>1, FS_Union, FS_Intersection, FS_CardinalityType
      <4>3. Cardinality(Guesses \cup Verifying') \in Nat
        BY <4>2, FS_CardinalityType
      <4> QED BY <3>2, <3>4, <4>2, <4>3
    <3> QED BY <1>n, <3>2, <3>4, <3>5
  <2> QED BY <2>1, <2>2
<1>8. \A m \in Logins : Before(m)' = Before(m) /\ RecentAt(began[m], Denied)' = RecentAt(began[m], Denied)
  BY <1>1, <1>4 DEF Before, RecentAt
<1>9. Alone'
  <2> SUFFICES ASSUME ~beside
               PROVE  Alone'
    BY <1>1 DEF Alone
  <2>1. \A m \in Logins : at'[m] \in Throttling => m = l
    BY <1>1, <1>4 DEF CountInv, Alone
  <2>2. /\ \A m \in Logins : at'[m] \notin {"store", "check"}
        /\ \A m \in Logins : at'[m] = "verify" => m = l
    BY <1>4, <2>1 DEF Throttling
  <2>3. p = "limited" => Cardinality(Before(l)) >= Limit
    <3> SUFFICES ASSUME p = "limited"
                 PROVE  Cardinality(Before(l)) >= Limit
      OBVIOUS
    <3>1. failures \subseteq Before(l)
      <4>1. /\ failures \subseteq RecentAt(began[l], Denied)
            /\ \A f \in Denied : began[f] <= began[l]
        BY <1>1 DEF CountInv, Alone
      <4>2. Denied \subseteq Logins /\ (\A m \in Logins : began[m] \in Nat) /\ Window \in Nat
        BY LoginNumbers DEF CountInv, LoginTypeOK, Denied
      <4> QED BY <4>1, <4>2 DEF Before, RecentAt
    <3>2. IsFiniteSet(Before(l))
      <4>1. Before(l) \subseteq Denied
        BY DEF Before
      <4> QED BY <4>1, FiniteCounts, Smaller
    <3>3. /\ Cardinality(failures) <= Cardinality(Before(l)) /\ Cardinality(Before(l)) \in Nat
      BY <3>1, <3>2, Smaller
    <3> QED BY <1>2, <1>n, <3>3
  <2>4. \A m \in Logins : at'[m] = "limited" => at[m] = "limited" \/ (m = l /\ p = "limited")
    BY <1>4
  <2>5. at'[l] = "verify" => Cardinality(failures') < Limit
    BY <1>1, <1>2, <1>4
  <2> QED BY <1>1, <1>4, <1>5, <1>8, <2>1, <2>2, <2>3, <2>4, <2>5 DEF CountInv, Alone
<1> QED BY <1>1, <1>6, <1>7, <1>9 DEF CountInv

\* A login that is denied is remembered.
LEMMA DenyCount ==
  ASSUME CountInv, LoginTypeOK', NEW l \in Logins, Deny(l)
  PROVE  CountInv'
<1>1. /\ at[l] = "verify" /\ Goto(l, "denied") /\ UNCHANGED <<clock, began, kept, beside, lost>>
      /\ failures' = failures \cup {l}
      /\ "denied" \in Places /\ at[l] \in Throttling /\ "denied" \notin Throttling
  BY DEF Deny, Places, Throttling, Ended
<1>2. /\ at'[l] = "denied" /\ (\A m \in Logins \ {l} : at'[m] = at[m]) /\ Begun' = Begun
      /\ Denied' = Denied \cup {l} /\ Verifying' = Verifying \ {l} /\ Active' \subseteq Active
      /\ l \in Verifying
  <2>1. /\ at'[l] = "denied" /\ (\A m \in Logins \ {l} : at'[m] = at[m]) /\ Begun' = Begun
        /\ Denied' = Denied \cup {l} /\ Verifying' = Verifying \ {l} /\ Active' \subseteq Active
    BY <1>1, MoveCount
  <2> QED BY <1>1, <2>1 DEF Verifying
<1>3. Guesses' \subseteq Guesses \cup {l}
  BY <1>1, <1>2 DEF Guesses
<1>4. Remembered'
  BY <1>1, <1>2, RememberedStep DEF CountInv, Remembered
<1>5. Bounded'
  BY <1>1, <1>2, <1>3, BoundedStep DEF CountInv, Bounded
<1>6. Alone'
  <2> SUFFICES ASSUME ~beside
               PROVE  Alone'
    BY <1>1 DEF Alone
  <2>1. \A m \in Logins : at'[m] \notin Throttling
    BY <1>1, <1>2 DEF CountInv, Alone
  <2>2. \A m \in Logins : at'[m] \notin {"store", "check", "verify"}
    BY <2>1 DEF Throttling
  <2>3. Cardinality(Guesses') <= Limit
    <3>1. ~lost /\ Cardinality(failures) < Limit /\ IsFiniteSet(failures)
      BY <1>1, FiniteCounts DEF CountInv, Alone
    <3>2. Guesses' \subseteq failures'
      BY <1>1, <1>3, <3>1 DEF CountInv, Bounded
    <3>3. /\ IsFiniteSet(failures') /\ Cardinality(failures') <= Cardinality(failures) + 1
          /\ Cardinality(failures) \in Nat /\ Cardinality(failures') \in Nat
      <4>1. /\ IsFiniteSet(failures')
            /\ Cardinality(failures') = IF l \in failures THEN Cardinality(failures) ELSE Cardinality(failures) + 1
        BY <1>1, <3>1, FS_AddElement
      <4>2. Cardinality(failures) \in Nat /\ Cardinality(failures') \in Nat
        BY <3>1, <4>1, FS_CardinalityType
      <4> QED BY <4>1, <4>2
    <3>4. Cardinality(Guesses') \in Nat /\ Cardinality(Guesses') <= Cardinality(failures')
      BY <3>2, <3>3, Smaller
    <3> QED BY <3>1, <3>3, <3>4, LoginNumbers
  <2>4. ASSUME NEW m \in Logins, at'[m] = "limited"
        PROVE  Cardinality(Before(m)') >= Limit
    <3>1. at[m] = "limited"
      BY <1>2, <2>4
    <3>2. IsFiniteSet(Denied')
      BY <1>2, FiniteCounts, FS_AddElement
    <3> QED BY <1>1, <1>2, <3>1, <3>2, LimitedStays
  <2>5. ~lost'
    BY <1>1 DEF CountInv, Alone
  <2> QED BY <2>1, <2>2, <2>3, <2>4, <2>5 DEF Alone
<1> QED BY <1>1, <1>4, <1>5, <1>6 DEF CountInv

\* A login with the right password leaves the throttle.
LEMMA AcceptCount ==
  ASSUME CountInv, LoginTypeOK', NEW l \in Logins, Accept(l)
  PROVE  CountInv'
<1>1. /\ at[l] = "verify" /\ Goto(l, "unlock")
      /\ UNCHANGED <<clock, began, kept, failures, beside, lost>>
      /\ "unlock" \in Places /\ at[l] \in Throttling /\ "unlock" \notin Throttling
  BY DEF Accept, Places, Throttling, Unlocking, throttle
<1>2. /\ at'[l] = "unlock" /\ (\A m \in Logins \ {l} : at'[m] = at[m]) /\ Begun' = Begun
      /\ Denied' = Denied /\ Verifying' = Verifying \ {l} /\ Active' \subseteq Active
  <2>1. /\ at'[l] = "unlock" /\ (\A m \in Logins \ {l} : at'[m] = at[m]) /\ Begun' = Begun
        /\ Denied' = Denied \ {l} /\ Verifying' = Verifying \ {l} /\ Active' \subseteq Active
    BY <1>1, MoveCount
  <2> QED BY <1>1, <2>1 DEF Denied
<1>3. Guesses' = Guesses
  BY <1>1, <1>2 DEF Guesses
<1>4. Remembered'
  BY <1>1, <1>2, RememberedStep DEF CountInv, Remembered
<1>5. Bounded'
  BY <1>1, <1>2, <1>3, BoundedStep DEF CountInv, Bounded
<1>6. \A m \in Logins : Before(m)' = Before(m)
  BY <1>1, <1>2 DEF Before
<1>7. Alone'
  <2> SUFFICES ASSUME ~beside
               PROVE  Alone'
    BY <1>1 DEF Alone
  <2>1. \A m \in Logins : at'[m] \notin Throttling
    BY <1>1, <1>2 DEF CountInv, Alone
  <2>2. /\ \A m \in Logins : at'[m] \notin {"store", "check", "verify"}
        /\ \A m \in Logins : at'[m] = "limited" => at[m] = "limited"
    BY <1>2, <2>1 DEF Throttling
  <2> QED BY <1>1, <1>3, <1>6, <2>1, <2>2 DEF CountInv, Alone
<1> QED BY <1>1, <1>4, <1>5, <1>7 DEF CountInv

\* The control plane starts again, with an empty list.
LEMMA RestartCount ==
  ASSUME CountInv, LoginTypeOK', Restart
  PROVE  CountInv'
<1>1. /\ at' = [l \in Logins |-> IF Running(l) THEN "gone" ELSE at[l]]
      /\ failures' = {} /\ beside' = TRUE /\ UNCHANGED <<clock, began, kept>>
      /\ lost' = (lost \/ \E f \in failures : began[f] > clock - Window)
  BY DEF Restart, Forgets
<1>2. \A l \in Logins : at'[l] = IF Running(l) THEN "gone" ELSE at[l]
  BY <1>1
<1>3. /\ Begun' = Begun /\ Denied' = Denied /\ Verifying' = {} /\ Active' = {}
      /\ \A l \in Logins : at'[l] # "store"
  BY <1>2 DEF Begun, Denied, Verifying, Active, Running, Throttling, Unlocking
<1>4. Remembered'
  BY <1>1, <1>3, RememberedStep DEF CountInv, Remembered
<1>5. Guesses' = Guesses
  BY <1>1, <1>3 DEF Guesses
<1>6. ASSUME ~lost'
      PROVE  ~lost /\ Guesses = {}
  BY <1>1, <1>6 DEF CountInv, Bounded, Guesses
<1>7. Bounded'
  BY <1>3, <1>5, <1>6, BoundedStep
<1>8. Alone'
  BY <1>1 DEF Alone
<1> QED BY <1>1, <1>4, <1>7, <1>8 DEF CountInv

\* No list, no login.
LEMMA InitCount == Init => CountInv
<1> SUFFICES ASSUME Init
             PROVE  CountInv
  OBVIOUS
<1>1. LoginTypeOK
  BY InitType
<1>2. /\ failures = {} /\ lost = FALSE /\ clock = 0
      /\ \A l \in Logins : at[l] = "new" /\ began[l] = 0
  BY DEF Init
<1>3. Begun = {} /\ Active = {} /\ Denied = {} /\ Verifying = {} /\ Guesses = {}
  BY <1>2 DEF Begun, Active, Denied, Verifying, Guesses, Running, Throttling, Unlocking
<1>4. IsFiniteSet({}) /\ Cardinality({}) = 0
  BY FS_EmptySet
<1>5. Remembered
  BY <1>2, <1>3, <1>4, LoginNumbers DEF Remembered
<1>6. Bounded
  <2>1. Cardinality(Guesses \cup Verifying) = 0
    BY <1>3, <1>4
  <2> QED BY <1>3, <2>1, LoginNumbers DEF Bounded
<1>7. Alone
  BY <1>2, <1>3, <1>4, LoginNumbers DEF Alone, Throttling
<1> QED BY <1>1, <1>2, <1>5, <1>6, <1>7 DEF CountInv

\* Every step keeps the count.
LEMMA StepCount == CountInv /\ [Next]_vars => CountInv'
<1> SUFFICES ASSUME CountInv, [Next]_vars
             PROVE  CountInv'
  OBVIOUS
<1>1. LoginTypeOK'
  BY StepType DEF CountInv
<1>2. CASE UNCHANGED <<clock, at, throttle>>
  BY <1>1, <1>2, QuietCount
<1>3. ASSUME NEW l \in Logins, LoginStep(l)
      PROVE  CountInv'
  <2>1. CASE Begin(l) \/ Filter(l) \/ Store(l) \/ Check(l) \/ Deny(l) \/ Accept(l)
    BY <1>1, <2>1, BeginCount, FilterCount, StoreCount, CheckCount, DenyCount, AcceptCount
  <2>2. CASE Unlock(l) \/ LoadKey(l) \/ OpenKey(l) \/ WriteKey(l) \/ LookUp(l) \/ Start(l)
    <3>1. /\ UNCHANGED <<clock, throttle>> /\ at[l] \in Unlocking
          /\ \E p \in Unlocking \cup {"in", "broken"} : Goto(l, p)
      BY <2>2 DEF Unlock, LoadKey, OpenKey, WriteKey, LookUp, Start, Unlocking
    <3>2. PICK p \in Unlocking \cup {"in", "broken"} : Goto(l, p)
      BY <3>1
    <3>3. at'[l] = p /\ \A m \in Logins \ {l} : at'[m] = at[m]
      BY <3>2 DEF Goto, CountInv, LoginTypeOK
    <3> QED BY <1>1, <3>1, <3>3, QuietCount
  <2>3. CASE RegisterLocal(l) \/ RegisterRefused(l) \/ AgentDies(l)
    BY <1>2, <2>3 DEF RegisterLocal, RegisterRefused, AgentDies
  <2> QED BY <1>3, <2>1, <2>2, <2>3 DEF LoginStep
<1>4. CASE Tick
  BY <1>1, <1>4, TickCount
<1>5. CASE Restart
  BY <1>1, <1>5, RestartCount
<1>6. CASE Setup \/ UNCHANGED vars
  BY <1>2, <1>6 DEF Setup, vars
<1>7. ASSUME NEW t \in Issued, Enrollment(t) \/ \E k \in Remote : RegisterRemote(k, t)
      PROVE  CountInv'
  BY <1>2, <1>7 DEF Enrollment, RegisterRemote
<1> QED BY <1>3, <1>4, <1>5, <1>6, <1>7 DEF Next, LoginStep

\* The invariant of the throttle.
THEOREM CountInvariant == Spec => []CountInv
BY InitCount, StepCount, PTL DEF Spec

\* Logins that come one after the other never fail more often in a window than the
\* limit, and are locked out only after so many failures.
THEOREM ThrottleExact == Spec => []ThrottleIsExact
<1>1. CountInv => ThrottleIsExact
  BY DEF CountInv, Alone, Before, ThrottleIsExact
<1> QED BY <1>1, CountInvariant, PTL

\* Logins beside each other exceed the limit by one for each other thread at most,
\* as long as no failure is forgotten within its window.
THEOREM ThrottleBounded == Spec => []ThrottleIsBounded
<1>1. ASSUME CountInv
      PROVE  ThrottleIsBounded
  <2> SUFFICES ASSUME ~lost
               PROVE  Cardinality(Guesses) <= Limit + Threads - 1
    BY DEF ThrottleIsBounded
  <2>1. /\ Cardinality(Guesses) \in Nat /\ Cardinality(Guesses \cup Verifying) \in Nat
        /\ Cardinality(Guesses) <= Cardinality(Guesses \cup Verifying)
    BY <1>1, FiniteCounts, Smaller
  <2>2. Cardinality(Guesses \cup Verifying) <= Limit + Threads - 1
    BY <1>1 DEF CountInv, Bounded
  <2> QED BY <2>1, <2>2, LoginNumbers
<1> QED BY <1>1, CountInvariant, PTL
=============================================================================
