------------------------ MODULE AgentRequestsProofs ------------------------
(***************************************************************************)
(* That a signed request is acted on once, or, if it was admitted too long *)
(* before its timestamp, twice at most: for any number of requests, any    *)
(* clocks of the agents, and any times that PurgeAssumption allows.        *)
(***************************************************************************)
EXTENDS AgentRequests, TLAPS

-----------------------------------------------------------------------------
(* The inductive invariant.                                                *)

\* A request on its way passed the clock check at most MaxWait ago.
CheckingRow ==
  checking # None =>
    /\ Signed(checking.req)
    /\ checking.since <= now /\ now <= checking.since + MaxWait
    /\ checking.since <= stamp[checking.req] + Window
    /\ stamp[checking.req] <= checking.since + Window

\* A nonce is not older than its request's timestamp by more than the window, or
\* by more than the margin if the request is not ahead.
NonceRow(r) ==
  nonces[r] # None =>
    /\ Signed(r) /\ nonces[r] <= now
    /\ stamp[r] <= nonces[r] + Window
    /\ r \notin ahead => stamp[r] <= nonces[r] + Margin

\* A request that is not ahead is acted on once, and from then on remembered while
\* it could pass.
OnceRow(r) ==
  /\ Acted(r) > 0 => Signed(r)
  /\ r \notin ahead =>
       /\ Acted(r) <= 1
       /\ Acted(r) > 0 /\ (now <= stamp[r] + Window \/ Checking(r)) => nonces[r] # None

\* Between two admissions a nonce has been kept.
AfterOne(r) == stamp[r] - Window + Keep
AfterTwo(r) == stamp[r] - Window + 2 * Keep
TwiceRow(r) ==
  /\ Acted(r) <= 2
  /\ Acted(r) > 0 /\ nonces[r] = None => now > AfterOne(r)
  /\ Acted(r) > 1 => IF nonces[r] = None THEN now > AfterTwo(r)
                     ELSE nonces[r] > AfterOne(r)

Rows(r) == NonceRow(r) /\ OnceRow(r) /\ TwiceRow(r)
Inv == RequestsTypeOK /\ CheckingRow /\ \A r \in Requests : Rows(r)

USE TimesAssumption, PurgeAssumption, NoneAssumption

-----------------------------------------------------------------------------

LEMMA InitInv == Init => Inv
  BY DEF Init, Inv, RequestsTypeOK, CheckingRow, Rows, NonceRow, OnceRow, TwiceRow, Acted,
         Signed, Checking

LEMMA TickInv == ASSUME Inv, Tick PROVE Inv'
<1>1. RequestsTypeOK' /\ CheckingRow'
  BY DEF Tick, Inv, RequestsTypeOK, CheckingRow, Signed
<1>2. ASSUME NEW r \in Requests PROVE Rows(r)'
  BY DEF Tick, Inv, RequestsTypeOK, Rows, NonceRow, OnceRow, TwiceRow, Acted, AfterOne,
         AfterTwo, Signed, Checking, Margin
<1> QED BY <1>1, <1>2 DEF Inv

LEMMA SignInv == ASSUME NEW r \in Requests, Inv, Sign(r) PROVE Inv'
<1>1. RequestsTypeOK' /\ CheckingRow'
  BY DEF Sign, Inv, RequestsTypeOK, CheckingRow, Signed
<1>2. ASSUME NEW q \in Requests PROVE Rows(q)'
  <2>1. CASE q = r
    BY <2>1 DEF Sign, Inv, RequestsTypeOK, CheckingRow, Rows, NonceRow, OnceRow, TwiceRow, Acted,
                Signed
  <2>2. CASE q # r
    <3>1. stamp'[q] = stamp[q]
      BY <2>2 DEF Sign, Inv, RequestsTypeOK
    <3> QED BY <3>1 DEF Sign, Inv, Rows, NonceRow, OnceRow, TwiceRow, Acted, AfterOne, AfterTwo,
                        Signed, Checking, Margin
  <2> QED BY <2>1, <2>2
<1> QED BY <1>1, <1>2 DEF Inv

LEMMA CheckClockInv == ASSUME NEW r \in Requests, Inv, CheckClock(r) PROVE Inv'
<1>1. RequestsTypeOK' /\ CheckingRow'
  BY DEF CheckClock, InWindow, Inv, RequestsTypeOK, CheckingRow, Signed
<1>2. ASSUME NEW q \in Requests PROVE Rows(q)'
  BY DEF CheckClock, InWindow, Inv, RequestsTypeOK, Rows, NonceRow, OnceRow, TwiceRow, Acted,
         AfterOne, AfterTwo, Signed, Checking, Margin
<1> QED BY <1>1, <1>2 DEF Inv

\* A purge leaves the nonce of a request that is acted on and not ahead, if it is
\* on its way,
LEMMA KeptKnown ==
  ASSUME NEW r \in Requests, NEW p \in checking.since .. now, Inv, Checking(r),
         Acted(r) > 0, r \notin ahead
  PROVE  Kept(p)[r] # None
  BY DEF Kept, Inv, Rows, RequestsTypeOK, CheckingRow, NonceRow, OnceRow, Checking, Signed, Margin

\* and if its timestamp is one the clock check would still let pass.
LEMMA KeptValid ==
  ASSUME NEW r \in Requests, NEW q \in Requests, NEW p \in checking.since .. now,
         Inv, Checking(r), Acted(q) > 0, q \notin ahead, now <= stamp[q] + Window
  PROVE  Kept(p)[q] # None
  BY DEF Kept, Inv, Rows, RequestsTypeOK, CheckingRow, NonceRow, OnceRow, Checking, Signed, Margin

\* What a purge removes was kept for its time.
LEMMA PurgeKeeps ==
  ASSUME NEW q \in Requests, NEW p \in checking.since .. now, Inv, checking # None,
         Acted(q) > 0, Kept(p)[q] = None
  PROVE  /\ now > AfterOne(q)
         /\ Acted(q) > 1 => now > AfterTwo(q)
  BY DEF Kept, Inv, Rows, RequestsTypeOK, CheckingRow, NonceRow, OnceRow, TwiceRow, AfterOne,
         AfterTwo, Signed, Acted

LEMMA AdmitInv == ASSUME NEW r \in Requests, Inv, Admit(r) PROVE Inv'
<1>1. PICK p \in checking.since .. now :
        Accepts(r, p) /\ nonces' = [Kept(p) EXCEPT ![r] = now]
  BY DEF Admit
<1>2. Kept(p)[r] = None
  BY <1>1 DEF Accepts
<1>3. /\ checking' = None
      /\ admitted' = [admitted EXCEPT ![r] = @ + 1]
      /\ ahead' = IF stamp[r] > now + Margin THEN ahead \cup {r} ELSE ahead
      /\ UNCHANGED <<now, stamp, handled>>
      /\ Checking(r)
  BY DEF Admit
<1>4. Kept(p) \in [Requests -> Int \cup {None}]
  BY DEF Kept, Inv, RequestsTypeOK
<1>5. RequestsTypeOK'
  BY <1>1, <1>3, <1>4 DEF Inv, RequestsTypeOK, Margin
<1>6. CheckingRow'
  BY <1>3 DEF CheckingRow
<1>7. ASSUME NEW q \in Requests \ {r} PROVE Rows(q)'
  <2>1. /\ nonces'[q] = Kept(p)[q] /\ Acted(q)' = Acted(q) /\ ~Checking(q)'
        /\ q \in ahead' <=> q \in ahead
        /\ Acted(q) \in Nat
    BY <1>1, <1>3, <1>4 DEF Acted, Inv, RequestsTypeOK, Checking
  <2>2. NonceRow(q)'
    BY <1>3, <2>1 DEF Inv, Rows, NonceRow, Kept, Signed, Margin
  <2>3. OnceRow(q)'
    <3>1. /\ Acted(q) > 0 => Signed(q)
          /\ q \notin ahead => Acted(q) <= 1
      BY DEF Inv, Rows, OnceRow
    <3>2. q \notin ahead /\ Acted(q) > 0 /\ now <= stamp[q] + Window => Kept(p)[q] # None
      BY <1>3, KeptValid
    <3> QED BY <1>3, <2>1, <3>1, <3>2 DEF OnceRow, Signed
  <2>4. TwiceRow(q)'
    <3>1. Acted(q) > 0 /\ Kept(p)[q] = None => /\ now > AfterOne(q)
                                               /\ Acted(q) > 1 => now > AfterTwo(q)
      BY <1>3, PurgeKeeps DEF Checking
    <3>2. AfterOne(q)' = AfterOne(q) /\ AfterTwo(q)' = AfterTwo(q) /\ now' = now
      BY <1>3 DEF AfterOne, AfterTwo
    <3>3. Kept(p)[q] # None => Kept(p)[q] = nonces[q]
      BY DEF Kept
    <3> QED BY <2>1, <3>1, <3>2, <3>3 DEF Inv, Rows, TwiceRow
  <2> QED BY <2>2, <2>3, <2>4 DEF Rows
<1>8. Rows(r)'
  <2>1. /\ nonces'[r] = now /\ Acted(r)' = Acted(r) + 1 /\ Acted(r) \in Nat
        /\ now # None /\ now' = now /\ stamp'[r] = stamp[r] /\ now \in Int
    BY <1>1, <1>3, <1>4 DEF Acted, Inv, RequestsTypeOK
  <2>2. Signed(r) /\ stamp[r] \in Int /\ now <= stamp[r] + Window + MaxWait /\ stamp[r] <= now + Window
    BY <1>3 DEF Inv, RequestsTypeOK, CheckingRow, Checking, Signed
  <2>3. NonceRow(r)'
    BY <1>3, <2>1, <2>2 DEF NonceRow, Signed, Margin
  <2>4. OnceRow(r)'
    <3>1. r \notin ahead => Acted(r) = 0
      BY <1>2, <1>3, <2>1, KeptKnown
    <3>2. r \notin ahead' => r \notin ahead
      BY <1>3
    <3> QED BY <2>1, <2>2, <3>1, <3>2 DEF OnceRow, Signed
  <2>5. TwiceRow(r)'
    <3>1. Acted(r) > 0 => now > AfterOne(r) /\ (Acted(r) > 1 => now > AfterTwo(r))
      BY <1>2, <1>3, PurgeKeeps DEF Checking
    <3>2. Acted(r) <= 1
      BY <2>1, <2>2, <3>1 DEF AfterTwo
    <3>3. AfterOne(r)' = AfterOne(r)
      BY <1>3 DEF AfterOne
    <3> QED BY <2>1, <3>1, <3>2, <3>3 DEF TwiceRow
  <2> QED BY <2>3, <2>4, <2>5 DEF Rows
<1> QED BY <1>5, <1>6, <1>7, <1>8 DEF Inv

LEMMA RefuseInv == ASSUME NEW r \in Requests, Inv, Refuse(r) PROVE Inv'
  BY DEF Refuse, Inv, RequestsTypeOK, CheckingRow, Rows, NonceRow, OnceRow, TwiceRow, Acted,
         AfterOne, AfterTwo, Signed, Checking, Margin

LEMMA HandleInv == ASSUME NEW r \in Requests, Inv, Handle(r) PROVE Inv'
<1>1. RequestsTypeOK' /\ CheckingRow'
  BY DEF Handle, Inv, RequestsTypeOK, CheckingRow, Signed
<1>2. \A q \in Requests : Acted(q)' = Acted(q)
  BY DEF Handle, Acted, Inv, RequestsTypeOK
<1>3. ASSUME NEW q \in Requests PROVE Rows(q)'
  BY <1>2 DEF Handle, Inv, Rows, NonceRow, OnceRow, TwiceRow, AfterOne, AfterTwo, Signed,
              Checking, Margin
<1> QED BY <1>1, <1>3 DEF Inv

LEMMA RestartInv == ASSUME Inv, Restart PROVE Inv'
<1>1. RequestsTypeOK' /\ CheckingRow'
  BY DEF Restart, Inv, RequestsTypeOK, CheckingRow
<1>2. \A q \in Requests : Acted(q)' <= Acted(q) /\ Acted(q) \in Nat /\ Acted(q)' \in Nat
  BY DEF Restart, Acted, Inv, RequestsTypeOK
<1>3. ASSUME NEW q \in Requests PROVE Rows(q)'
  BY <1>2 DEF Restart, Inv, Rows, NonceRow, OnceRow, TwiceRow, AfterOne, AfterTwo, Signed,
              Checking, Margin
<1> QED BY <1>1, <1>3 DEF Inv

LEMMA NextInv == ASSUME Inv, [Next]_vars PROVE Inv'
<1>1. CASE Next
  BY <1>1, TickInv, SignInv, CheckClockInv, AdmitInv, RefuseInv, HandleInv, RestartInv
  DEF Next
<1>2. CASE UNCHANGED vars
  BY <1>2 DEF vars, Inv, RequestsTypeOK, CheckingRow, Rows, NonceRow, OnceRow, TwiceRow, Acted,
              AfterOne, AfterTwo, Signed, Checking, Margin
<1> QED BY <1>1, <1>2

\* The inductive invariant of agent_auth: what is on its way is recent, nonces are
\* as old as timestamps allow, and two admissions lie as far apart as a nonce is kept.
THEOREM RequestsInvariant == Spec => []Inv
BY InitInv, NextInv, PTL DEF Spec

\* agent_auth and the handler behind it act once on a signed request that was not
\* admitted too long before its timestamp, whatever copies arrive.
THEOREM ActedOnOnce == Spec => []OnceUnlessAhead
<1>1. Inv => OnceUnlessAhead
  BY DEF Inv, Rows, OnceRow, OnceUnlessAhead
<1> QED BY <1>1, RequestsInvariant, PTL

\* On any signed request they act twice at most.
THEOREM ActedOnTwiceAtMost == Spec => []TwiceAtMost
<1>1. Inv => TwiceAtMost
  BY DEF Inv, Rows, TwiceRow, TwiceAtMost
<1> QED BY <1>1, RequestsInvariant, PTL

\* The purge forgets no request that was acted on, is not ahead, and could pass.
THEOREM RememberedWhileValid == Spec => []Remembered
<1>1. Inv => Remembered
  BY DEF Inv, Rows, OnceRow, Remembered
<1> QED BY <1>1, RequestsInvariant, PTL

\* Clock, table and requests on their way keep their types.
THEOREM RequestsTypeCorrect == Spec => []RequestsTypeOK
<1>1. Inv => RequestsTypeOK
  BY DEF Inv
<1> QED BY <1>1, RequestsInvariant, PTL
=============================================================================
