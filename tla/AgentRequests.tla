--------------------------- MODULE AgentRequests ---------------------------
(***************************************************************************)
(* Authentication of signed agent requests, control.py:agent_auth.  The    *)
(* clock of a request is checked first; the transaction that purges old    *)
(* nonces and inserts the request's own waits for the database lock, and   *)
(* reads the clock again.  agent_auth has no await after the body is read, *)
(* so the event loop carries one request at a time through it; the handler *)
(* itself runs later, in a thread and a transaction of its own.            *)
(*                                                                         *)
(* A request is what was signed once: its agent, its nonce, its timestamp. *)
(* Copies of it may arrive at any time.  Time is in units of any length;   *)
(* the code has Window = 60, Keep = 120 and MaxWait = 10 seconds.          *)
(***************************************************************************)
EXTENDS Integers

CONSTANTS
  Requests,  \* signed requests
  Window,    \* how far a timestamp may be from the server's clock
  Keep,      \* how long a nonce is kept at least
  MaxWait,   \* longest wait for the lock, sqlite3's timeout
  Skew,      \* bound: how far an agent's clock is from the server's
  MaxTime,   \* bound: the clock
  None

ASSUME TimesAssumption ==
  /\ Window \in Nat /\ Keep \in Nat /\ MaxWait \in Nat /\ Skew \in Nat
  /\ MaxTime \in Nat
\* The purge comes late enough, though not as late as a timestamp may lie ahead.
ASSUME PurgeAssumption == 2 * Window + MaxWait <= 2 * Keep
ASSUME NoneAssumption == None \notin Int /\ None \notin [req : Requests, since : Int]

VARIABLES
  now,       \* the server's clock
  stamp,     \* the timestamp a request was signed with
  checking,  \* the request between its clock check and its nonce, if any
  nonces,    \* table nonces: when a request's nonce was inserted
  admitted,  \* how many copies of a request have passed, whose handler has still to run
  handled,   \* how often a request was handled
  ahead      \* requests that were admitted too long before their timestamp

vars == <<now, stamp, checking, nonces, admitted, handled, ahead>>

\* How far ahead of the clock a timestamp may lie for its nonce to outlive it: in
\* the code 50 seconds, of the 60 that the clock check allows.
Margin == Keep - Window - MaxWait

Signed(r) == stamp[r] # None
Checking(r) == checking # None /\ checking.req = r

Init ==
  /\ now = 0
  /\ stamp = [r \in Requests |-> None]
  /\ checking = None
  /\ nonces = [r \in Requests |-> None]
  /\ admitted = [r \in Requests |-> 0]
  /\ handled = [r \in Requests |-> 0]
  /\ ahead = {}

\* The lock is granted, or refused, before MaxWait is over.
Tick ==
  /\ now < MaxTime
  /\ checking # None => now < checking.since + MaxWait
  /\ now' = now + 1
  /\ UNCHANGED <<stamp, checking, nonces, admitted, handled, ahead>>

\* Any clock an agent may have: whether the timestamp is of use is InWindow's business.
Sign(r) ==
  /\ ~Signed(r)
  /\ \E t \in now - Skew .. now + Skew : stamp' = [stamp EXCEPT ![r] = t]
  /\ UNCHANGED <<now, checking, nonces, admitted, handled, ahead>>

InWindow(r) == stamp[r] <= now + Window /\ now <= stamp[r] + Window

\* A copy whose timestamp is out of the window is answered with 401 here.
CheckClock(r) ==
  /\ checking = None
  /\ Signed(r)
  /\ InWindow(r)
  /\ checking' = [req |-> r, since |-> now]
  /\ UNCHANGED <<now, stamp, nonces, admitted, handled, ahead>>

KeptForWindow(p) == [q \in Requests |-> IF nonces[q] # None /\ nonces[q] + Window < p
                                        THEN None ELSE nonces[q]]
\* What a purge at p leaves of the table.
Kept(p) == [q \in Requests |-> IF nonces[q] # None /\ nonces[q] + Keep < p
                               THEN None ELSE nonces[q]]

AcceptsAny(r, p) == TRUE
Accepts(r, p) == Kept(p)[r] = None

\* The purge at p and the insertion are one transaction.
Admit(r) ==
  /\ Checking(r)
  /\ \E p \in checking.since .. now :
       /\ Accepts(r, p)
       /\ nonces' = [Kept(p) EXCEPT ![r] = now]
  /\ checking' = None
  /\ admitted' = [admitted EXCEPT ![r] = @ + 1]
  /\ ahead' = IF stamp[r] > now + Margin THEN ahead \cup {r} ELSE ahead
  /\ UNCHANGED <<now, stamp, handled>>

\* The nonce is there: the transaction rolls back, its purge included.  The same
\* for an agent that is unknown, a wrong signature or a lock that is not granted.
Refuse(r) ==
  /\ Checking(r)
  /\ checking' = None
  /\ UNCHANGED <<now, stamp, nonces, admitted, handled, ahead>>

Handle(r) ==
  /\ admitted[r] > 0
  /\ admitted' = [admitted EXCEPT ![r] = @ - 1]
  /\ handled' = [handled EXCEPT ![r] = @ + 1]
  /\ UNCHANGED <<now, stamp, checking, nonces, ahead>>

\* The process ends; what it admitted is never handled.
Restart ==
  /\ checking' = None
  /\ admitted' = [r \in Requests |-> 0]
  /\ UNCHANGED <<now, stamp, nonces, handled, ahead>>

Next ==
  \/ Tick
  \/ Restart
  \/ \E r \in Requests : Sign(r) \/ CheckClock(r) \/ Admit(r) \/ Refuse(r) \/ Handle(r)

Spec == Init /\ [][Next]_vars

-----------------------------------------------------------------------------
(* Properties.                                                             *)

\* The clock, the table and the requests on their way keep their types.
RequestsTypeOK ==
  /\ now \in Nat
  /\ stamp \in [Requests -> Int \cup {None}]
  /\ checking \in [req : Requests, since : Int] \cup {None}
  /\ nonces \in [Requests -> Int \cup {None}]
  /\ admitted \in [Requests -> Nat]
  /\ handled \in [Requests -> Nat]
  /\ ahead \in SUBSET Requests

\* How often a request was acted on, or will be if the process lives.
Acted(r) == admitted[r] + handled[r]

\* A request that was not admitted too long before its timestamp is acted on once,
\* whenever its copies arrive, however long they wait for the lock, and across
\* restarts (JobSystem builds on it).
OnceUnlessAhead == \A r \in Requests \ ahead : Acted(r) <= 1

\* Whatever timestamp the clock check let pass, the purge forgets a request once at
\* most while a copy can still pass: a third time is out of the window.
TwiceAtMost == \A r \in Requests : Acted(r) <= 2

\* As long as the clock check would let a request pass that was acted on, or one of
\* its copies has passed it, the table remembers its nonce.
Remembered ==
  \A r \in Requests \ ahead :
    Acted(r) > 0 /\ (now <= stamp[r] + Window \/ Checking(r)) => nonces[r] # None

\* What docs/security.md:8 says: "Signed timestamp/nonce/body requests prevent replay",
\* and docs/architecture.md:26: "The server allows 60 seconds clock skew, atomically
\* rejects nonce reuse".
NeverReplayed == \A r \in Requests : handled[r] <= 1
=============================================================================
