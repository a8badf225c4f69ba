--------------------------- MODULE AIDraftProofs ---------------------------
(***************************************************************************)
(* What the modules are asked for, for any number of drafts, plans,        *)
(* approvals in flight, lost answers and restarts.  Inv is about who may   *)
(* write, Inv2 about what is carried out, Inv3 about what an approval asks *)
(* for, Inv4 about what rows are made of: each rests on those before it.   *)
(***************************************************************************)
EXTENDS AIDraft, WellFoundedInduction, TLAPS

-----------------------------------------------------------------------------
(* The invariant.                                                          *)

Places == {"ensure", "call", "made", "lost", "reading", "dying"}

Rec(d, p, t, a, s, v, o) ==
  [draft |-> d, plan |-> p, todo |-> t, at |-> a, failed |-> s, revises |-> v, roots |-> o]

IsFrame(f) ==
  \E d \in Drafts, a \in Places : \E p, t, s, v, o : f = Rec(d, p, t, a, s, v, o)

Tables ==
  /\ status \in [Drafts -> Statuses \cup {"ABSENT"}]
  /\ plan \in [Drafts -> Plans \cup {None}]
  /\ rows \in [Drafts -> [Keys -> Plans \cup {"FAILED", None}]]
  /\ generating \in SUBSET Drafts
  /\ remote \in [Drafts -> [Keys -> Nat]]
  /\ losses \in Nat
  /\ DOMAIN reviewed = Drafts
  /\ DOMAIN run = Handlers
  /\ \A h \in Handlers : run[h] # None => IsFrame(run[h])

\* Nothing is created of a plan that can still change.
Early ==
  \A d \in Drafts : status[d] \in {"ABSENT", "GENERATING", "FAILED", "DRAFT"} =>
    \A k \in Keys : rows[d][k] \notin Plans

\* A handler distributes what was approved, and calls for what is not there.
Agreed ==
  \A h \in Handlers : Distributing(h) =>
    /\ run[h].plan \in Plans
    /\ reviewed[run[h].draft].plan = run[h].plan
    /\ run[h].at # "ensure" => ~IsDone(run[h].draft, Next1(h))

Inv == Tables /\ OneWriter /\ Early /\ Agreed /\ DeliveredIsReviewed

\* A draft that will never be taken up again is not live.
Live(d) ==
  status[d] = "DISTRIBUTING" => \E h \in Handlers : Distributing(h) /\ run[h].draft = d

Answers(d, k) ==
  \E h \in Handlers : At(h, "made") /\ run[h].draft = d /\ NextKey(h) = k

\* Before a row is created, only answers that were lost can have carried it out.
Unmade ==
  \A d \in Drafts, k \in Keys :
    Live(d) /\ rows[d][k] \notin Plans /\ ~Answers(d, k) => remote[d][k] <= losses

Inv2 == Unmade /\ OnlyLossesDuplicate

\* A handler that calls has something left to call for.
Typed ==
  /\ parent \in [Drafts -> Drafts \cup {None}]
  /\ made \in [Drafts -> SUBSET Items]
  /\ losses \in 0 .. MaxLosses /\ restarts \in 0 .. MaxRestarts
  /\ \A h \in Handlers : run[h] # None =>
       run[h] \in Frames /\ (run[h].at \in {"call", "made", "lost"} => Todo(h) # {})
  /\ \A d \in Drafts : reviewed[d] # None =>
       reviewed[d] \in [plan : Plans, items : SUBSET Items]

\* A first draft is approved with every item of its plan.
Asking ==
  \A d \in Drafts : status[d] \in {"DISTRIBUTING", "PARTIAL", "APPROVED"} =>
    /\ plan[d] \in Plans /\ reviewed[d] \in [plan : Plans, items : SUBSET Items]
    /\ parent[d] = None => reviewed[d].items = BaseItems(plan[d])

\* An item that was asked for is created, still to be served, or left out with a
\* module that failed.
Covered(d, todo, failed) ==
  \A i \in reviewed[d].items : Lookup(i) \/ i \in todo \/ IsDone(d, i) \/ i.module \in failed
Accounted ==
  \A h \in Handlers : Distributing(h) => Covered(run[h].draft, run[h].todo, run[h].failed)

Complete ==
  \A d \in Drafts : status[d] = "APPROVED" =>
    \A i \in reviewed[d].items : Lookup(i) \/ IsDone(d, i)

Inv3 == Typed /\ Asking /\ Accounted /\ Complete

Settled == {"DISTRIBUTING", "PARTIAL", "APPROVED"}

\* What was revised once is never edited again.
Revised == \A d \in Drafts : parent[d] # None => status[parent[d]] \in Settled

\* What an approval can ask for, and what any approval of a draft can.
Approves(d, t) ==
  \/ t = BaseItems(plan[d])
  \/ /\ parent[d] # None
     /\ \E ms \in SUBSET Modules : t = RevisionItems(plan[d], plan[parent[d]], ms)
AllItems(d) ==
  BaseItems(plan[d]) \cup
  IF parent[d] = None THEN {} ELSE RevisionItems(plan[d], plan[parent[d]], Modules)

\* A handler serves what was approved, and rows are made of what can be approved.
Approved ==
  /\ \A d \in Drafts : status[d] \in Settled => Approves(d, reviewed[d].items)
  /\ \A h \in Handlers : Distributing(h) => Todo(h) \subseteq reviewed[run[h].draft].items
Sourced ==
  \A d \in Drafts :
    /\ \A k \in Created(d) : \E i \in made[d] : KeyOf(i) = k
    /\ status[d] \in Settled => made[d] \subseteq AllItems(d)
    /\ status[d] \notin Settled => made[d] = {}

Inv4 == Revised /\ Approved /\ Sourced

-----------------------------------------------------------------------------
(* Items and their keys, and the order in which they are served.           *)

\* An item is one of a module and has a key, which is its own unless it is an update.
LEMMA ItemFields ==
  ASSUME NEW i \in Items
  PROVE  /\ i.module \in Modules /\ i.index \in Nat
         /\ KeyOf(i) \in Keys
         /\ i.kind \in {"first", "revision", "update"}
         /\ i = Item(i.module, i.kind, i.number, i.index)
         /\ i.kind # "update" => i.number = i.index
<1>0. \A m \in Modules : Indexes(m) \subseteq Nat
  BY WorkAssumption DEF Indexes
<1>1. CASE \E m \in Modules : i \in ItemsOf(m)
  <2>1. PICK m \in Modules : i \in ItemsOf(m)
    BY <1>1
  <2>2. PICK k \in {"first", "revision"}, n \in Indexes(m) : i = Item(m, k, n, n)
    BY <2>1 DEF ItemsOf
  <2> QED BY <1>0, <2>2 DEF Item, Keys
<1>2. CASE \E m \in Modules : i \in UpdatesOf(m)
  <2>1. PICK m \in Modules : i \in UpdatesOf(m)
    BY <1>2
  <2>2. PICK n \in Indexes(m), x \in Indexes(m) : i = Item(m, "update", n, x)
    BY <2>1 DEF UpdatesOf
  <2> QED BY <1>0, <2>2 DEF Item, Keys
<1> QED BY <1>1, <1>2 DEF Items

\* Two items with one key are two updates of one record.
LEMMA KeyIsOwn ==
  ASSUME NEW i \in Items, NEW j \in Items, KeyOf(i) = KeyOf(j)
  PROVE  /\ i.module = j.module /\ i.kind = j.kind
         /\ i.kind # "update" => i = j
<1>1. i.module = j.module /\ i.kind = j.kind /\ i.number = j.number
  BY DEF KeyOf, Key
<1> QED BY <1>1, ItemFields

\* A set of numbers has a least one.
LEMMA Least ==
  ASSUME NEW S \in SUBSET Nat, S # {}
  PROVE  \E n \in S : \A m \in S : n <= m
<1>1. PICK n \in S : \A m \in S : <<m, n>> \notin OpToRel(<, Nat)
  BY NatLessThanWellFounded, WFMin, Zenon
<1>2. ASSUME NEW m \in S PROVE n <= m
  <2>1. ~(m < n)
    BY <1>1 DEF OpToRel
  <2> QED BY <2>1
<1> QED BY <1>2

\* The place of a module in the order is a number.
LEMMA PositionIsNat == ASSUME NEW m \in Modules PROVE Position(m) \in Nat
<1>1. \E k \in DOMAIN Order : Order[k] = m
  BY OrderAssumption DEF Modules, Range
<1>2. DOMAIN Order \subseteq Nat
  BY OrderAssumption
<1> QED BY <1>1, <1>2 DEF Position

\* What is left to be served has a first item.
LEMMA FirstIsLeft ==
  ASSUME NEW s \in SUBSET Items, s # {}
  PROVE  First(s) \in s
<1>0. \A i \in Items : i.module \in Modules /\ i.index \in Nat
  BY ItemFields
<1> DEFINE P == {Position(i.module) : i \in s}
<1>1. P \subseteq Nat /\ P # {}
  BY <1>0, PositionIsNat
<1>2. PICK a \in P : \A m \in P : a <= m
  BY <1>1, Least, Zenon
<1>3. PICK x \in s : Position(x.module) = a
  BY <1>2
<1> DEFINE Q == {i.index : i \in {y \in s : Position(y.module) = a}}
<1>4. Q \subseteq Nat /\ Q # {}
  BY <1>0, <1>3
<1>5. PICK b \in Q : \A m \in Q : b <= m
  BY <1>4, Least, Zenon
<1>6. PICK i \in s : Position(i.module) = a /\ i.index = b
  BY <1>5
<1>7. ASSUME NEW j \in s PROVE ~Before(j, i)
  <2>1. a <= Position(j.module) /\ a \in Nat /\ Position(j.module) \in Nat
    BY <1>0, <1>1, <1>2, PositionIsNat
  <2>2. j.module = i.module => b <= j.index
    BY <1>5, <1>6
  <2>3. b \in Nat /\ j.index \in Nat
    BY <1>0, <1>4, <1>5
  <2> HIDE DEF P, Q
  <2> QED BY <1>6, <2>1, <2>2, <2>3 DEF Before
<1>8. \E k \in s : \A j \in s : ~Before(j, k)
  BY <1>7
<1> QED BY <1>8 DEF First

-----------------------------------------------------------------------------
(* Frames.                                                                 *)

\* Nothing is distributed yet.
LEMMA InitInv == Init => Inv
<1> SUFFICES ASSUME Init PROVE Inv
  OBVIOUS
<1>1. Tables
  BY BoundsAssumption DEF Init, Tables, Statuses
<1>2. \A d \in Drafts, k \in Keys : rows[d][k] \notin Plans
  BY NoPlanAssumption DEF Init
<1>3. \A h \in Handlers : ~Distributing(h)
  BY DEF Init, Distributing
<1> QED
  BY <1>1, <1>2, <1>3 DEF Init, Inv, OneWriter, Early, Agreed, DeliveredIsReviewed, Created

\* Every change of a frame keeps the draft and the plan.
Same(f, g, a) == IsFrame(g) /\ g.draft = f.draft /\ g.plan = f.plan /\ g.at = a

\* A frame is a record whose fields can be read,
LEMMA RecFields ==
  ASSUME NEW d \in Drafts, NEW p, NEW t, NEW a \in Places, NEW s, NEW v, NEW o
  PROVE  /\ IsFrame(Rec(d, p, t, a, s, v, o))
         /\ Rec(d, p, t, a, s, v, o).draft = d
         /\ Rec(d, p, t, a, s, v, o).plan = p
         /\ Rec(d, p, t, a, s, v, o).todo = t
         /\ Rec(d, p, t, a, s, v, o).at = a
<1>1. IsFrame(Rec(d, p, t, a, s, v, o))
  BY Zenon DEF IsFrame
<1> QED BY <1>1 DEF Rec

\* and each of the changes a handler makes leaves the other fields alone.
LEMMA FrameChanges ==
  ASSUME NEW f, IsFrame(f), NEW a \in Places, NEW t, NEW s
  PROVE  /\ Same(f, [f EXCEPT !.at = a], a) /\ [f EXCEPT !.at = a].todo = f.todo
         /\ Same(f, [f EXCEPT !.todo = t], f.at)
         /\ Same(f, [f EXCEPT !.at = a, !.todo = t, !.failed = s], a)
<1> PICK d \in Drafts, b \in Places : \E p, u, c, v, o : f = Rec(d, p, u, b, c, v, o)
  BY Zenon DEF IsFrame
<1> PICK p, u, c, v, o : f = Rec(d, p, u, b, c, v, o)
  OBVIOUS
<1>1. [Rec(d, p, u, b, c, v, o) EXCEPT !.at = a] = Rec(d, p, u, a, c, v, o)
  BY DEF Rec
<1>2. [Rec(d, p, u, b, c, v, o) EXCEPT !.todo = t] = Rec(d, p, t, b, c, v, o)
  BY DEF Rec
<1>3. [f EXCEPT !.at = a, !.todo = t, !.failed = s] = Rec(d, p, t, a, s, v, o)
  <2>1. [f EXCEPT !.at = a, !.todo = t, !.failed = s]
          = [[[f EXCEPT !.at = a] EXCEPT !.todo = t] EXCEPT !.failed = s]
    OBVIOUS
  <2>2. [Rec(d, p, u, a, c, v, o) EXCEPT !.todo = t] = Rec(d, p, t, a, c, v, o)
    BY DEF Rec
  <2>3. [Rec(d, p, t, a, c, v, o) EXCEPT !.failed = s] = Rec(d, p, t, a, s, v, o)
    BY DEF Rec
  <2> QED BY <1>1, <2>1, <2>2, <2>3, Zenon
<1>4. ASSUME NEW x \in Places, NEW y, NEW z
      PROVE  Same(f, Rec(d, p, y, x, z, v, o), x) /\ Rec(d, p, y, x, z, v, o).todo = y
  <2>1. f.draft = d /\ f.plan = p
    BY RecFields
  <2> QED BY <2>1, RecFields DEF Same
<1>5. f.at = b /\ f.todo = u
  BY RecFields
<1>6. /\ Same(f, Rec(d, p, u, a, c, v, o), a) /\ Rec(d, p, u, a, c, v, o).todo = u
      /\ Same(f, Rec(d, p, t, b, c, v, o), b)
      /\ Same(f, Rec(d, p, t, a, s, v, o), a)
  BY <1>4, Zenon
<1> QED BY <1>1, <1>2, <1>3, <1>5, <1>6, Zenon

\* A frame with these items and failures.
Has(f, t, s) == f \in Frames /\ f.todo = t /\ f.failed = s

\* The changes a handler makes to its frame keep its type.
LEMMA FrameTypes ==
  ASSUME NEW f \in Frames, NEW a \in Places, NEW t \in SUBSET Items, NEW s \in SUBSET Modules
  PROVE  /\ Has([f EXCEPT !.at = a], f.todo, f.failed)
         /\ Has([f EXCEPT !.todo = t], t, f.failed)
         /\ Has([f EXCEPT !.at = a, !.todo = t, !.failed = s], t, s)
BY DEF Has, Frames, Places

\* A step of handler h: it ends, or has the same draft and plan at another place.
Moves(h, a) ==
  /\ \A g \in Handlers \ {h} : run'[g] = run[g]
  /\ DOMAIN run' = Handlers
  /\ run'[h] # None =>
       /\ Same(run[h], run'[h], a)
       /\ a # "ensure" => run'[h].todo = run[h].todo

\* The frame of one handler is replaced.
LEMMA FrameMoves ==
  ASSUME DOMAIN run = Handlers, NEW h \in Handlers, NEW g, NEW a \in Places,
         run' = [run EXCEPT ![h] = g], Same(run[h], g, a),
         a # "ensure" => g.todo = run[h].todo
  PROVE  Moves(h, a)
BY DEF Moves

HandlerStep(h) ==
  \/ Skip(h) \/ Call(h) \/ Unrooted(h)
  \/ Answered(h) \/ Unanswered(h) \/ Unreadable(h) \/ Unsent(h)
  \/ Checkpoint(h) \/ Finish(h)

\* A frame is of a draft, at one of its places.
LEMMA FrameFields ==
  ASSUME NEW f, IsFrame(f)
  PROVE  f.draft \in Drafts /\ f.at \in Places
BY DEF IsFrame, Rec

\* Only a frame that distributes is moved, and "made" is reached by an answer only.
LEMMA HandlerMoves ==
  ASSUME Tables, NEW h \in Handlers, HandlerStep(h)
  PROVE  /\ run[h] # None /\ Distributing(h)
         /\ \E a \in {"ensure", "call", "made", "lost"} :
              /\ Moves(h, a)
              /\ a = "call" => Call(h)
              /\ a = "made" => Answered(h)
              /\ a = "lost" => Unanswered(h)
<1>1. run[h] # None /\ Distributing(h)
  BY DEF HandlerStep, Skip, Call, Unrooted, Answered, Unanswered, Unreadable, Unsent, Checkpoint, Finish,
     At, Distributing
<1>2. IsFrame(run[h]) /\ DOMAIN run = Handlers
  BY <1>1 DEF Tables
<1>3. CASE Skip(h)
  <2>1. PICK g : g = [run[h] EXCEPT !.todo = Later(h)] /\ run' = [run EXCEPT ![h] = g]
    BY <1>3, Zenon DEF Skip, Step
  <2>2. run[h].at = "ensure"
    BY <1>3 DEF Skip, At
  <2>3. Same(run[h], g, "ensure")
    <3>1. "ensure" \in Places
      BY DEF Places
    <3>2. Same(run[h], [run[h] EXCEPT !.todo = Later(h)], run[h].at)
      BY <1>2, <3>1, FrameChanges, Zenon
    <3> QED BY <2>1, <2>2, <3>2, Zenon
  <2>4. Moves(h, "ensure")
    BY <1>2, <2>1, <2>3, FrameMoves, Zenon DEF Places
  <2> QED BY <1>1, <2>4
<1>4. CASE Call(h)
  <2>1. PICK g : g = [run[h] EXCEPT !.at = "call"] /\ run' = [run EXCEPT ![h] = g]
    BY <1>4, Zenon DEF Call, Step
  <2>2. "call" \in Places
    BY DEF Places
  <2>3. Same(run[h], g, "call") /\ g.todo = run[h].todo
    BY <1>2, <2>1, <2>2, FrameChanges, Zenon
  <2>4. Moves(h, "call")
    BY <1>2, <2>1, <2>2, <2>3, FrameMoves, Zenon
  <2> QED BY <1>1, <1>4, <2>4
<1>5. CASE Unrooted(h) \/ Unreadable(h) \/ Unsent(h) \/ Finish(h)
  <2>1. run' = [run EXCEPT ![h] = None]
    BY <1>5 DEF Unrooted, Unreadable, Unsent, Finish, Step
  <2>2. Moves(h, "ensure")
    BY <1>2, <2>1 DEF Moves
  <2> QED BY <1>1, <2>2
<1>6. CASE Answered(h)
  <2>1. PICK g : g = [run[h] EXCEPT !.at = "made"] /\ run' = [run EXCEPT ![h] = g]
    BY <1>6, Zenon DEF Answered, Step
  <2>2. "made" \in Places
    BY DEF Places
  <2>3. Same(run[h], g, "made") /\ g.todo = run[h].todo
    BY <1>2, <2>1, <2>2, FrameChanges, Zenon
  <2>4. Moves(h, "made")
    BY <1>2, <2>1, <2>2, <2>3, FrameMoves, Zenon
  <2> QED BY <1>1, <1>6, <2>4
<1>7. CASE Unanswered(h)
  <2>1. PICK g : g = [run[h] EXCEPT !.at = "lost"] /\ run' = [run EXCEPT ![h] = g]
    BY <1>7, Zenon DEF Unanswered, Step
  <2>2. "lost" \in Places
    BY DEF Places
  <2>3. Same(run[h], g, "lost") /\ g.todo = run[h].todo
    BY <1>2, <2>1, <2>2, FrameChanges, Zenon
  <2>4. Moves(h, "lost")
    BY <1>2, <2>1, <2>2, <2>3, FrameMoves, Zenon
  <2> QED BY <1>1, <1>7, <2>4
<1>8. CASE Checkpoint(h)
  <2>1. PICK g, t, s : /\ g = [run[h] EXCEPT !.at = "ensure", !.todo = t, !.failed = s]
                       /\ run' = [run EXCEPT ![h] = g]
    BY <1>8, Zenon DEF Checkpoint, Step
  <2>2. "ensure" \in Places
    BY DEF Places
  <2>3. Same(run[h], g, "ensure")
    BY <1>2, <2>1, <2>2, FrameChanges, Zenon
  <2>4. Moves(h, "ensure")
    BY <1>2, <2>1, <2>2, <2>3, FrameMoves, Zenon
  <2> QED BY <1>1, <2>4
<1> QED BY <1>3, <1>4, <1>5, <1>6, <1>7, <1>8 DEF HandlerStep

-----------------------------------------------------------------------------
(* The operator's requests, and the generation of plans.                   *)

\* A request or an answer that writes the row of a draft nothing is made of yet.
Writes(d) ==
  /\ status[d] \in {"ABSENT", "GENERATING", "FAILED", "DRAFT"}
  /\ \E s \in {"GENERATING", "FAILED", "DRAFT"} :
       /\ To(d, s)
       /\ \A x \in generating' : IF x = d THEN s = "GENERATING" ELSE x \in generating
  /\ generating' \subseteq generating \cup {d}
  /\ \/ plan' = plan
     \/ \E p \in Plans : plan' = [plan EXCEPT ![d] = p]
  /\ \/ parent' = parent
     \/ \E q \in Drafts \cup {None} :
          /\ parent' = [parent EXCEPT ![d] = q]
          /\ q # None => status[q] = "APPROVED"
  /\ UNCHANGED <<rows, run, reviewed, remote, made, losses, restarts>>

DraftStep(d) ==
  \/ CreateDraft(d)
  \/ \E p \in Drafts : CreateRevision(d, p)
  \/ RetryGeneration(d)
  \/ \E p \in Plans : UpdateDraft(d, p)
  \/ GenerationNext(d)

\* Each of them does: a draft that is generated is of no other status.
LEMMA DraftWrites ==
  ASSUME Inv, NEW d \in Drafts, DraftStep(d)
  PROVE  Writes(d)
<1>1. CASE CreateDraft(d) \/ \E p \in Drafts : CreateRevision(d, p)
  BY <1>1 DEF CreateDraft, CreateRevision, Insert, Exists, Writes
<1>2. CASE RetryGeneration(d)
  BY <1>2 DEF RetryGeneration, Regenerable, Writes
<1>3. CASE \E p \in Plans : UpdateDraft(d, p)
  <2>1. status' = status /\ status[d] = "DRAFT" /\ d \notin generating
    BY <1>3 DEF UpdateDraft, Editable, Inv, OneWriter
  <2>2. To(d, "DRAFT")
    BY <2>1 DEF To, Inv, Tables
  <2> QED BY <1>3, <2>1, <2>2 DEF UpdateDraft, Writes
<1>4. CASE GenerationNext(d)
  <2>1. status[d] = "GENERATING"
    BY <1>4 DEF GenerationNext, Generated, GenerationFails, GenerationDies, Inv, OneWriter
  <2>2. CASE \E p \in Plans : Generated(d, p)
    BY <2>1, <2>2 DEF Generated, Writes
  <2>3. CASE GenerationFails(d)
    BY <2>1, <2>3 DEF GenerationFails, Writes
  <2>4. CASE GenerationDies(d)
    <3>1. To(d, "GENERATING")
      BY <2>1, <2>4 DEF GenerationDies, draftVars, To, Inv, Tables
    <3> QED BY <2>1, <2>4, <3>1 DEF GenerationDies, draftVars, Writes
  <2> QED BY <1>4, <2>2, <2>3, <2>4 DEF GenerationNext
<1> QED BY <1>1, <1>2, <1>3, <1>4 DEF DraftStep

\* Such a draft is distributed by nobody.
LEMMA WritesInv ==
  ASSUME Inv, NEW d \in Drafts, Writes(d)
  PROVE  Inv'
<1> PICK s \in {"GENERATING", "FAILED", "DRAFT"} :
      /\ status' = [status EXCEPT ![d] = s]
      /\ \A x \in generating' : IF x = d THEN s = "GENERATING" ELSE x \in generating
  BY DEF Writes, To
<1>1. Tables'
  <2>1. status' \in [Drafts -> Statuses \cup {"ABSENT"}]
    BY DEF Inv, Tables, Statuses
  <2>2. plan' \in [Drafts -> Plans \cup {None}]
    BY DEF Inv, Tables, Writes
  <2>3. generating' \in SUBSET Drafts
    BY DEF Inv, Tables, Writes
  <2> QED BY <2>1, <2>2, <2>3 DEF Inv, Tables, Writes
<1>2. \A h \in Handlers : Distributing(h) => run[h].draft \in Drafts \ {d}
  BY FrameFields DEF Inv, Tables, OneWriter, Distributing, Writes
<1>3. \A h \in Handlers : Distributing(h)' <=> Distributing(h)
  BY DEF Writes, Distributing
<1>4. \A x \in Drafts \ {d} : status'[x] = status[x] /\ plan'[x] = plan[x]
  BY DEF Inv, Tables, Writes
<1>5. OneWriter'
  <2>1. \A x \in generating' : status'[x] = "GENERATING"
    BY <1>4 DEF Inv, Tables, OneWriter, Writes
  <2>2. ASSUME NEW h \in Handlers, Distributing(h)
        PROVE  /\ status'[run[h].draft] = "DISTRIBUTING"
               /\ run[h].plan = plan'[run[h].draft]
               /\ \A g \in Handlers \ {h} : Distributing(g) => run[g].draft # run[h].draft
    BY <1>2, <1>4, <2>2 DEF Inv, OneWriter
  <2> QED BY <1>3, <2>1, <2>2 DEF OneWriter, Writes
<1>6. Early'
  BY <1>4 DEF Inv, Early, Writes
<1>7. Agreed'
  BY <1>3 DEF Inv, Agreed, Writes, IsDone, Next1, Todo
<1>8. DeliveredIsReviewed'
  <2>1. Created(d) = {}
    BY DEF Inv, Early, Writes, Created
  <2>2. \A x \in Drafts : Created(x)' = Created(x)
    BY DEF Created, Writes
  <2> QED BY <1>4, <2>1, <2>2 DEF Inv, DeliveredIsReviewed, Writes
<1> QED BY <1>1, <1>5, <1>6, <1>7, <1>8 DEF Inv

\* Nothing is carried out, and what is still to be made was so before.
LEMMA QuietInv2 ==
  ASSUME Inv2, remote' = remote, losses' = losses,
         \A d \in Drafts, k \in Keys :
           Live(d)' /\ rows'[d][k] \notin Plans /\ ~Answers(d, k)'
             => Live(d) /\ rows[d][k] \notin Plans /\ ~Answers(d, k)
  PROVE  Inv2'
BY DEF Inv2, Unmade, OnlyLossesDuplicate

\* So nothing that is distributed changes.
LEMMA WritesInv2 ==
  ASSUME Inv, Inv2, NEW d \in Drafts, Writes(d)
  PROVE  Inv2'
<1>1. \A x \in Drafts : status'[x] = "DISTRIBUTING" <=> status[x] = "DISTRIBUTING"
  BY DEF Inv, Tables, Writes, To
<1>2. \A x \in Drafts : Live(x)' => Live(x)
  BY <1>1 DEF Live, Distributing, Writes
<1>3. \A x \in Drafts, i \in Keys : Answers(x, i)' <=> Answers(x, i)
  BY DEF Answers, At, NextKey, Next1, Todo, Writes
<1> QED BY <1>2, <1>3, QuietInv2 DEF Writes

-----------------------------------------------------------------------------
(* Approvals.                                                              *)

\* The frame of an approval, and what is asked for with it.
Asks(h, d, t, old, roots) ==
  /\ run' = [run EXCEPT ![h] = Frame(d, t, old, roots)]
  /\ reviewed' = [reviewed EXCEPT ![d] = [plan |-> plan[d], items |-> t]]
  /\ Approves(d, t)

\* An approval takes a draft that nobody distributes.
Takes(h, d) ==
  /\ run[h] = None
  /\ status[d] \in {"DRAFT", "PARTIAL", "APPROVED"}
  /\ plan[d] \in Plans
  /\ To(d, "DISTRIBUTING")
  /\ \E t \in SUBSET Items, old \in Plans \cup {None}, roots \in SUBSET Keys :
       Asks(h, d, t, old, roots)
  /\ UNCHANGED <<plan, parent, rows, generating, remote, made, losses, restarts>>

\* The frame an approval starts with is of the plan in the row.
LEMMA FrameIsFrame ==
  ASSUME NEW d \in Drafts, NEW t, NEW old, NEW roots
  PROVE  /\ IsFrame(Frame(d, t, old, roots))
         /\ Frame(d, t, old, roots).draft = d
         /\ Frame(d, t, old, roots).plan = plan[d]
         /\ Frame(d, t, old, roots).at = "ensure"
         /\ Frame(d, t, old, roots).todo = t
<1>1. Frame(d, t, old, roots) = Rec(d, plan[d], t, "ensure", {}, old, roots)
  BY DEF Frame, Rec
<1> QED BY <1>1, RecFields DEF Places

\* Both kinds of approval do.
LEMMA ApprovalTakes ==
  ASSUME Inv, Typed, NEW h \in Handlers, NEW d \in Drafts, NEW p \in Plans,
         Approve(h, d, p) \/ \E ms \in (SUBSET Modules) \ {{}} : ApproveRevision(h, d, p, ms)
  PROVE  Takes(h, d)
<1>0. ASSUME NEW t \in SUBSET Items, NEW old \in Plans \cup {None}, NEW roots \in SUBSET Keys,
             status[d] \in {"DRAFT", "PARTIAL", "APPROVED"},
             Approves(d, t),
             Distribute(h, d, p, Frame(d, t, old, roots))
      PROVE  Takes(h, d)
  <2>1. /\ p = plan[d] /\ run[h] = None /\ To(d, "DISTRIBUTING")
        /\ run' = [run EXCEPT ![h] = Frame(d, t, old, roots)]
        /\ reviewed' = [reviewed EXCEPT ![d] =
                          [plan |-> p, items |-> Frame(d, t, old, roots).todo]]
        /\ UNCHANGED <<plan, parent, rows, generating, remote, made, losses, restarts>>
    BY <1>0, Zenon DEF Distribute
  <2>2. Frame(d, t, old, roots).todo = t
    BY FrameIsFrame
  <2>3. reviewed' = [reviewed EXCEPT ![d] = [plan |-> plan[d], items |-> t]]
    BY <2>1, <2>2
  <2>4. Asks(h, d, t, old, roots)
    BY <1>0, <2>1, <2>3, Zenon DEF Asks
  <2> QED BY <1>0, <2>1, <2>4, Zenon DEF Takes
<1>1. CASE Approve(h, d, p)
  <2>1. BaseItems(plan[d]) \in SUBSET Items
    BY DEF BaseItems
  <2>2. /\ status[d] \in {"DRAFT", "PARTIAL", "APPROVED"}
        /\ Distribute(h, d, p, Frame(d, BaseItems(plan[d]), None, {}))
    BY <1>1 DEF Approve, Approvable
  <2>3. Approves(d, BaseItems(plan[d]))
    BY DEF Approves
  <2> QED BY <1>0, <2>1, <2>2, <2>3
<1>2. CASE \E ms \in (SUBSET Modules) \ {{}} : ApproveRevision(h, d, p, ms)
  <2>1. PICK ms \in SUBSET Modules : ApproveRevision(h, d, p, ms)
    BY <1>2
  <2>2. status[d] \in {"DRAFT", "PARTIAL", "APPROVED"} /\ parent[d] # None
    BY <2>1 DEF ApproveRevision, RevisionApprovable, Approvable
  <2> DEFINE old == plan[parent[d]]
             t == RevisionItems(plan[d], old, ms)
             roots == Created(parent[d])
  <2>3. Distribute(h, d, p, Frame(d, t, old, roots))
    BY <2>1 DEF ApproveRevision
  <2>4. t \in SUBSET Items /\ roots \in SUBSET Keys
    BY DEF RevisionItems, Created
  <2>5. old \in Plans \cup {None}
    BY <2>2 DEF Inv, Tables, Typed
  <2>6. Approves(d, t)
    BY <2>2 DEF Approves
  <2> HIDE DEF old, t, roots
  <2> QED BY <1>0, <2>2, <2>3, <2>4, <2>5, <2>6
<1> QED BY <1>1, <1>2

\* Its writer is the only one: the status was none of a draft in distribution.
LEMMA TakesInv ==
  ASSUME Inv, NEW h \in Handlers, NEW d \in Drafts, Takes(h, d)
  PROVE  Inv'
<1> PICK t \in SUBSET Items, old \in Plans \cup {None}, roots \in SUBSET Keys :
      Asks(h, d, t, old, roots)
  BY Zenon DEF Takes
<1> DEFINE f == Frame(d, t, old, roots)
<1> IsFrame(f) /\ f.draft = d /\ f.plan = plan[d] /\ f.at = "ensure"
  BY FrameIsFrame
<1> run' = [run EXCEPT ![h] = f] /\ reviewed' = [reviewed EXCEPT ![d] = [plan |-> plan[d], items |-> t]]
  BY DEF Asks
<1> HIDE DEF f
<1>1. Tables'
  BY DEF Inv, Tables, Statuses, Takes, To
<1>2. run'[h] = f /\ \A g \in Handlers \ {h} : run'[g] = run[g]
  BY DEF Inv, Tables
<1>3. \A x \in Drafts \ {d} : status'[x] = status[x] /\ reviewed'[x] = reviewed[x]
  BY DEF Inv, Tables, Takes, To
<1>4. status'[d] = "DISTRIBUTING" /\ reviewed'[d].plan = plan[d]
  BY DEF Inv, Tables, Takes, To
<1>5. \A g \in Handlers \ {h} : Distributing(g)' =>
        Distributing(g) /\ run[g].draft \in Drafts \ {d}
  BY <1>2, FrameFields DEF Distributing, Inv, Tables, OneWriter, Takes
<1>6. OneWriter'
  <2>1. \A x \in generating' : status'[x] = "GENERATING"
    BY <1>3 DEF Inv, Tables, OneWriter, Takes
  <2>2. ASSUME NEW g \in Handlers, Distributing(g)'
        PROVE  /\ status'[run'[g].draft] = "DISTRIBUTING"
               /\ run'[g].plan = plan'[run'[g].draft]
    BY <1>2, <1>3, <1>4, <1>5, <2>2 DEF Inv, OneWriter, Takes
  <2>3. ASSUME NEW g \in Handlers, Distributing(g)', NEW k \in Handlers \ {g}, Distributing(k)'
        PROVE  run'[k].draft # run'[g].draft
    BY <1>2, <1>5, <2>3 DEF Inv, OneWriter
  <2> QED BY <2>1, <2>2, <2>3 DEF OneWriter
<1>7. Early'
  BY <1>3, <1>4 DEF Inv, Early, Takes
<1>8. Agreed'
  <2>1. ASSUME NEW g \in Handlers \ {h}, Distributing(g)'
        PROVE  /\ run'[g].plan \in Plans
               /\ reviewed'[run'[g].draft].plan = run'[g].plan
               /\ run'[g].at # "ensure" => ~IsDone(run[g].draft, Next1(g))'
    BY <1>2, <1>3, <1>5, <2>1 DEF Inv, Agreed, Takes, IsDone, Next1, Todo
  <2>2. /\ run'[h].plan \in Plans /\ run'[h].at = "ensure"
        /\ reviewed'[run'[h].draft].plan = run'[h].plan
    BY <1>2, <1>4 DEF Takes
  <2> QED BY <2>1, <2>2, <1>2 DEF Agreed, IsDone, Takes
<1>9. DeliveredIsReviewed'
  <2>1. \A x \in Drafts : Created(x)' = Created(x)
    BY DEF Created, Takes
  <2> QED BY <1>3, <1>4, <2>1 DEF Inv, DeliveredIsReviewed, Takes
<1> QED BY <1>1, <1>6, <1>7, <1>8, <1>9 DEF Inv

\* The draft was live already, and nothing of it is on its way.
LEMMA TakesInv2 ==
  ASSUME Inv, Inv2, NEW h \in Handlers, NEW d \in Drafts, Takes(h, d)
  PROVE  Inv2'
<1>3. PICK t \in SUBSET Items, old \in Plans \cup {None}, roots \in SUBSET Keys :
        Asks(h, d, t, old, roots)
  BY Zenon DEF Takes
<1>1. \A g \in Handlers \ {h} : run'[g] = run[g]
  BY <1>3 DEF Inv, Tables, Asks
<1>2. \A x \in Drafts \ {d} : status'[x] = status[x]
  BY DEF Inv, Tables, Takes, To
<1>4. run'[h].draft = d
  BY <1>3, FrameIsFrame DEF Inv, Tables, Asks
<1>5. ASSUME NEW x \in Drafts, Live(x)' PROVE Live(x)
  <2>1. CASE x = d
    BY <2>1 DEF Live, Takes
  <2>2. CASE x # d
    BY <1>1, <1>2, <1>4, <1>5, <2>2 DEF Live, Distributing
  <2> QED BY <2>1, <2>2
<1>6. \A x \in Drafts, i \in Keys : Answers(x, i) => Answers(x, i)'
  BY <1>1 DEF Answers, At, NextKey, Next1, Todo, Takes
<1> QED BY <1>5, <1>6, QuietInv2 DEF Takes

-----------------------------------------------------------------------------
(* A distribution.                                                         *)

\* A count is a number, and a change outside the domain changes nothing.
LEMMA Counted ==
  ASSUME NEW S, NEW f \in [S -> Nat], NEW i, NEW e, i \in S => e \in Nat
  PROVE  [f EXCEPT ![i] = e] \in [S -> Nat]
<1>1. \A x \in S : (IF x = i THEN e ELSE f[x]) \in Nat
  OBVIOUS
<1>2. [f EXCEPT ![i] = e] = [x \in S |-> IF x = i THEN e ELSE f[x]]
  OBVIOUS
<1> QED BY <1>1, <1>2

\* What a step of a handler writes besides its frame.
LEMMA HandlerWrites ==
  ASSUME Inv, NEW h \in Handlers, HandlerStep(h)
  PROVE  /\ UNCHANGED <<plan, parent, generating, reviewed>>
         /\ \/ status' = status
            \/ run'[h] = None /\ \E s \in {"PARTIAL", "APPROVED"} : To(run[h].draft, s)
         /\ \/ rows' = rows
            \/ /\ run'[h] # None => run'[h].at = "ensure"
               /\ \E x \in {run[h].plan, "FAILED"} :
                    rows' = [rows EXCEPT ![run[h].draft][NextKey(h)] = x]
         /\ remote' \in [Drafts -> [Keys -> Nat]]
         /\ losses' \in Nat
<1> USE DEF Inv, Tables
<1>1. CASE Skip(h) \/ Call(h) \/ Unrooted(h) \/ Unsent(h)
  BY <1>1 DEF Skip, Call, Unrooted, Unsent, draftVars
<1>2. CASE Answered(h) \/ Unanswered(h) \/ Unreadable(h)
  <2>1. Act(h) /\ UNCHANGED <<plan, parent, generating, reviewed, status, rows>>
    BY <1>2 DEF Answered, Unanswered, Unreadable, draftVars
  <2>2. remote' \in [Drafts -> [Keys -> Nat]]
    <3> DEFINE d == run[h].draft
               i == NextKey(h)
               row == [remote[d] EXCEPT ![i] = remote[d][i] + 1]
    <3>1. run[h] # None
      BY <1>2 DEF Answered, Unanswered, Unreadable, At
    <3>2. d \in Drafts
      BY <3>1, FrameFields
    <3>3. row \in [Keys -> Nat]
      <4>1. remote[d] \in [Keys -> Nat]
        BY <3>2
      <4>2. i \in Keys => remote[d][i] + 1 \in Nat
        BY <4>1
      <4> QED BY <4>1, <4>2, Counted
    <3>4. remote' = [remote EXCEPT ![d] = row]
      BY <2>1 DEF Act
    <3> HIDE DEF row, d
    <3> QED BY <3>2, <3>3, <3>4
  <2>3. losses' \in Nat
    BY <1>2 DEF Answered, Unanswered, Unreadable, Lose
  <2> QED BY <2>1, <2>2, <2>3
<1>3. CASE Checkpoint(h)
  <2>1. \E x \in {run[h].plan, "FAILED"} :
          rows' = [rows EXCEPT ![run[h].draft][NextKey(h)] = x]
    BY <1>3 DEF Checkpoint
  <2>2. \E t, s : run' = [run EXCEPT ![h] = [run[h] EXCEPT !.at = "ensure", !.todo = t, !.failed = s]]
    BY <1>3, Zenon DEF Checkpoint, Step
  <2>3. run'[h] # None => run'[h].at = "ensure"
    <3>1. PICK t, s : run' = [run EXCEPT ![h] =
                               [run[h] EXCEPT !.at = "ensure", !.todo = t, !.failed = s]]
      BY <2>2
    <3>2. IsFrame(run[h]) /\ "ensure" \in Places
      BY <1>3 DEF Checkpoint, Places
    <3>3. Same(run[h], [run[h] EXCEPT !.at = "ensure", !.todo = t, !.failed = s], "ensure")
      BY <3>2, FrameChanges, Zenon
    <3>4. run'[h] = [run[h] EXCEPT !.at = "ensure", !.todo = t, !.failed = s]
      BY <3>1, Zenon
    <3> QED BY <3>3, <3>4 DEF Same
  <2> QED BY <1>3, <2>1, <2>3 DEF Checkpoint, draftVars
<1>4. CASE Finish(h)
  <2>1. \E s \in {"PARTIAL", "APPROVED"} : To(run[h].draft, s)
    BY <1>4 DEF Finish, Outcome
  <2>2. run'[h] = None
    BY <1>4 DEF Finish, Step
  <2> QED BY <1>4, <2>1, <2>2 DEF Finish
<1> QED BY <1>1, <1>2, <1>3, <1>4 DEF HandlerStep

\* The rows of the draft it distributes, and of no other.
LEMMA HandlerRows ==
  ASSUME Inv, NEW h \in Handlers, HandlerStep(h), NEW d, d = run[h].draft
  PROVE  /\ \A x \in Drafts \ {d} : status'[x] = status[x] /\ rows'[x] = rows[x]
         /\ \/ status'[d] = status[d]
            \/ run'[h] = None /\ status'[d] \in {"PARTIAL", "APPROVED"}
         /\ \A k \in Keys : rows'[d][k] \in {rows[d][k], run[h].plan, "FAILED"}
<1>1. d \in Drafts
  BY HandlerMoves, FrameFields DEF Inv, Tables
<1>2. /\ \A x \in Drafts \ {d} : status'[x] = status[x]
      /\ \/ status'[d] = status[d]
         \/ run'[h] = None /\ status'[d] \in {"PARTIAL", "APPROVED"}
  <2>1. CASE status' = status
    BY <2>1
  <2>2. CASE run'[h] = None /\ \E s \in {"PARTIAL", "APPROVED"} : To(d, s)
    BY <1>1, <2>2 DEF Inv, Tables, To
  <2> QED BY <2>1, <2>2, HandlerWrites
<1>3. /\ \A x \in Drafts \ {d} : rows'[x] = rows[x]
      /\ \A k \in Keys : rows'[d][k] \in {rows[d][k], run[h].plan, "FAILED"}
  <2>1. CASE rows' = rows
    BY <2>1
  <2>2. CASE \E x \in {run[h].plan, "FAILED"} : rows' = [rows EXCEPT ![d][NextKey(h)] = x]
    <3>1. PICK x \in {run[h].plan, "FAILED"} : rows' = [rows EXCEPT ![d][NextKey(h)] = x]
      BY <2>2
    <3>2. rows'[d] = [rows[d] EXCEPT ![NextKey(h)] = x] /\ DOMAIN rows[d] = Keys
      BY <1>1, <3>1 DEF Inv, Tables
    <3> QED BY <1>1, <3>1, <3>2 DEF Inv, Tables
  <2> QED BY <2>1, <2>2, HandlerWrites
<1> QED BY <1>2, <1>3

\* The other handlers distribute other drafts, whose rows are left alone.
LEMMA OthersStay ==
  ASSUME Inv, NEW h \in Handlers, HandlerStep(h), NEW g \in Handlers \ {h}
  PROVE  /\ run'[g] = run[g]
         /\ Distributing(g) => /\ run[g].draft \in Drafts \ {run[h].draft}
                               /\ status'[run[g].draft] = status[run[g].draft]
                               /\ rows'[run[g].draft] = rows[run[g].draft]
<1>1. Distributing(h) /\ run'[g] = run[g]
  BY HandlerMoves DEF Inv, Moves
<1>2. Distributing(g) => run[g].draft \in Drafts \ {run[h].draft}
  BY <1>1, FrameFields DEF Inv, Tables, OneWriter, Distributing
<1>3. \A x \in Drafts \ {run[h].draft} : status'[x] = status[x] /\ rows'[x] = rows[x]
  BY HandlerRows
<1> QED BY <1>1, <1>2, <1>3

\* A step of a distribution keeps the plan, and marks what it made with it.
LEMMA HandlerInv ==
  ASSUME Inv, NEW h \in Handlers, HandlerStep(h)
  PROVE  Inv'
<1> DEFINE d == run[h].draft
<1>1. Distributing(h) /\ run[h] # None /\ d \in Drafts
  BY HandlerMoves, FrameFields DEF Inv, Tables
<1>2. status[d] = "DISTRIBUTING" /\ run[h].plan = plan[d] /\ plan[d] \in Plans
      /\ reviewed[d].plan = plan[d]
  BY <1>1 DEF Inv, OneWriter, Agreed
<1>3. PICK a \in {"ensure", "call", "made", "lost"} :
        /\ Moves(h, a)
        /\ a = "call" => Call(h)
        /\ a = "made" => Answered(h)
        /\ a = "lost" => Unanswered(h)
  BY HandlerMoves, Zenon DEF Inv
<1>4. \A x \in Drafts \ {d} : status'[x] = status[x] /\ rows'[x] = rows[x]
  BY HandlerRows
<1>5. \/ status'[d] = "DISTRIBUTING"
      \/ run'[h] = None /\ status'[d] \in {"PARTIAL", "APPROVED"}
  BY <1>2, HandlerRows
<1>6. \A k \in Keys : rows'[d][k] \in {rows[d][k], plan[d], "FAILED"}
  BY <1>2, HandlerRows
<1>7. Tables'
  <2>1. status' \in [Drafts -> Statuses \cup {"ABSENT"}]
    BY HandlerWrites DEF Inv, Tables, Statuses, To
  <2>2. rows' \in [Drafts -> [Keys -> Plans \cup {"FAILED", None}]]
    <3>1. CASE rows' = rows
      BY <3>1 DEF Inv, Tables
    <3>2. CASE \E x \in {run[h].plan, "FAILED"} : rows' = [rows EXCEPT ![d][NextKey(h)] = x]
      <4> PICK x \in Plans \cup {"FAILED", None} : rows' = [rows EXCEPT ![d][NextKey(h)] = x]
        BY <1>2, <3>2
      <4> HIDE DEF d
      <4> QED BY <1>1 DEF Inv, Tables
    <3> QED BY <3>1, <3>2, HandlerWrites
  <2>3. DOMAIN run' = Handlers /\ \A g \in Handlers : run'[g] # None => IsFrame(run'[g])
    BY <1>3 DEF Inv, Tables, Moves, Same
  <2> QED BY <2>1, <2>2, <2>3, HandlerWrites DEF Inv, Tables
<1>8. \A g \in Handlers : Distributing(g)' => Distributing(g) /\ run'[g].draft = run[g].draft
                                               /\ run'[g].plan = run[g].plan
  BY <1>1, <1>3 DEF Distributing, Moves, Same
<1>9. \A g \in Handlers : Distributing(g)' => status'[run[g].draft] = "DISTRIBUTING"
  BY <1>1, <1>5, <1>8, OthersStay DEF Inv, OneWriter, Distributing
<1>10. OneWriter'
  <2>1. \A x \in generating' : status'[x] = "GENERATING"
    <3>1. generating \subseteq Drafts \ {d} /\ generating' = generating
      BY <1>2, HandlerWrites DEF Inv, Tables, OneWriter
    <3> QED BY <1>4, <3>1 DEF Inv, OneWriter
  <2>2. ASSUME NEW g \in Handlers, Distributing(g)', NEW k \in Handlers \ {g}, Distributing(k)'
        PROVE  run'[k].draft # run'[g].draft
    BY <1>8, <2>2 DEF Inv, OneWriter
  <2>3. \A g \in Handlers : Distributing(g)' => run'[g].plan = plan'[run'[g].draft]
    BY <1>8, HandlerWrites DEF Inv, OneWriter
  <2> QED BY <1>8, <1>9, <2>1, <2>2, <2>3 DEF OneWriter
<1>11. Early'
  BY <1>4, <1>5 DEF Inv, Early
<1>12. Agreed'
  <2>1. ASSUME NEW g \in Handlers, Distributing(g)'
        PROVE  run'[g].plan \in Plans /\ reviewed'[run'[g].draft].plan = run'[g].plan
    BY <1>8, <2>1, HandlerWrites DEF Inv, Agreed
  <2>2. ASSUME NEW g \in Handlers \ {h}, Distributing(g)', run'[g].at # "ensure"
        PROVE  ~IsDone(run[g].draft, Next1(g))'
    BY <1>8, <2>2, OthersStay DEF Inv, Agreed, IsDone, Next1, Todo
  <2>3. ASSUME Distributing(h)', run'[h].at # "ensure"
        PROVE  ~IsDone(run[h].draft, Next1(h))'
    <3>1. rows' = rows /\ run'[h] # None /\ a # "ensure"
      BY <1>3, <2>3, HandlerWrites DEF Distributing, Moves, Same
    <3>2. ~IsDone(d, Next1(h))
      <4>1. CASE a = "call"
        BY <1>3, <4>1 DEF Call
      <4>2. CASE a # "call"
        <5>1. run[h].at = "call"
          BY <1>3, <3>1, <4>2 DEF Answered, Unanswered, At
        <5> QED BY <1>1, <5>1 DEF Inv, Agreed
      <4> QED BY <4>1, <4>2
    <3>3. run'[h].todo = run[h].todo /\ run'[h].draft = d
      BY <1>3, <3>1 DEF Moves, Same
    <3> QED BY <3>1, <3>2, <3>3 DEF IsDone, Next1, Todo
  <2> QED BY <2>1, <2>2, <2>3 DEF Agreed, IsDone
<1>13. DeliveredIsReviewed'
  <2>1. ASSUME NEW x \in Drafts, NEW k \in Keys, rows'[x][k] \in Plans
        PROVE  rows'[x][k] = plan[x] /\ plan[x] = reviewed[x].plan
    BY <1>2, <1>4, <1>6, <2>1, NoPlanAssumption DEF Inv, DeliveredIsReviewed, Created
  <2> QED BY <2>1, HandlerWrites DEF DeliveredIsReviewed, Created
<1> QED BY <1>7, <1>10, <1>11, <1>12, <1>13 DEF Inv

\* A draft that is live after a step of a handler was so before.
LEMMA HandlerLive ==
  ASSUME Inv, NEW h \in Handlers, HandlerStep(h), NEW x \in Drafts, Live(x)'
  PROVE  Live(x)
<1>1. Distributing(h) /\ DOMAIN run' = Handlers
  BY HandlerMoves DEF Inv, Moves
<1>2. CASE status'[x] = "DISTRIBUTING"
  <2>1. PICK g \in Handlers : Distributing(g)' /\ run'[g].draft = x
    BY <1>2 DEF Live
  <2>2. Distributing(g) /\ run[g].draft = x
    <3>1. CASE g = h
      <4>1. run'[h].draft = run[h].draft
        BY <2>1, <3>1, HandlerMoves DEF Inv, Moves, Same, Distributing
      <4> QED BY <1>1, <2>1, <3>1, <4>1
    <3>2. CASE g # h
      <4>1. run'[g] = run[g]
        BY <3>2, OthersStay
      <4> QED BY <2>1, <4>1 DEF Distributing
    <3> QED BY <3>1, <3>2
  <2> QED BY <2>2 DEF Live
<1>3. CASE status'[x] # "DISTRIBUTING"
  <2>1. CASE x = run[h].draft
    BY <1>1, <2>1 DEF Live
  <2>2. CASE x # run[h].draft
    <3>1. status'[x] = status[x]
      BY <2>2, HandlerRows
    <3> QED BY <1>3, <3>1 DEF Live
  <2> QED BY <2>1, <2>2
<1> QED BY <1>2, <1>3

\* What another handler has made is still made.
LEMMA HandlerMade ==
  ASSUME Inv, NEW h \in Handlers, HandlerStep(h), NEW x \in Drafts, NEW k \in Keys,
         Answers(x, k)
  PROVE  \/ Answers(x, k)'
         \/ At(h, "made") /\ run[h].draft = x /\ NextKey(h) = k
<1>1. PICK g \in Handlers : At(g, "made") /\ run[g].draft = x /\ NextKey(g) = k
  BY DEF Answers
<1>2. CASE g # h
  <2>1. run'[g] = run[g]
    BY <1>2, OthersStay
  <2> QED BY <1>1, <2>1 DEF Answers, At, NextKey, Next1, Todo
<1> QED BY <1>1, <1>2

\* A call carries out the item at the head of the queue, once more than before.
LEMMA CallActs ==
  ASSUME Inv, NEW h \in Handlers, At(h, "call"), Act(h), NEW x \in Drafts, NEW k \in Keys
  PROVE  /\ remote[x][k] \in Nat
         /\ remote'[x][k] = IF x = run[h].draft /\ k = NextKey(h) THEN remote[x][k] + 1
                            ELSE remote[x][k]
<1> DEFINE d == run[h].draft
<1>1. d \in Drafts
  BY FrameFields DEF Inv, Tables, At
<1>2. remote'[d] = [remote[d] EXCEPT ![NextKey(h)] = remote[d][NextKey(h)] + 1]
      /\ \A y \in Drafts \ {d} : remote'[y] = remote[y]
  BY <1>1 DEF Inv, Tables, Act
<1>3. remote[d] \in [Keys -> Nat] /\ remote[x] \in [Keys -> Nat]
  BY <1>1 DEF Inv, Tables
<1> HIDE DEF d
<1> QED BY <1>2, <1>3 DEF d

\* A call is for an item that is not made, so only losses have made it before.
LEMMA HandlerInv2 ==
  ASSUME Inv, Inv2, NEW h \in Handlers, HandlerStep(h)
  PROVE  Inv2'
<1> DEFINE d == run[h].draft
<1>1. Distributing(h) /\ d \in Drafts
  BY HandlerMoves, FrameFields DEF Inv, Tables
<1>2. CASE Skip(h) \/ Call(h) \/ Unrooted(h) \/ Unsent(h) \/ Finish(h)
  <2>1. ~At(h, "made") /\ UNCHANGED <<remote, losses, rows>>
    BY <1>2 DEF Skip, Call, Unrooted, Unsent, Finish, At
  <2> QED BY <2>1, HandlerLive, HandlerMade, QuietInv2
<1>3. CASE Checkpoint(h)
  <2>1. UNCHANGED <<remote, losses>>
    BY <1>3 DEF Checkpoint
  <2>2. ASSUME NEW x \in Drafts, NEW k \in Keys, rows'[x][k] \notin Plans
        PROVE  rows[x][k] \notin Plans /\ ~(At(h, "made") /\ d = x /\ NextKey(h) = k)
    <3>1. PICK y : /\ At(h, "made") => y = run[h].plan
                   /\ ~At(h, "made") => y = "FAILED"
                   /\ rows' = [rows EXCEPT ![d][NextKey(h)] = y]
      BY <1>3 DEF Checkpoint, At
    <3>2. run[h].plan \in Plans
      BY <1>1 DEF Inv, Agreed
    <3>3. CASE x = d /\ k = NextKey(h)
      <4>1. rows'[x][k] = y
        BY <1>1, <3>1, <3>3 DEF Inv, Tables
      <4>2. ~At(h, "made")
        BY <2>2, <3>1, <3>2, <4>1
      <4>3. ~IsDone(d, Next1(h))
        BY <1>1, <1>3 DEF Inv, Agreed, Checkpoint
      <4> QED BY <3>3, <4>2, <4>3 DEF IsDone, NextKey
    <3>4. CASE ~(x = d /\ k = NextKey(h))
      <4>1. rows'[x][k] = rows[x][k]
        BY <1>1, <3>1, <3>4 DEF Inv, Tables
      <4> QED BY <2>2, <3>4, <4>1
    <3> QED BY <3>3, <3>4
  <2> QED BY <2>1, <2>2, HandlerLive, HandlerMade, QuietInv2
<1>4. CASE Answered(h) \/ Unanswered(h) \/ Unreadable(h)
  <2>1. At(h, "call") /\ Act(h) /\ rows' = rows
    BY <1>4 DEF Answered, Unanswered, Unreadable
  <2>2. ASSUME NEW k \in Keys, k = NextKey(h)
        PROVE  Live(d) /\ rows[d][k] \notin Plans /\ ~Answers(d, k)
    <3>1. Live(d)
      BY <1>1 DEF Live
    <3>2. rows[d][k] \notin Plans
      BY <1>1, <2>1, <2>2 DEF Inv, Agreed, At, IsDone, NextKey
    <3>3. ~Answers(d, k)
      BY <1>1, <2>1 DEF Answers, At, Distributing, Inv, OneWriter
    <3> QED BY <3>1, <3>2, <3>3
  <2>3. \A k \in Keys : k = NextKey(h) => remote[d][k] <= losses
    BY <1>1, <2>2 DEF Inv2, Unmade
  <2>4. losses \in Nat /\ losses' \in Nat /\ losses <= losses'
    BY <1>4, HandlerWrites DEF Inv, Tables, Answered, Unanswered, Unreadable, Lose
  <2>5. OnlyLossesDuplicate'
    BY <1>1, <2>1, <2>3, <2>4, CallActs DEF Inv2, OnlyLossesDuplicate
  <2>6. ASSUME NEW x \in Drafts, NEW k \in Keys,
               Live(x)', rows'[x][k] \notin Plans, ~Answers(x, k)'
        PROVE  remote'[x][k] <= losses'
    <3>1. Live(x) /\ rows[x][k] \notin Plans /\ ~Answers(x, k)
      BY <2>1, <2>6, HandlerLive, HandlerMade DEF At
    <3>2. remote[x][k] <= losses
      BY <3>1 DEF Inv2, Unmade
    <3>3. CASE x = d /\ k = NextKey(h)
      <4>1. CASE Answered(h)
        <5>1. run'[h] = [run[h] EXCEPT !.at = "made"] /\ run[h] # None
          BY <4>1, Zenon DEF Answered, Step, At, Inv, Tables
        <5>2. Same(run[h], run'[h], "made") /\ run'[h].todo = run[h].todo
          <6>1. IsFrame(run[h]) /\ "made" \in Places
            BY <5>1 DEF Inv, Tables, Places
          <6>2. /\ Same(run[h], [run[h] EXCEPT !.at = "made"], "made")
                /\ [run[h] EXCEPT !.at = "made"].todo = run[h].todo
            BY <6>1, FrameChanges, Zenon
          <6> QED BY <5>1, <6>2
        <5>3. run'[h] = None
          BY <2>6, <3>3, <5>2 DEF Answers, At, NextKey, Next1, Todo, Same
        <5>4. status'[d] = "DISTRIBUTING"
          BY <1>1, <4>1 DEF Answered, draftVars, Inv, OneWriter
        <5>5. PICK g \in Handlers : Distributing(g)' /\ run'[g].draft = d
          BY <2>6, <3>3, <5>4 DEF Live
        <5>6. g # h /\ run'[g] = run[g]
          BY <5>3, <5>5, OthersStay DEF Distributing
        <5>7. Distributing(g) /\ run[g].draft = d
          BY <5>5, <5>6 DEF Distributing
        <5> QED BY <1>1, <5>6, <5>7 DEF Inv, OneWriter
      <4>2. CASE Unanswered(h) \/ Unreadable(h)
        <5>1. losses' = losses + 1
          BY <4>2 DEF Unanswered, Unreadable, Lose
        <5> QED BY <2>1, <2>4, <3>2, <3>3, <5>1, CallActs
      <4> QED BY <1>4, <4>1, <4>2
    <3>4. CASE ~(x = d /\ k = NextKey(h))
      BY <2>1, <2>4, <3>2, <3>4, CallActs
    <3> QED BY <3>3, <3>4
  <2> QED BY <2>5, <2>6 DEF Inv2, Unmade
<1> QED BY <1>2, <1>3, <1>4 DEF HandlerStep

-----------------------------------------------------------------------------
(* Checks and restarts.                                                    *)

\* A check reads no table and writes none.
Looks(h) ==
  /\ run[h] = None \/ At(h, "reading") \/ At(h, "dying")
  /\ \E f : /\ run' = [run EXCEPT ![h] = f]
            /\ f # None => IsFrame(f) /\ f \in Frames /\ f.at \in {"reading", "dying"}
  /\ UNCHANGED <<status, plan, parent, rows, generating, reviewed, remote, made, losses, restarts>>

\* Both steps of a check do.
LEMMA ChecksLook ==
  ASSUME Inv, Inv3, NEW h \in Handlers, CheckEnds(h) \/ \E d \in Drafts : Check(h, d)
  PROVE  Looks(h)
<1>1. CASE CheckEnds(h)
  BY <1>1, Zenon DEF CheckEnds, Step, Looks, draftVars
<1>2. CASE \E d \in Drafts : Check(h, d)
  <2>1. PICK d \in Drafts : Check(h, d)
    BY <1>2
  <2>2. PICK a \in {"reading", "dying"} :
          run' = [run EXCEPT ![h] = [Frame(d, {}, None, {}) EXCEPT !.at = a]]
    BY <2>1, Zenon DEF Check, Step
  <2> DEFINE f == [Frame(d, {}, None, {}) EXCEPT !.at = a]
  <2>3. IsFrame(Frame(d, {}, None, {})) /\ a \in Places
    BY FrameIsFrame DEF Places
  <2>4. Same(Frame(d, {}, None, {}), f, a)
    BY <2>3, FrameChanges, Zenon
  <2>5. IsFrame(f) /\ f.at = a
    BY <2>4 DEF Same
  <2>6. run' = [run EXCEPT ![h] = f]
    BY <2>2
  <2>8. f \in Frames
    <3>1. plan[d] \in Plans /\ {} \in SUBSET Items /\ {} \in SUBSET Modules
      BY <2>1 DEF Check, Inv3, Asking
    <3>2. Frame(d, {}, None, {}) \in Frames
      BY <3>1 DEF Frame, Frames
    <3>3. Has(f, Frame(d, {}, None, {}).todo, Frame(d, {}, None, {}).failed)
      BY <2>3, <3>1, <3>2, FrameTypes, Zenon
    <3> QED BY <3>3 DEF Has
  <2> HIDE DEF f
  <2>7. \E g : /\ run' = [run EXCEPT ![h] = g]
               /\ g # None => IsFrame(g) /\ g \in Frames /\ g.at \in {"reading", "dying"}
    BY <2>5, <2>6, <2>8
  <2> QED BY <2>1, <2>7 DEF Check, Looks, draftVars
<1> QED BY <1>1, <1>2

\* A check is no writer.
LEMMA LooksInv ==
  ASSUME Inv, NEW h \in Handlers, Looks(h)
  PROVE  Inv'
<1>1. \A g \in Handlers \ {h} : run'[g] = run[g]
  BY DEF Inv, Tables, Looks
<1>2. ~Distributing(h)'
  BY DEF Inv, Tables, Looks, Distributing
<1>3. Tables'
  BY DEF Inv, Tables, Looks
<1>4. OneWriter'
  BY <1>1, <1>2 DEF Inv, OneWriter, Distributing, Looks
<1>5. Early' /\ DeliveredIsReviewed'
  BY DEF Inv, Early, DeliveredIsReviewed, Created, Looks
<1>6. Agreed'
  BY <1>1, <1>2 DEF Inv, Agreed, Distributing, IsDone, Next1, Todo, Looks
<1> QED BY <1>3, <1>4, <1>5, <1>6 DEF Inv

\* Nor does it carry anything out.
LEMMA LooksInv2 ==
  ASSUME Inv, Inv2, NEW h \in Handlers, Looks(h)
  PROVE  Inv2'
<1>1. \A g \in Handlers \ {h} : run'[g] = run[g]
  BY DEF Inv, Tables, Looks
<1>2. ~Distributing(h)' /\ ~At(h, "made")
  BY DEF Inv, Tables, Looks, Distributing, At
<1>3. \A x \in Drafts : Live(x)' => Live(x)
  BY <1>1, <1>2 DEF Live, Distributing, Looks
<1>4. \A x \in Drafts, i \in Keys : Answers(x, i) => Answers(x, i)'
  BY <1>1, <1>2 DEF Answers, At, NextKey, Next1, Todo
<1> QED BY <1>3, <1>4, QuietInv2 DEF Looks

\* After a restart nothing is distributed, and what was in distribution never will be.
LEMMA RestartInv ==
  ASSUME Inv, Inv2, Restart
  PROVE  Inv' /\ Inv2'
<1>1. \A h \in Handlers : ~Distributing(h)' /\ ~At(h, "made")'
  BY DEF Restart, Distributing, At
<1>2. Tables'
  BY DEF Inv, Tables, Restart, draftVars
<1>3. OneWriter' /\ Agreed'
  BY <1>1 DEF Restart, OneWriter, Agreed
<1>4. Early' /\ DeliveredIsReviewed'
  BY DEF Inv, Early, DeliveredIsReviewed, Created, Restart, draftVars
<1>5. ASSUME NEW x \in Drafts, NEW i \in Keys, Live(x)'
      PROVE  Live(x) /\ ~Answers(x, i)
  <2>1. status[x] # "DISTRIBUTING"
    BY <1>1, <1>5 DEF Live, Restart, draftVars
  <2> QED BY <2>1 DEF Live, Answers, At, Distributing, Inv, OneWriter
<1> QED BY <1>2, <1>3, <1>4, <1>5, QuietInv2 DEF Inv, Restart

-----------------------------------------------------------------------------
(* What an approval asks for.                                              *)

\* Nothing is approved yet.
LEMMA InitInv3 == Init => Inv3
<1> SUFFICES ASSUME Init PROVE Inv3
  OBVIOUS
<1>1. Typed
  BY BoundsAssumption DEF Init, Typed
<1>2. Asking /\ Complete /\ Accounted
  BY DEF Init, Asking, Complete, Accounted, Distributing
<1> QED BY <1>1, <1>2 DEF Inv3

\* The row of one draft is written, whose parent is one that was approved.
LEMMA WritesOne ==
  ASSUME Inv, Inv3, NEW d \in Drafts, Writes(d)
  PROVE  /\ \A x \in Drafts \ {d} :
              status'[x] = status[x] /\ plan'[x] = plan[x] /\ parent'[x] = parent[x]
         /\ parent'[d] = parent[d] \/ (parent'[d] # None => status[parent'[d]] = "APPROVED")
         /\ parent' \in [Drafts -> Drafts \cup {None}]
<1>1. \A x \in Drafts \ {d} : status'[x] = status[x] /\ plan'[x] = plan[x]
  BY DEF Inv, Tables, Writes, To
<1>2. CASE parent' = parent
  BY <1>1, <1>2 DEF Inv3, Typed
<1>3. CASE parent' # parent
  <2>1. PICK q \in Drafts \cup {None} :
          parent' = [parent EXCEPT ![d] = q] /\ (q # None => status[q] = "APPROVED")
    BY <1>3 DEF Writes
  <2>2. parent'[d] = q /\ \A x \in Drafts \ {d} : parent'[x] = parent[x]
    BY <2>1 DEF Inv3, Typed
  <2>3. parent' \in [Drafts -> Drafts \cup {None}]
    BY <2>1 DEF Inv3, Typed
  <2> QED BY <1>1, <2>1, <2>2, <2>3
<1> QED BY <1>2, <1>3

\* Nothing is asked for of a draft that still changes.
LEMMA WritesInv3 ==
  ASSUME Inv, Inv3, NEW d \in Drafts, Writes(d)
  PROVE  Inv3'
<1>1. /\ \A x \in Drafts \ {d} :
           status'[x] = status[x] /\ plan'[x] = plan[x] /\ parent'[x] = parent[x]
      /\ parent' \in [Drafts -> Drafts \cup {None}]
  BY WritesOne
<1>2. status'[d] \notin {"DISTRIBUTING", "PARTIAL", "APPROVED"}
  BY DEF Inv, Tables, Writes, To
<1>3. Typed'
  BY <1>1 DEF Inv3, Typed, Writes, Todo
<1>4. Asking' /\ Complete'
  BY <1>1, <1>2 DEF Inv3, Asking, Complete, IsDone, Writes
<1>5. Accounted'
  BY DEF Inv3, Accounted, Covered, Distributing, IsDone, Writes
<1> QED BY <1>3, <1>4, <1>5 DEF Inv3

\* An approval asks for what its frame has to do.
LEMMA TakesInv3 ==
  ASSUME Inv, Inv3, NEW h \in Handlers, NEW d \in Drafts, Takes(h, d)
  PROVE  Inv3'
<1> PICK t \in SUBSET Items, old \in Plans \cup {None}, roots \in SUBSET Keys :
      Asks(h, d, t, old, roots)
  BY Zenon DEF Takes
<1> DEFINE f == Frame(d, t, old, roots)
           r == [plan |-> plan[d], items |-> t]
<1>1. f \in Frames /\ f.draft = d /\ f.at = "ensure" /\ f.todo = t
  <2>1. plan[d] \in Plans /\ {} \in SUBSET Modules
    BY DEF Takes
  <2> QED BY <2>1 DEF Frame, Frames
<1>2. run' = [run EXCEPT ![h] = f] /\ reviewed' = [reviewed EXCEPT ![d] = r]
  BY DEF Asks
<1>3. r \in [plan : Plans, items : SUBSET Items] /\ r.items = t
  BY DEF Takes
<1> HIDE DEF f, r
<1>4. run'[h] = f /\ \A g \in Handlers \ {h} : run'[g] = run[g]
  BY <1>2 DEF Inv, Tables
<1>5. reviewed'[d] = r /\ \A x \in Drafts \ {d} : reviewed'[x] = reviewed[x]
  BY <1>2 DEF Inv, Tables
<1>6. status'[d] = "DISTRIBUTING" /\ \A x \in Drafts \ {d} : status'[x] = status[x]
  BY DEF Inv, Tables, Takes, To
<1>7. Typed'
  BY <1>1, <1>3, <1>4, <1>5 DEF Inv3, Typed, Takes, Todo
<1>8. Asking'
  <2>1. parent[d] = None => t = BaseItems(plan[d])
    BY DEF Asks, Approves
  <2> QED BY <1>3, <1>5, <1>6, <2>1 DEF Inv3, Asking, Takes
<1>9. Complete'
  BY <1>5, <1>6 DEF Inv3, Complete, IsDone, Takes
<1>10. Accounted'
  <2>1. ASSUME NEW g \in Handlers \ {h}, Distributing(g)'
        PROVE  Covered(run[g].draft, run[g].todo, run[g].failed)'
    <3>1. Distributing(g) /\ run'[g] = run[g]
      BY <1>4, <2>1 DEF Distributing
    <3>2. run[g].draft \in Drafts \ {d}
      BY <3>1, FrameFields DEF Inv, Tables, OneWriter, Distributing, Takes
    <3> QED BY <1>5, <3>1, <3>2 DEF Inv3, Accounted, Covered, IsDone, Takes
  <2>2. Covered(run[h].draft, run[h].todo, run[h].failed)'
    BY <1>1, <1>3, <1>4, <1>5 DEF Covered
  <2> QED BY <2>1, <2>2 DEF Accounted
<1> QED BY <1>7, <1>8, <1>9, <1>10 DEF Inv3

\* A check asks for nothing.
LEMMA LooksInv3 ==
  ASSUME Inv, Inv3, NEW h \in Handlers, Looks(h)
  PROVE  Inv3'
<1>1. \A g \in Handlers \ {h} : run'[g] = run[g]
  BY DEF Inv, Tables, Looks
<1>2. ~Distributing(h)' /\ (run'[h] # None => run'[h] \in Frames /\ run'[h].at \in {"reading", "dying"})
  BY DEF Inv, Tables, Looks, Distributing
<1>3. Typed'
  BY <1>1, <1>2 DEF Inv3, Typed, Todo, Looks
<1>4. Asking' /\ Complete'
  BY DEF Inv3, Asking, Complete, IsDone, Looks
<1>5. Accounted'
  BY <1>1, <1>2 DEF Inv3, Accounted, Covered, Distributing, IsDone, Looks
<1> QED BY <1>3, <1>4, <1>5 DEF Inv3

\* A restart leaves what was created, and ends what was not.
LEMMA RestartInv3 ==
  ASSUME Inv, Inv3, Restart
  PROVE  Inv3'
<1>1. Typed'
  BY BoundsAssumption DEF Inv3, Typed, Restart, draftVars
<1>2. Asking' /\ Complete'
  BY DEF Inv3, Asking, Complete, IsDone, Restart, draftVars
<1>3. Accounted'
  BY DEF Accounted, Distributing, Restart
<1> QED BY <1>1, <1>2, <1>3 DEF Inv3

\* Handler h goes on with these items and failures, or ends.
Goes(h, t, s) ==
  run'[h] # None =>
    /\ run'[h] \in Frames
    /\ run'[h].todo = t /\ run'[h].failed = s
    /\ run'[h].at \in {"call", "made", "lost"} => t # {}

\* What a step of a handler does with the items it has been asked for.
Serves(h) ==
  \/ /\ Goes(h, Todo(h), run[h].failed)
     /\ UNCHANGED <<rows, status>>
  \/ /\ Todo(h) # {} /\ Goes(h, Later(h), run[h].failed)
     /\ UNCHANGED status
     /\ \/ rows' = rows /\ (Lookup(Next1(h)) \/ IsDone(run[h].draft, Next1(h)))
        \/ rows' = [rows EXCEPT ![run[h].draft][NextKey(h)] = run[h].plan]
  \/ /\ Todo(h) # {} /\ Goes(h, Rest(h), run[h].failed \cup {Next1(h).module})
     /\ ~IsDone(run[h].draft, Next1(h))
     /\ UNCHANGED status
     /\ rows' = [rows EXCEPT ![run[h].draft][NextKey(h)] = "FAILED"]
  \/ /\ Todo(h) = {} /\ run'[h] = None
     /\ UNCHANGED rows
     /\ To(run[h].draft, Outcome(h))

\* The items of a frame are items, and the next one is one of them.
LEMMA NextIsLeft ==
  ASSUME NEW h \in Handlers, run[h] \in Frames
  PROVE  /\ Todo(h) \in SUBSET Items /\ Later(h) \in SUBSET Items /\ Rest(h) \in SUBSET Items
         /\ run[h].failed \in SUBSET Modules
         /\ Todo(h) # {} => /\ Next1(h) \in Todo(h) /\ Next1(h) \in Items
                            /\ Next1(h).module \in Modules
<1>1. Todo(h) \in SUBSET Items /\ run[h].failed \in SUBSET Modules
  BY DEF Frames, Todo
<1>2. Later(h) \in SUBSET Items /\ Rest(h) \in SUBSET Items
  BY <1>1 DEF Later, Rest
<1>3. Todo(h) # {} => Next1(h) \in Todo(h)
  BY <1>1, FirstIsLeft DEF Next1
<1>4. \A i \in Items : i.module \in Modules
  BY ItemFields
<1> QED BY <1>1, <1>2, <1>3, <1>4

\* Each step of a distribution serves in one of these ways.
LEMMA HandlerServes ==
  ASSUME Inv, Inv3, NEW h \in Handlers, HandlerStep(h)
  PROVE  Serves(h)
<1>1. /\ run[h] # None /\ run[h] \in Frames /\ run[h].at \in Places /\ h \in DOMAIN run
      /\ run[h].at \in {"call", "made", "lost"} => Todo(h) # {}
  BY HandlerMoves, FrameFields DEF Inv, Tables, Inv3, Typed
<1>0. /\ Later(h) \in SUBSET Items /\ run[h].failed \in SUBSET Modules
      /\ {} \in SUBSET Items /\ "ensure" \in Places
  BY <1>1, NextIsLeft DEF Places
<1>2. \A a \in Places : Has([run[h] EXCEPT !.at = a], Todo(h), run[h].failed)
  BY <1>0, <1>1, FrameTypes, Zenon DEF Todo
<1>3. CASE Skip(h)
  <2>1. run'[h] = [run[h] EXCEPT !.todo = Later(h)]
    BY <1>1, <1>3 DEF Skip, Step
  <2>2. Has([run[h] EXCEPT !.todo = Later(h)], Later(h), run[h].failed)
    BY <1>0, <1>1, FrameTypes, Zenon
  <2>3. [run[h] EXCEPT !.todo = Later(h)].at = "ensure"
    BY <1>1, <1>3 DEF Skip, At, Frames
  <2>4. Goes(h, Later(h), run[h].failed)
    BY <2>1, <2>2, <2>3 DEF Goes, Has
  <2> QED BY <1>3, <2>4 DEF Skip, Serves, draftVars
<1>4. CASE Call(h) \/ Answered(h) \/ Unanswered(h)
  <2>1. PICK a \in {"call", "made", "lost"} : run' = [run EXCEPT ![h] = [run[h] EXCEPT !.at = a]]
    BY <1>4, Zenon DEF Call, Answered, Unanswered, Step
  <2>2. run'[h] = [run[h] EXCEPT !.at = a] /\ a \in Places
    BY <1>1, <2>1 DEF Places
  <2>3. Todo(h) # {}
    BY <1>1, <1>4 DEF Call, Answered, Unanswered, At
  <2>4. Goes(h, Todo(h), run[h].failed)
    BY <1>2, <2>2, <2>3 DEF Goes, Has
  <2> QED BY <1>4, <2>4 DEF Call, Answered, Unanswered, Serves, draftVars
<1>5. CASE Unrooted(h) \/ Unreadable(h) \/ Unsent(h)
  <2>1. run'[h] = None
    BY <1>1, <1>5 DEF Unrooted, Unreadable, Unsent, Step
  <2> QED BY <1>5, <2>1 DEF Goes, Unrooted, Unreadable, Unsent, Serves, draftVars
<1>6. CASE Checkpoint(h)
  <2>1. Todo(h) # {} /\ ~IsDone(run[h].draft, Next1(h))
    <3>1. Distributing(h) /\ run[h].at # "ensure"
      BY <1>6 DEF Checkpoint, Distributing
    <3> QED BY <1>1, <1>6, <3>1 DEF Checkpoint, Inv, Agreed
  <2>2. CASE run[h].at = "made"
    <3> DEFINE g == [run[h] EXCEPT !.at = "ensure", !.todo = Later(h), !.failed = run[h].failed]
    <3>1. run' = [run EXCEPT ![h] = g]
      BY <1>6, <2>2 DEF Checkpoint, Step
    <3>2. Has(g, Later(h), run[h].failed)
      BY <1>0, <1>1, FrameTypes, Zenon
    <3>3. g.at = "ensure"
      BY <1>1 DEF Frames
    <3> HIDE DEF g
    <3>4. Goes(h, Later(h), run[h].failed)
      BY <1>1, <3>1, <3>2, <3>3 DEF Goes, Has
    <3>5. rows' = [rows EXCEPT ![run[h].draft][NextKey(h)] = run[h].plan]
      BY <1>6, <2>2 DEF Checkpoint
    <3> QED BY <1>6, <2>1, <3>4, <3>5 DEF Checkpoint, Serves, draftVars
  <2>3. CASE run[h].at # "made"
    <3> DEFINE s == run[h].failed \cup {Next1(h).module}
               g == [run[h] EXCEPT !.at = "ensure", !.todo = Rest(h), !.failed = s]
    <3>1. run' = [run EXCEPT ![h] = g]
      BY <1>6, <2>3 DEF Checkpoint, Step
    <3>2. Has(g, Rest(h), s)
      <4>1. s \in SUBSET Modules /\ Rest(h) \in SUBSET Items
        BY <1>1, <2>1, NextIsLeft
      <4> HIDE DEF s
      <4> QED BY <1>0, <1>1, <4>1, FrameTypes, Zenon
    <3>3. g.at = "ensure"
      BY <1>1 DEF Frames
    <3> HIDE DEF g
    <3>4. Goes(h, Rest(h), s)
      BY <1>1, <3>1, <3>2, <3>3 DEF Goes, Has
    <3>5. rows' = [rows EXCEPT ![run[h].draft][NextKey(h)] = "FAILED"]
      BY <1>6, <2>3 DEF Checkpoint
    <3> QED BY <1>6, <2>1, <3>4, <3>5 DEF Checkpoint, Serves, draftVars
  <2> QED BY <2>2, <2>3
<1>7. CASE Finish(h)
  <2>1. run'[h] = None
    BY <1>1, <1>7 DEF Finish, Step
  <2> QED BY <1>7, <2>1 DEF Finish, Serves
<1> QED BY <1>3, <1>4, <1>5, <1>6, <1>7 DEF HandlerStep

\* What becomes of the rows of the draft, but for that of the item served.
LEMMA ServedRows ==
  ASSUME Inv, NEW d \in Drafts, NEW n \in Keys, NEW x, rows' = [rows EXCEPT ![d][n] = x]
  PROVE  rows'[d][n] = x /\ \A k \in Keys \ {n} : rows'[d][k] = rows[d][k]
<1>1. d \in DOMAIN rows /\ DOMAIN rows[d] = Keys
  BY DEF Inv, Tables
<1>2. rows'[d] = [rows[d] EXCEPT ![n] = x]
  BY <1>1
<1> QED BY <1>1, <1>2

\* A row is created of the item that was served, which was still to be served.
Makes(h) ==
  /\ At(h, "made") /\ Checkpoint(h) /\ Todo(h) # {}
  /\ made' = [made EXCEPT ![run[h].draft] = @ \cup {Next1(h)}]
  /\ rows' = [rows EXCEPT ![run[h].draft][NextKey(h)] = run[h].plan]

\* No other step of a distribution makes anything or creates a row.
LEMMA HandlerMakes ==
  ASSUME Inv, Inv3, NEW h \in Handlers, HandlerStep(h)
  PROVE  \/ Makes(h)
         \/ /\ made' = made
            /\ rows' = rows \/ rows' = [rows EXCEPT ![run[h].draft][NextKey(h)] = "FAILED"]
<1>1. CASE Checkpoint(h)
  <2>1. CASE At(h, "made")
    <3>1. Todo(h) # {}
      BY <2>1 DEF At, Inv3, Typed
    <3> QED BY <1>1, <2>1, <3>1 DEF Checkpoint, Makes, At
  <2>2. CASE ~At(h, "made")
    <3>1. run[h].at # "made"
      BY <1>1, <2>2 DEF Checkpoint, At
    <3>2. made' = [made EXCEPT ![run[h].draft] = @]
      BY <1>1, <3>1 DEF Checkpoint
    <3>3. made' = made
      BY <3>2 DEF Inv3, Typed
    <3> QED BY <1>1, <3>1, <3>3 DEF Checkpoint
  <2> QED BY <2>1, <2>2
<1>2. CASE ~Checkpoint(h)
  BY <1>2 DEF HandlerStep, Skip, Call, Unrooted, Answered, Unanswered, Unreadable, Unsent, Finish
<1> QED BY <1>1, <1>2

\* No item that was asked for is lost on the way.
LEMMA HandlerInv3 ==
  ASSUME Inv, Inv3, NEW h \in Handlers, HandlerStep(h)
  PROVE  Inv3'
<1>0. PICK d \in Drafts : d = run[h].draft
  BY HandlerMoves, FrameFields DEF Inv, Tables
<1>1. /\ Distributing(h) /\ run[h] # None /\ run[h] \in Frames
      /\ run[h].plan \in Plans /\ status[d] = "DISTRIBUTING"
  BY <1>0, HandlerMoves DEF Inv, Tables, Agreed, OneWriter, Inv3, Typed
<1>2. Serves(h) /\ UNCHANGED <<plan, parent, reviewed>>
  BY HandlerServes, HandlerWrites
<1>3. \A g \in Handlers \ {h} : run'[g] = run[g]
  BY OthersStay
<1>4. /\ Todo(h) \in SUBSET Items
      /\ Todo(h) # {} => /\ Next1(h) \in Todo(h) /\ Next1(h) \in Items
                         /\ NextKey(h) \in Keys
  BY <1>1, NextIsLeft, ItemFields DEF NextKey
<1>5. plan[d] \in Plans /\ reviewed[d].items \in SUBSET Items
  BY <1>1 DEF Inv3, Asking
<1>6. Covered(d, Todo(h), run[h].failed)
  BY <1>0, <1>1 DEF Inv3, Accounted, Todo
<1>7. losses' \in 0 .. MaxLosses /\ restarts' = restarts
  <2>1. \/ losses' = losses \/ Lose
    BY DEF HandlerStep, Skip, Call, Unrooted, Answered, Unanswered, Unreadable, Unsent, Checkpoint, Finish
  <2>2. restarts' = restarts
    BY DEF HandlerStep, Skip, Call, Unrooted, Answered, Unanswered, Unreadable, Unsent, Checkpoint, Finish
  <2> QED BY <2>1, <2>2, BoundsAssumption DEF Inv3, Typed, Lose
<1> DEFINE Done(i) == rows'[d][KeyOf(i)] \in Plans
<1>8. /\ run'[h] # None => \A i \in reviewed[d].items :
           Lookup(i) \/ i \in run'[h].todo \/ Done(i) \/ i.module \in run'[h].failed
      /\ run'[h] # None => run'[h] \in Frames /\ (run'[h].at \in {"call", "made", "lost"} => run'[h].todo # {})
      /\ status'[d] = "APPROVED" => \A i \in reviewed[d].items : Lookup(i) \/ Done(i)
  <2>1. CASE Goes(h, Todo(h), run[h].failed) /\ UNCHANGED <<rows, status>>
    BY <1>0, <1>1, <1>2, <1>6, <2>1 DEF Goes, Covered, IsDone
  <2>2. CASE /\ Todo(h) # {} /\ Goes(h, Later(h), run[h].failed)
             /\ UNCHANGED status
             /\ \/ rows' = rows /\ (Lookup(Next1(h)) \/ IsDone(d, Next1(h)))
                \/ rows' = [rows EXCEPT ![d][NextKey(h)] = run[h].plan]
    <3>1. /\ \A i \in Items : IsDone(d, i) => Done(i)
          /\ Lookup(Next1(h)) \/ Done(Next1(h))
      <4>1. CASE rows' = rows /\ (Lookup(Next1(h)) \/ IsDone(d, Next1(h)))
        BY <4>1 DEF IsDone
      <4>2. CASE rows' = [rows EXCEPT ![d][NextKey(h)] = run[h].plan]
        <5>1. /\ rows'[d][NextKey(h)] = run[h].plan
              /\ \A k \in Keys \ {NextKey(h)} : rows'[d][k] = rows[d][k]
          <6>1. PICK n \in Keys : n = NextKey(h)
            BY <1>4, <2>2
          <6>2. PICK x : x = run[h].plan
            OBVIOUS
          <6>3. rows' = [rows EXCEPT ![d][n] = x]
            BY <4>2, <6>1, <6>2
          <6> QED BY <6>1, <6>2, <6>3, ServedRows
        <5>2. ASSUME NEW i \in Items, IsDone(d, i) PROVE Done(i)
          <6>1. KeyOf(i) \in Keys /\ (KeyOf(i) = NextKey(h) \/ rows'[d][KeyOf(i)] = rows[d][KeyOf(i)])
            BY <5>1, ItemFields
          <6> QED BY <1>1, <5>1, <5>2, <6>1 DEF IsDone
        <5>3. Done(Next1(h))
          BY <1>1, <5>1 DEF NextKey
        <5> QED BY <5>2, <5>3
      <4> QED BY <2>2, <4>1, <4>2
    <3>2. \A i \in Todo(h) : i = Next1(h) \/ i \in Later(h)
      BY DEF Later
    <3>3. \A i \in reviewed[d].items :
            Lookup(i) \/ i \in Later(h) \/ Done(i) \/ i.module \in run[h].failed
      BY <1>5, <1>6, <3>1, <3>2 DEF Covered
    <3> QED BY <1>1, <1>2, <2>2, <3>3 DEF Goes, Covered, IsDone
  <2>3. CASE /\ Todo(h) # {} /\ Goes(h, Rest(h), run[h].failed \cup {Next1(h).module})
             /\ ~IsDone(d, Next1(h))
             /\ UNCHANGED status
             /\ rows' = [rows EXCEPT ![d][NextKey(h)] = "FAILED"]
    <3>1. \A i \in Items : IsDone(d, i) => Done(i)
      <4>1. \A k \in Keys \ {NextKey(h)} : rows'[d][k] = rows[d][k]
        BY <1>4, <2>3, ServedRows
      <4>2. \A i \in Items : IsDone(d, i) => KeyOf(i) # NextKey(h)
        BY <2>3 DEF IsDone, NextKey
      <4> QED BY <4>1, <4>2, ItemFields DEF IsDone
    <3>2. \A i \in Todo(h) : i.module = Next1(h).module \/ i \in Rest(h)
      BY DEF Rest
    <3>3. \A i \in reviewed[d].items :
            \/ Lookup(i) \/ i \in Rest(h) \/ Done(i)
            \/ i.module \in run[h].failed \cup {Next1(h).module}
      BY <1>5, <1>6, <2>3, <3>1, <3>2 DEF Covered
    <3> QED BY <1>1, <1>2, <2>3, <3>3 DEF Goes, Covered, IsDone
  <2>4. CASE /\ Todo(h) = {} /\ run'[h] = None
             /\ UNCHANGED rows
             /\ To(d, Outcome(h))
    <3>1. status'[d] = Outcome(h)
      BY <1>0, <1>1, <2>4 DEF Inv, Tables, To
    <3>2. Outcome(h) = "APPROVED" => run[h].failed = {}
      BY DEF Outcome
    <3> QED BY <1>6, <2>4, <3>1, <3>2 DEF Covered, IsDone
  <2> QED BY <1>0, <1>2, <2>1, <2>2, <2>3, <2>4, Zenon DEF Serves
<1>9. /\ \A x \in Drafts \ {d} : status'[x] = status[x] /\ rows'[x] = rows[x]
      /\ status'[d] \in {"DISTRIBUTING", "PARTIAL", "APPROVED"}
  BY <1>0, <1>1, HandlerRows
<1>10. Typed'
  <2>1. made' \in [Drafts -> SUBSET Items]
    <3>1. CASE Makes(h)
      <4>1. Next1(h) \in Items /\ made' = [made EXCEPT ![d] = made[d] \cup {Next1(h)}]
        BY <1>0, <1>4, <3>1 DEF Makes
      <4> QED BY <4>1 DEF Inv3, Typed
    <3>2. CASE made' = made
      BY <3>2 DEF Inv3, Typed
    <3> QED BY <3>1, <3>2, HandlerMakes
  <2> QED BY <1>2, <1>3, <1>7, <1>8, <2>1 DEF Inv3, Typed, Todo
<1>11. Asking'
  BY <1>1, <1>2, <1>9 DEF Inv3, Asking
<1>12. Complete'
  <2>1. ASSUME NEW x \in Drafts \ {d}, status'[x] = "APPROVED"
        PROVE  \A i \in reviewed[x].items : Lookup(i) \/ IsDone(x, i)'
    BY <1>9, <2>1 DEF Inv3, Complete, IsDone
  <2>2. status'[d] = "APPROVED" => \A i \in reviewed[d].items : Lookup(i) \/ IsDone(d, i)'
    BY <1>8 DEF IsDone
  <2> QED BY <1>2, <2>1, <2>2 DEF Complete, IsDone
<1>13. Accounted'
  <2>1. ASSUME NEW g \in Handlers \ {h}, Distributing(g)'
        PROVE  Covered(run[g].draft, run[g].todo, run[g].failed)'
    <3>1. Distributing(g) /\ run'[g] = run[g] /\ rows'[run[g].draft] = rows[run[g].draft]
      BY <2>1, OthersStay DEF Distributing
    <3> QED BY <1>2, <3>1 DEF Inv3, Accounted, Covered, IsDone
  <2>2. run'[h] # None => run'[h].draft = d
    BY <1>0, HandlerMoves DEF Inv, Moves, Same
  <2>3. Distributing(h)' => Covered(run[h].draft, run[h].todo, run[h].failed)'
    BY <1>2, <1>8, <2>2 DEF Distributing, Covered, IsDone
  <2> QED BY <2>1, <2>3 DEF Accounted
<1> QED BY <1>10, <1>11, <1>12, <1>13 DEF Inv3

-----------------------------------------------------------------------------
(* What rows are made of.                                                  *)

\* Nothing is made yet.
LEMMA InitInv4 == Init => Inv4
<1> SUFFICES ASSUME Init PROVE Inv4
  OBVIOUS
<1>1. Revised /\ Approved
  BY DEF Init, Revised, Approved, Distributing, Settled
<1>2. Sourced
  BY NoPlanAssumption DEF Init, Sourced, Created, Settled
<1> QED BY <1>1, <1>2 DEF Inv4

\* What can be approved is a matter of the plans of a draft and of its parent.
LEMMA SamePlans ==
  ASSUME NEW d \in Drafts, plan'[d] = plan[d], parent'[d] = parent[d],
         parent[d] # None => plan'[parent[d]] = plan[parent[d]]
  PROVE  /\ AllItems(d)' = AllItems(d)
         /\ \A t : Approves(d, t) => Approves(d, t)'
<1>1. AllItems(d)' = AllItems(d)
  BY DEF AllItems
<1>2. ASSUME NEW t, Approves(d, t) PROVE Approves(d, t)'
  BY <1>2 DEF Approves
<1> QED BY <1>1, <1>2

\* What one approval asks for is what all of them can ask for, but for the modules.
LEMMA AsksOfAll ==
  ASSUME NEW d \in Drafts, NEW t, Approves(d, t)
  PROVE  t \subseteq AllItems(d)
<1>1. CASE t = BaseItems(plan[d])
  BY <1>1 DEF AllItems
<1>2. CASE /\ parent[d] # None
           /\ \E ms \in SUBSET Modules : t = RevisionItems(plan[d], plan[parent[d]], ms)
  <2>1. PICK ms \in SUBSET Modules : t = RevisionItems(plan[d], plan[parent[d]], ms)
    BY <1>2
  <2>2. t \subseteq RevisionItems(plan[d], plan[parent[d]], Modules)
    BY <2>1 DEF RevisionItems
  <2> QED BY <1>2, <2>2 DEF AllItems
<1> QED BY <1>1, <1>2 DEF Approves

\* The draft that is written is nobody's parent, and nothing is made of it.
LEMMA WritesInv4 ==
  ASSUME Inv, Inv3, Inv4, NEW d \in Drafts, Writes(d)
  PROVE  Inv4'
<1>1. status[d] \notin Settled /\ status'[d] \notin Settled
  BY DEF Writes, To, Settled, Inv, Tables
<1>2. /\ \A x \in Drafts \ {d} :
           status'[x] = status[x] /\ plan'[x] = plan[x] /\ parent'[x] = parent[x]
      /\ parent'[d] = parent[d] \/ (parent'[d] # None => status[parent'[d]] = "APPROVED")
      /\ parent' \in [Drafts -> Drafts \cup {None}]
  BY WritesOne
<1>3. \A x \in Drafts : parent[x] # None => parent[x] \in Drafts \ {d}
  BY <1>1 DEF Inv3, Typed, Inv4, Revised
<1>4. Revised'
  <2>1. ASSUME NEW x \in Drafts \ {d}, parent'[x] # None
        PROVE  status'[parent'[x]] \in Settled
    BY <1>2, <1>3, <2>1 DEF Inv4, Revised
  <2>2. ASSUME parent'[d] # None
        PROVE  status'[parent'[d]] \in Settled
    <3>1. parent'[d] \in Drafts /\ status[parent'[d]] \in Settled
      BY <1>2, <2>2 DEF Inv4, Revised, Settled
    <3> QED BY <1>1, <1>2, <3>1
  <2> QED BY <2>1, <2>2 DEF Revised
<1>5. ASSUME NEW x \in Drafts \ {d}
      PROVE  /\ AllItems(x)' = AllItems(x)
             /\ \A t : Approves(x, t) => Approves(x, t)'
  <2>1. parent[x] # None => plan'[parent[x]] = plan[parent[x]]
    BY <1>2, <1>3
  <2> QED BY <1>2, <2>1, SamePlans
<1>6. Approved'
  <2>1. ASSUME NEW x \in Drafts, status'[x] \in Settled
        PROVE  Approves(x, reviewed[x].items)'
    <3>1. x # d /\ Approves(x, reviewed[x].items) /\ reviewed' = reviewed
      BY <1>1, <1>2, <2>1 DEF Inv4, Approved, Writes
    <3> QED BY <1>5, <3>1
  <2>2. \A h \in Handlers : Distributing(h)' => (Todo(h) \subseteq reviewed[run[h].draft].items)'
    BY DEF Inv4, Approved, Distributing, Todo, Writes
  <2> QED BY <2>1, <2>2 DEF Approved
<1>7. Sourced'
  BY <1>1, <1>2, <1>5 DEF Inv4, Sourced, Created, Writes
<1> QED BY <1>4, <1>6, <1>7 DEF Inv4

\* An approval asks for what its handler starts with.
LEMMA TakesInv4 ==
  ASSUME Inv, Inv3, Inv4, NEW h \in Handlers, NEW d \in Drafts, Takes(h, d)
  PROVE  Inv4'
<1> PICK t \in SUBSET Items, old \in Plans \cup {None}, roots \in SUBSET Keys :
      Asks(h, d, t, old, roots)
  BY Zenon DEF Takes
<1>1. run'[h].draft = d /\ run'[h].todo = t /\ \A g \in Handlers \ {h} : run'[g] = run[g]
  BY FrameIsFrame DEF Asks, Inv, Tables
<1>2. /\ reviewed'[d].items = t /\ Approves(d, t)
      /\ \A x \in Drafts \ {d} : reviewed'[x] = reviewed[x]
  BY DEF Asks, Inv, Tables
<1>3. /\ status'[d] \in Settled /\ \A x \in Drafts \ {d} : status'[x] = status[x]
      /\ UNCHANGED <<plan, parent, rows, made>>
  BY DEF Inv, Tables, Takes, To, Settled
<1>4. \A x \in Drafts : AllItems(x)' = AllItems(x) /\ \A u : Approves(x, u) => Approves(x, u)'
  BY <1>3, SamePlans
<1>5. Revised'
  BY <1>3 DEF Inv3, Typed, Inv4, Revised
<1>6. Approved'
  <2>1. ASSUME NEW x \in Drafts, status'[x] \in Settled
        PROVE  Approves(x, reviewed[x].items)'
    <3>1. Approves(x, reviewed'[x].items)
      BY <1>2, <1>3, <2>1 DEF Inv4, Approved
    <3> QED BY <1>4, <3>1
  <2>2. ASSUME NEW g \in Handlers \ {h}, Distributing(g)'
        PROVE  (Todo(g) \subseteq reviewed[run[g].draft].items)'
    <3>1. Distributing(g) /\ run'[g] = run[g]
      BY <1>1, <2>2 DEF Distributing
    <3>2. run[g].draft \in Drafts \ {d}
      BY <3>1, FrameFields DEF Inv, Tables, OneWriter, Distributing, Takes
    <3> QED BY <1>2, <3>1, <3>2 DEF Inv4, Approved, Todo
  <2>3. (Todo(h) \subseteq reviewed[run[h].draft].items)'
    BY <1>1, <1>2 DEF Todo
  <2> QED BY <2>1, <2>2, <2>3 DEF Approved
<1>7. Sourced'
  <2>1. made[d] \subseteq AllItems(d)
    BY DEF Inv4, Sourced
  <2> QED BY <1>3, <1>4, <2>1 DEF Inv4, Sourced, Created
<1> QED BY <1>5, <1>6, <1>7 DEF Inv4

\* A check and a restart leave all of it alone.
LEMMA OtherInv4 ==
  ASSUME Inv, Inv4, Restart \/ \E h \in Handlers : Looks(h)
  PROVE  Inv4'
<1>1. /\ UNCHANGED <<status, plan, parent, rows, made, reviewed>>
      /\ \A g \in Handlers : Distributing(g)' => Distributing(g) /\ run'[g] = run[g]
  <2>1. CASE Restart
    BY <2>1 DEF Restart, draftVars, Distributing
  <2>2. CASE \E h \in Handlers : Looks(h)
    BY <2>2 DEF Looks, Inv, Tables, Distributing
  <2> QED BY <2>1, <2>2
<1>2. Revised' /\ Sourced'
  BY <1>1 DEF Inv4, Revised, Sourced, AllItems, Created
<1>3. Approved'
  BY <1>1 DEF Inv4, Approved, Approves, Todo
<1> QED BY <1>2, <1>3 DEF Inv4

\* A row is created of an item that its approval asked for.
LEMMA HandlerInv4 ==
  ASSUME Inv, Inv3, Inv4, NEW h \in Handlers, HandlerStep(h)
  PROVE  Inv4'
<1>0. PICK d \in Drafts : d = run[h].draft
  BY HandlerMoves, FrameFields DEF Inv, Tables
<1>1. /\ Distributing(h) /\ run[h] \in Frames /\ status[d] = "DISTRIBUTING"
  BY <1>0, HandlerMoves DEF Inv, OneWriter, Inv3, Typed
<1>2. /\ status[d] \in Settled /\ status'[d] \in Settled
      /\ \A x \in Drafts \ {d} : status'[x] = status[x]
      /\ UNCHANGED <<plan, parent, reviewed>>
  <2>1. status'[d] \in Settled /\ \A x \in Drafts \ {d} : status'[x] = status[x]
    BY <1>0, <1>1, HandlerRows DEF Settled
  <2>2. UNCHANGED <<plan, parent, reviewed>>
    BY HandlerWrites
  <2> QED BY <1>1, <2>1, <2>2 DEF Settled
<1>3. \A x \in Drafts : AllItems(x)' = AllItems(x) /\ \A u : Approves(x, u) => Approves(x, u)'
  BY <1>2, SamePlans
<1>4. Revised'
  BY <1>2 DEF Inv3, Typed, Inv4, Revised
<1>5. Approved'
  <2>1. ASSUME NEW x \in Drafts, status'[x] \in Settled
        PROVE  Approves(x, reviewed[x].items)'
    <3>1. Approves(x, reviewed[x].items) /\ reviewed' = reviewed
      BY <1>2, <2>1 DEF Inv4, Approved
    <3> QED BY <1>3, <3>1
  <2>2. ASSUME NEW g \in Handlers \ {h}, Distributing(g)'
        PROVE  (Todo(g) \subseteq reviewed[run[g].draft].items)'
    <3>1. run'[g] = run[g] /\ Distributing(g)
      BY <2>2, OthersStay DEF Distributing
    <3> QED BY <1>2, <3>1 DEF Inv4, Approved, Todo
  <2>3. ASSUME Distributing(h)'
        PROVE  (Todo(h) \subseteq reviewed[run[h].draft].items)'
    <3>1. run'[h] # None /\ run'[h].draft = run[h].draft
      BY <2>3, HandlerMoves DEF Distributing, Inv, Moves, Same
    <3>2. Serves(h)
      BY HandlerServes
    <3>3. run'[h].todo \subseteq Todo(h)
      BY <3>1, <3>2 DEF Serves, Goes, Later, Rest
    <3>4. Todo(h) \subseteq reviewed[run[h].draft].items
      BY <1>1 DEF Inv4, Approved
    <3> QED BY <1>2, <3>1, <3>3, <3>4 DEF Todo
  <2> QED BY <2>1, <2>2, <2>3 DEF Approved
<1>6. Sourced'
  <2>1. CASE Makes(h)
    <3>1. PICK i \in Items : i = Next1(h) /\ i \in Todo(h)
      BY <1>1, <2>1, NextIsLeft DEF Makes
    <3>2. i \in AllItems(d)
      <4>1. i \in reviewed[d].items /\ Approves(d, reviewed[d].items)
        BY <1>0, <1>1, <1>2, <3>1 DEF Inv4, Approved
      <4> QED BY <4>1, AsksOfAll
    <3>3. PICK k \in Keys : k = KeyOf(i)
      BY ItemFields
    <3>4. /\ made'[d] = made[d] \cup {i}
          /\ \A x \in Drafts \ {d} : made'[x] = made[x]
      <4>1. made' = [made EXCEPT ![d] = made[d] \cup {i}]
        BY <1>0, <2>1, <3>1 DEF Makes
      <4> QED BY <4>1 DEF Inv3, Typed
    <3>5. /\ \A y \in Keys \ {k} : rows'[d][y] = rows[d][y]
          /\ \A x \in Drafts \ {d} : rows'[x] = rows[x]
      <4>1. PICK p : rows' = [rows EXCEPT ![d][k] = p]
        BY <1>0, <2>1, <3>1, <3>3 DEF Makes, NextKey
      <4>2. \A x \in Drafts \ {d} : rows'[x] = rows[x]
        BY <1>0, HandlerRows
      <4> QED BY <4>1, <4>2, ServedRows
    <3>6. \A y \in Created(d)' : \E j \in made'[d] : KeyOf(j) = y
      BY <3>3, <3>4, <3>5 DEF Inv4, Sourced, Created
    <3>7. \A x \in Drafts \ {d} : \A y \in Created(x)' : \E j \in made'[x] : KeyOf(j) = y
      BY <3>4, <3>5 DEF Inv4, Sourced, Created
    <3>8. \A x \in Drafts : /\ status'[x] \in Settled => made'[x] \subseteq AllItems(x)
                            /\ status'[x] \notin Settled => made'[x] = {}
      BY <1>2, <3>2, <3>4 DEF Inv4, Sourced
    <3> QED BY <1>3, <3>6, <3>7, <3>8 DEF Sourced
  <2>2. CASE /\ made' = made
             /\ rows' = rows \/ rows' = [rows EXCEPT ![run[h].draft][NextKey(h)] = "FAILED"]
    <3>1. \A x \in Drafts, y \in Keys : rows'[x][y] \in Plans => rows[x][y] \in Plans
      BY <2>2, NoPlanAssumption DEF Inv, Tables
    <3>2. \A x \in Drafts : \A y \in Created(x)' : \E j \in made'[x] : KeyOf(j) = y
      BY <2>2, <3>1 DEF Inv4, Sourced, Created
    <3> QED BY <1>2, <1>3, <2>2, <3>2 DEF Inv4, Sourced
  <2> QED BY <2>1, <2>2, HandlerMakes
<1> QED BY <1>4, <1>5, <1>6 DEF Inv4

-----------------------------------------------------------------------------
(* The theorems.                                                           *)

\* Nothing is carried out yet.
LEMMA InitInv2 == Init => Inv2
<1> SUFFICES ASSUME Init PROVE Inv2
  OBVIOUS
<1>1. losses = 0 /\ \A d \in Drafts, k \in Keys : remote[d][k] = 0
  BY DEF Init
<1> QED BY <1>1 DEF Inv2, Unmade, OnlyLossesDuplicate

\* Every step keeps the invariants.
LEMMA NextInv == Inv /\ Inv2 /\ Inv3 /\ Inv4 /\ [Next]_vars => Inv' /\ Inv2' /\ Inv3' /\ Inv4'
<1> SUFFICES ASSUME Inv, Inv2, Inv3, Inv4, [Next]_vars
             PROVE  Inv' /\ Inv2' /\ Inv3' /\ Inv4'
  OBVIOUS
<1>1. CASE \E d \in Drafts : DraftStep(d)
  BY <1>1, DraftWrites, WritesInv, WritesInv2, WritesInv3, WritesInv4
<1>2. CASE \E h \in Handlers, d \in Drafts, p \in Plans :
             \/ Approve(h, d, p)
             \/ \E ms \in (SUBSET Modules) \ {{}} : ApproveRevision(h, d, p, ms)
  <2>1. PICK h \in Handlers, d \in Drafts, p \in Plans :
               \/ Approve(h, d, p)
               \/ \E ms \in (SUBSET Modules) \ {{}} : ApproveRevision(h, d, p, ms)
    BY <1>2
  <2>2. Takes(h, d)
    BY <2>1, ApprovalTakes DEF Inv3
  <2> QED BY <2>2, TakesInv, TakesInv2, TakesInv3, TakesInv4
<1>3. CASE \E h \in Handlers : HandlerStep(h)
  BY <1>3, HandlerInv, HandlerInv2, HandlerInv3, HandlerInv4
<1>4. CASE \E h \in Handlers : CheckEnds(h) \/ \E d \in Drafts : Check(h, d)
  BY <1>4, ChecksLook, LooksInv, LooksInv2, LooksInv3, OtherInv4
<1>5. CASE Restart
  BY <1>5, RestartInv, RestartInv3, OtherInv4
<1>6. CASE UNCHANGED vars
  <2>1. Inv'
    BY <1>6 DEF vars, draftVars, Inv, Tables, OneWriter, Early, Agreed, DeliveredIsReviewed,
       Created, Distributing, IsDone, Next1, Todo
  <2>2. Inv2'
    BY <1>6 DEF vars, draftVars, Inv2, Unmade, OnlyLossesDuplicate, Live, Answers, Distributing,
       At, NextKey, Next1, Todo
  <2>3. Inv3'
    BY <1>6 DEF vars, draftVars, Inv3, Typed, Asking, Accounted, Covered, Complete, Distributing,
       IsDone, Created, Todo
  <2>4. Inv4'
    BY <1>6 DEF vars, draftVars, Inv4, Revised, Approved, Approves, Sourced, AllItems, Created,
       Distributing, Todo
  <2> QED BY <2>1, <2>2, <2>3, <2>4
<1>7. \/ UNCHANGED vars \/ Restart
      \/ \E d \in Drafts : DraftStep(d)
      \/ \E h \in Handlers, d \in Drafts, p \in Plans :
           \/ Approve(h, d, p)
           \/ \E ms \in (SUBSET Modules) \ {{}} : ApproveRevision(h, d, p, ms)
      \/ \E h \in Handlers : HandlerStep(h)
      \/ \E h \in Handlers : CheckEnds(h) \/ \E d \in Drafts : Check(h, d)
  <2>1. CASE OperatorNext
    BY <2>1, Zenon DEF OperatorNext, DraftStep
  <2>2. CASE \E d \in Drafts : GenerationNext(d)
    BY <2>2, Zenon DEF DraftStep
  <2>3. CASE \E h \in Handlers : HandlerNext(h)
    BY <2>3, Zenon DEF HandlerNext, HandlerStep
  <2> QED BY <2>1, <2>2, <2>3, Zenon DEF Next
<1> QED BY <1>1, <1>2, <1>3, <1>4, <1>5, <1>6, <1>7, Zenon

\* The invariants, of every state that is reached.
LEMMA InvHolds == Spec => [](Inv /\ Inv2 /\ Inv3 /\ Inv4)
BY InitInv, InitInv2, InitInv3, InitInv4, NextInv, PTL DEF Spec

\* A draft has one writer: the status that is written before the first await of
\* approve keeps every other approval, edit and generation away from it.
THEOREM DraftHasOneWriter == Spec => []OneWriter
<1>1. Inv /\ Inv2 /\ Inv3 /\ Inv4 => OneWriter
  BY DEF Inv
<1> QED BY <1>1, InvHolds, PTL

\* Whatever was created in a module is of the plan whose hash was approved.
THEOREM DeliveryIsReviewed == Spec => []DeliveredIsReviewed
<1>1. Inv /\ Inv2 /\ Inv3 /\ Inv4 => DeliveredIsReviewed
  BY DEF Inv
<1> QED BY <1>1, InvHolds, PTL

\* An item is carried out once, and once more for each answer that was lost.
THEOREM LossesAloneDuplicate == Spec => []OnlyLossesDuplicate
<1>1. Inv /\ Inv2 /\ Inv3 /\ Inv4 => OnlyLossesDuplicate
  BY DEF Inv2
<1> QED BY <1>1, InvHolds, PTL

\* Tables and frames keep their types.
THEOREM DraftTypeCorrect == Spec => []DraftTypeOK
<1>1. Inv /\ Inv2 /\ Inv3 /\ Inv4 => DraftTypeOK
  BY DEF Inv, Tables, Inv3, Typed, DraftTypeOK
<1> QED BY <1>1, InvHolds, PTL

\* An APPROVED draft has a CREATED row for every item its last approval asked for,
\* however many distributions it took, made of that item or, where it updates a
\* record, of an item of the approval with the same title: what a distribution leaves
\* out is of a module that failed, and then the status is PARTIAL.
THEOREM ApprovalIsComplete == Spec => []ApprovedIsComplete
<1>1. Inv /\ Inv2 /\ Inv3 /\ Inv4 => ApprovedIsComplete
  <2> SUFFICES ASSUME Inv, Inv3, Inv4, NEW d \in Drafts, status[d] = "APPROVED"
               PROVE  /\ \A i \in {x \in reviewed[d].items : ~Lookup(x)} :
                           /\ IsDone(d, i)
                           /\ \E j \in made[d] \cap reviewed[d].items : KeyOf(j) = KeyOf(i)
                           /\ i.kind # "update" => i \in made[d]
                      /\ parent[d] = None => reviewed[d].items = BaseItems(plan[d])
    BY DEF ApprovedIsComplete
  <2>1. /\ reviewed[d].items \subseteq Items /\ made[d] \subseteq Items
        /\ parent[d] = None => reviewed[d].items = BaseItems(plan[d])
    BY DEF Inv3, Asking, Typed
  <2>2. Approves(d, reviewed[d].items) /\ made[d] \subseteq AllItems(d)
    BY DEF Inv4, Approved, Sourced, Settled
  <2>3. ASSUME NEW i \in reviewed[d].items, ~Lookup(i)
        PROVE  /\ IsDone(d, i)
               /\ \E j \in made[d] \cap reviewed[d].items : KeyOf(j) = KeyOf(i)
               /\ i.kind # "update" => i \in made[d]
    <3>1. IsDone(d, i)
      BY <2>3 DEF Inv3, Complete
    <3>2. KeyOf(i) \in Created(d)
      BY <2>1, <3>1, ItemFields DEF IsDone, Created
    <3>3. PICK j \in made[d] : KeyOf(j) = KeyOf(i)
      BY <3>2 DEF Inv4, Sourced
    <3>4. i.module = j.module /\ i.kind = j.kind /\ (i.kind # "update" => i = j)
      BY <2>1, <3>3, KeyIsOwn
    <3>5. CASE i.kind # "update"
      BY <2>3, <3>1, <3>3, <3>4, <3>5
    <3>6. CASE i.kind = "update"
      <4>1. i \notin BaseItems(plan[d]) /\ j \notin BaseItems(plan[d])
        BY <3>4, <3>6 DEF BaseItems
      <4>2. parent[d] # None /\ \E ms \in SUBSET Modules :
              reviewed[d].items = RevisionItems(plan[d], plan[parent[d]], ms)
        BY <2>2, <2>3, <4>1 DEF Approves
      <4>3. PICK ms \in SUBSET Modules :
              reviewed[d].items = RevisionItems(plan[d], plan[parent[d]], ms)
        BY <4>2
      <4>4. j \in RevisionItems(plan[d], plan[parent[d]], Modules)
        BY <2>2, <4>1, <4>2 DEF AllItems
      <4>5. i.module \in ms
        BY <2>3, <4>3 DEF RevisionItems
      <4>6. j \in reviewed[d].items
        BY <3>4, <4>3, <4>4, <4>5 DEF RevisionItems
      <4> QED BY <3>1, <3>3, <3>6, <4>6
    <3> QED BY <3>5, <3>6
  <2> QED BY <2>1, <2>3
<1> QED BY <1>1, InvHolds, PTL
=============================================================================
