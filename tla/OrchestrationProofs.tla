------------------------ MODULE OrchestrationProofs ------------------------
(***************************************************************************)
(* Proofs about orchestrations, for any number of keys, modules, stages,   *)
(* requests in flight, unusable answers and restarts.                      *)
(***************************************************************************)
EXTENDS Orchestration, SequenceTheorems, TLAPS

-----------------------------------------------------------------------------
(* The inductive invariant.                                                *)

\* Where a handler is about to call a module, or has called it.
Calling == {"ready", "made", "lost"}

Tables ==
  /\ DOMAIN run = Handlers
  /\ DOMAIN remote = Keys
  /\ \A k \in Keys : DOMAIN remote[k] = Modules

\* A row that is not settled has stages to go.
Rows ==
  \A k \in Keys, m \in Modules :
    row[k][m].status # "CREATED" => row[k][m].done < Stages[m]

\* What a handler carries as done was carried out; it finishes a module only on a
\* record with an identifier.
FrameReal(h) ==
  run[h].at \in Calling =>
    /\ run[h].todo # <<>>
    /\ run[h].done < Stages[Module(h)]
    /\ \A s \in 1 .. run[h].done : remote[KeyOf(h)][Module(h)][s] > 0
    /\ run[h].at = "made" =>
         /\ remote[KeyOf(h)][Module(h)][run[h].done + 1] > 0
         /\ LastStage(h) => ~run[h].blank
FramesReal == \A h \in Handlers : run[h] # None => FrameReal(h)

\* A key no two requests were in flight for has one handler, which is in step with
\* the rows.
Alone ==
  \A g, h \in Handlers :
    run[g] # None /\ run[h] # None /\ KeyOf(g) = KeyOf(h) /\ KeyOf(h) \notin raced => g = h
InStep ==
  \A h \in Handlers :
    run[h] # None /\ KeyOf(h) \notin raced /\ run[h].at \in Calling =>
      MyRow(h).status # "CREATED" /\ MyRow(h).done = run[h].done

\* The stages that a row, or the handler in flight, knows of.
KnownByFrame(k, m, s) ==
  \E h \in Handlers : At(h, "made") /\ KeyOf(h) = k /\ Module(h) = m /\ s = run[h].done + 1
Known(k, m, s) == s <= row[k][m].done \/ KnownByFrame(k, m, s)
Counted ==
  \A k \in Keys \ raced, m \in Modules : \A s \in 1 .. Stages[m] :
    ~Known(k, m, s) => remote[k][m][s] <= losses + restarts

Inv ==
  /\ OrchestrationTypeOK
  /\ Tables
  /\ Rows
  /\ RowsAreReal
  /\ FramesReal
  /\ Alone
  /\ InStep
  /\ Counted
  /\ RetriesContinue

-----------------------------------------------------------------------------
(* Tables and frames.                                                      *)

\* One row is written.
LEMMA RowWritten ==
  ASSUME NEW k \in Keys, NEW m \in Modules, NEW r \in Row, row \in [Keys -> [Modules -> Row]],
         row' = [row EXCEPT ![k][m] = r]
  PROVE  /\ row' \in [Keys -> [Modules -> Row]]
         /\ row'[k][m] = r
         /\ \A x \in Keys, y \in Modules : x # k \/ y # m => row'[x][y] = row[x][y]
<1> DEFINE inner == [row[k] EXCEPT ![m] = r]
<1>1. /\ inner \in [Modules -> Row] /\ inner[m] = r
      /\ \A y \in Modules \ {m} : inner[y] = row[k][y]
  OBVIOUS
<1>2. row' = [row EXCEPT ![k] = inner]
  OBVIOUS
<1> HIDE DEF inner
<1> QED BY <1>1, <1>2

\* One stage of one module is carried out once more.
OneMore(k, m, s) ==
  /\ DOMAIN remote' = Keys /\ \A x \in Keys : DOMAIN remote'[x] = Modules
  /\ \A x \in Keys, y \in Modules : remote'[x][y] \in [1 .. Stages[y] -> Nat]
  /\ remote'[k][m][s] = remote[k][m][s] + 1
  /\ \A x \in Keys, y \in Modules : \A z \in 1 .. Stages[y] :
       x # k \/ y # m \/ z # s => remote'[x][y][z] = remote[x][y][z]

\* That is what the increment of its counter does.
LEMMA StageCarriedOut ==
  ASSUME Tables, OrchestrationTypeOK, NEW k \in Keys, NEW m \in Modules, NEW s \in 1 .. Stages[m],
         remote' = [remote EXCEPT ![k][m][s] = remote[k][m][s] + 1]
  PROVE  OneMore(k, m, s)
<1> DEFINE stages == [remote[k][m] EXCEPT ![s] = @ + 1]
           inner == [remote[k] EXCEPT ![m] = stages]
<1>1. remote[k][m] \in [1 .. Stages[m] -> Nat] /\ DOMAIN remote[k] = Modules /\ DOMAIN remote = Keys
  BY DEF OrchestrationTypeOK, Tables
<1>2. /\ stages \in [1 .. Stages[m] -> Nat] /\ stages[s] = remote[k][m][s] + 1
      /\ \A z \in 1 .. Stages[m] : z # s => stages[z] = remote[k][m][z]
  BY <1>1
<1>3. remote' = [remote EXCEPT ![k] = inner]
  BY <1>1
<1> HIDE DEF stages
<1>4. /\ DOMAIN inner = Modules /\ inner[m] = stages
      /\ \A y \in Modules \ {m} : inner[y] = remote[k][y]
  BY <1>1
<1> HIDE DEF inner
<1>5. /\ DOMAIN remote' = Keys /\ remote'[k] = inner
      /\ \A x \in Keys \ {k} : remote'[x] = remote[x]
  BY <1>1, <1>3
<1>6. ASSUME NEW x \in Keys, NEW y \in Modules
      PROVE  remote'[x][y] = IF x = k /\ y = m THEN stages ELSE remote[x][y]
  BY <1>4, <1>5
<1>7. \A x \in Keys : DOMAIN remote'[x] = Modules
  BY <1>4, <1>5 DEF Tables
<1>8. \A x \in Keys, y \in Modules : remote'[x][y] \in [1 .. Stages[y] -> Nat]
  BY <1>2, <1>6 DEF OrchestrationTypeOK
<1>9. ASSUME NEW x \in Keys, NEW y \in Modules, NEW z \in 1 .. Stages[y],
             x # k \/ y # m \/ z # s
      PROVE  remote'[x][y][z] = remote[x][y][z]
  <2>1. CASE x = k /\ y = m
    BY <1>2, <1>6, <1>9, <2>1
  <2>2. CASE x # k \/ y # m
    BY <1>6, <2>2
  <2> QED BY <2>1, <2>2
<1>10. remote'[k][m][s] = remote[k][m][s] + 1
  BY <1>2, <1>6
<1> QED BY <1>5, <1>7, <1>8, <1>9, <1>10 DEF OneMore

\* A frame is a record of five fields,
Fr(k, t, n, b, a) == [key |-> k, todo |-> t, done |-> n, blank |-> b, at |-> a]

LEMMA FrameFields ==
  ASSUME NEW f \in Frame
  PROVE  /\ f = Fr(f.key, f.todo, f.done, f.blank, f.at)
         /\ f.key \in Keys /\ f.todo \in Seq(Modules) /\ f.done \in Nat /\ f.blank \in BOOLEAN
         /\ f.at \in {"look"} \cup Calling
BY DEF Frame, Calling, Fr

LEMMA FrameTyped ==
  ASSUME NEW k \in Keys, NEW t \in Seq(Modules), NEW n \in Nat, NEW b \in BOOLEAN,
         NEW a \in {"look"} \cup Calling
  PROVE  /\ Fr(k, t, n, b, a) \in Frame
         /\ Fr(k, t, n, b, a).key = k /\ Fr(k, t, n, b, a).todo = t /\ Fr(k, t, n, b, a).done = n
         /\ Fr(k, t, n, b, a).blank = b /\ Fr(k, t, n, b, a).at = a
BY DEF Frame, Calling, Fr

\* and each of the changes a handler makes leaves the other fields alone.
ChangesOf(f, a, t, n, b) ==
  /\ [f EXCEPT !.at = a] = Fr(f.key, f.todo, f.done, f.blank, a)
  /\ [f EXCEPT !.todo = t] = Fr(f.key, t, f.done, f.blank, f.at)
  /\ [f EXCEPT !.at = a, !.todo = t] = Fr(f.key, t, f.done, f.blank, a)
  /\ [f EXCEPT !.at = a, !.done = n] = Fr(f.key, f.todo, n, f.blank, a)
  /\ [f EXCEPT !.at = a, !.blank = b] = Fr(f.key, f.todo, f.done, b, a)
  /\ [f EXCEPT !.at = a, !.done = n, !.blank = b] = Fr(f.key, f.todo, n, b, a)

\* It does so for every frame.
LEMMA FrameChanges ==
  ASSUME NEW f \in Frame, NEW a, NEW t, NEW n, NEW b
  PROVE  ChangesOf(f, a, t, n, b)
<1> PICK k, u, m, c, l : f = Fr(f.key, f.todo, f.done, f.blank, f.at) /\ k = f.key /\ u = f.todo
                         /\ m = f.done /\ c = f.blank /\ l = f.at
  BY FrameFields
<1>1. [Fr(k, u, m, c, l) EXCEPT !.at = a] = Fr(k, u, m, c, a)
  BY DEF Fr
<1>2. [Fr(k, u, m, c, l) EXCEPT !.todo = t] = Fr(k, t, m, c, l)
  BY DEF Fr
<1>3. [Fr(k, u, m, c, a) EXCEPT !.todo = t] = Fr(k, t, m, c, a)
  BY DEF Fr
<1>4. [Fr(k, u, m, c, a) EXCEPT !.done = n] = Fr(k, u, n, c, a)
  BY DEF Fr
<1>5. [Fr(k, u, m, c, a) EXCEPT !.blank = b] = Fr(k, u, m, b, a)
  BY DEF Fr
<1>6. [Fr(k, u, n, c, a) EXCEPT !.blank = b] = Fr(k, u, n, b, a)
  BY DEF Fr
<1>7. /\ [f EXCEPT !.at = a, !.todo = t] = [[f EXCEPT !.at = a] EXCEPT !.todo = t]
      /\ [f EXCEPT !.at = a, !.done = n] = [[f EXCEPT !.at = a] EXCEPT !.done = n]
      /\ [f EXCEPT !.at = a, !.blank = b] = [[f EXCEPT !.at = a] EXCEPT !.blank = b]
      /\ [f EXCEPT !.at = a, !.done = n, !.blank = b] =
           [[[f EXCEPT !.at = a] EXCEPT !.done = n] EXCEPT !.blank = b]
  OBVIOUS
<1>8. f = Fr(k, u, m, c, l)
  OBVIOUS
<1>9. [f EXCEPT !.at = a] = Fr(k, u, m, c, a) /\ [f EXCEPT !.todo = t] = Fr(k, t, m, c, l)
  BY <1>1, <1>2, <1>8, Zenon
<1>10. /\ [f EXCEPT !.at = a, !.todo = t] = Fr(k, t, m, c, a)
       /\ [f EXCEPT !.at = a, !.done = n] = Fr(k, u, n, c, a)
       /\ [f EXCEPT !.at = a, !.blank = b] = Fr(k, u, m, b, a)
  BY <1>3, <1>4, <1>5, <1>7, <1>9, Zenon
<1>11. [f EXCEPT !.at = a, !.done = n, !.blank = b] = Fr(k, u, n, b, a)
  BY <1>4, <1>6, <1>7, <1>9, Zenon
<1> QED BY <1>9, <1>10, <1>11, Zenon DEF ChangesOf

\* What a handler in flight carries.
LEMMA InFlight ==
  ASSUME Inv, NEW h \in Handlers, run[h] # None
  PROVE  /\ run[h] \in Frame
         /\ KeyOf(h) \in Keys /\ run[h].todo \in Seq(Modules) /\ run[h].done \in Nat
         /\ run[h].blank \in BOOLEAN /\ run[h].at \in {"look"} \cup Calling
         /\ run[h].todo # <<>> => /\ Module(h) \in Modules /\ Tail(run[h].todo) \in Seq(Modules)
                                  /\ MyRow(h) \in Row /\ MyRow(h).done <= Stages[Module(h)]
                                  /\ Stages[Module(h)] \in Nat \ {0}
<1>1. run[h] \in Frame
  BY DEF Inv, OrchestrationTypeOK, Frame, Calling
<1>2. /\ KeyOf(h) \in Keys /\ run[h].todo \in Seq(Modules) /\ run[h].done \in Nat
      /\ run[h].blank \in BOOLEAN /\ run[h].at \in {"look"} \cup Calling
  BY <1>1, FrameFields DEF KeyOf
<1>3. ASSUME run[h].todo # <<>>
      PROVE  /\ Module(h) \in Modules /\ Tail(run[h].todo) \in Seq(Modules)
             /\ MyRow(h) \in Row /\ MyRow(h).done <= Stages[Module(h)]
             /\ Stages[Module(h)] \in Nat \ {0}
  <2>1. Module(h) \in Modules /\ Tail(run[h].todo) \in Seq(Modules)
    BY <1>2, <1>3, HeadTailProperties DEF Module
  <2> QED BY <1>2, <2>1, StagesAssumption DEF MyRow, Inv, OrchestrationTypeOK
<1> QED BY <1>1, <1>2, <1>3

\* What a handler that calls a module knows.
LEMMA AtModule ==
  ASSUME Inv, NEW h \in Handlers, run[h] # None, run[h].at \in Calling
  PROVE  /\ KeyOf(h) \in Keys /\ Module(h) \in Modules
         /\ run[h].done \in Nat /\ run[h].done < Stages[Module(h)]
         /\ Stages[Module(h)] \in Nat /\ run[h].done + 1 \in 1 .. Stages[Module(h)]
         /\ FrameReal(h)
         /\ KeyOf(h) \notin raced => MyRow(h).status # "CREATED" /\ MyRow(h).done = run[h].done
<1>1. FrameReal(h)
  BY DEF Inv, FramesReal
<1>2. run[h].todo # <<>> /\ run[h].done < Stages[Module(h)]
  BY <1>1 DEF FrameReal
<1>3. Module(h) \in Modules /\ Stages[Module(h)] \in Nat /\ run[h].done \in Nat /\ KeyOf(h) \in Keys
  BY <1>2, InFlight
<1> QED BY <1>1, <1>2, <1>3 DEF Inv, InStep

-----------------------------------------------------------------------------
(* What a step of one handler leaves alone.                                *)

\* Handler h goes on with g, or ends.
Turns(h, g) ==
  /\ run[h] # None
  /\ run' = [run EXCEPT ![h] = g]
  /\ g # None => g \in Frame /\ g.key = KeyOf(h)
  /\ UNCHANGED <<known, raced, requests, restarts>>

LEMMA TurnsFrames ==
  ASSUME Inv, NEW h \in Handlers, NEW g, Turns(h, g)
  PROVE  /\ DOMAIN run' = Handlers /\ run'[h] = g
         /\ \A x \in Handlers \ {h} : run'[x] = run[x]
         /\ \A x \in Handlers : run'[x] # None =>
              run'[x] \in Frame /\ run[x] # None /\ run'[x].key = run[x].key
         /\ Alone'
<1>1. /\ DOMAIN run' = Handlers /\ run'[h] = g
      /\ \A x \in Handlers \ {h} : run'[x] = run[x]
  BY DEF Turns, Inv, Tables
<1>2. ASSUME NEW x \in Handlers, run'[x] # None
      PROVE  run'[x] \in Frame /\ run[x] # None /\ run'[x].key = run[x].key
  BY <1>1, <1>2, InFlight DEF Turns, KeyOf
<1>3. Alone'
  BY <1>2 DEF Inv, Alone, KeyOf, Turns
<1> QED BY <1>1, <1>2, <1>3

\* The type invariant after such a step.
LEMMA TurnsTyped ==
  ASSUME Inv, NEW h \in Handlers, NEW g, Turns(h, g),
         row' \in [Keys -> [Modules -> Row]],
         \A k \in Keys, m \in Modules : row'[k][m].done <= Stages[m],
         DOMAIN remote' = Keys, \A k \in Keys : DOMAIN remote'[k] = Modules,
         \A k \in Keys, m \in Modules : remote'[k][m] \in [1 .. Stages[m] -> Nat],
         losses' \in 0 .. MaxLosses
  PROVE  OrchestrationTypeOK' /\ Tables'
<1>1. \A x \in Handlers : run'[x] # None =>
        run'[x] \in Frame
  BY TurnsFrames
<1>2. DOMAIN run' = Handlers
  BY TurnsFrames
<1> QED BY <1>1, <1>2 DEF Inv, OrchestrationTypeOK, Tables, Turns

\* What was carried out stays so: the other handlers still tell the truth.
LEMMA OthersReal ==
  ASSUME Inv, NEW h \in Handlers, NEW x \in Handlers, run'[x] = run[x], run[x] # None,
         \A k \in Keys, m \in Modules : \A s \in 1 .. Stages[m] :
           remote[k][m][s] > 0 => remote'[k][m][s] > 0
  PROVE  FrameReal(x)'
<1>1. CASE run[x].at \in Calling
  <2>1. /\ KeyOf(x) \in Keys /\ Module(x) \in Modules /\ FrameReal(x)
        /\ run[x].done \in Nat /\ run[x].done + 1 \in 1 .. Stages[Module(x)]
        /\ Stages[Module(x)] \in Nat
    BY <1>1, AtModule
  <2>2. \A s \in 1 .. run[x].done : s \in 1 .. Stages[Module(x)]
    BY <2>1
  <2> QED BY <1>1, <2>1, <2>2 DEF FrameReal, KeyOf, Module, LastStage
<1>2. CASE run[x].at \notin Calling
  BY <1>2 DEF FrameReal
<1> QED BY <1>1, <1>2

\* Rows of other keys are not written: the other handlers stay in step.
LEMMA OthersInStep ==
  ASSUME Inv, NEW h \in Handlers, NEW g, Turns(h, g),
         \A k \in Keys \ {KeyOf(h)}, m \in Modules : row'[k][m] = row[k][m],
         NEW x \in Handlers \ {h}, run'[x] # None, KeyOf(x)' \notin raced', run'[x].at \in Calling
  PROVE  (MyRow(x).status # "CREATED" /\ MyRow(x).done = run[x].done)'
<1>1. run'[x] = run[x] /\ raced' = raced /\ run[h] # None
  BY TurnsFrames DEF Turns
<1>2. KeyOf(x) \in Keys \ {KeyOf(h)} /\ Module(x) \in Modules
  BY <1>1, AtModule DEF Inv, Alone, KeyOf
<1>3. MyRow(x).status # "CREATED" /\ MyRow(x).done = run[x].done
  BY <1>1, AtModule DEF KeyOf
<1> QED BY <1>1, <1>2, <1>3 DEF MyRow, KeyOf, Module

\* The counters are numbers.
LEMMA Numbers ==
  ASSUME OrchestrationTypeOK
  PROVE  /\ losses \in Nat /\ restarts \in Nat
         /\ \A k \in Keys, m \in Modules : \A s \in 1 .. Stages[m] : remote[k][m][s] \in Nat
<1>1. losses \in Nat /\ restarts \in Nat
  BY BoundsAssumption DEF OrchestrationTypeOK
<1>2. \A k \in Keys, m \in Modules : remote[k][m] \in [1 .. Stages[m] -> Nat]
  BY DEF OrchestrationTypeOK
<1>3. \A k \in Keys, m \in Modules : \A s \in 1 .. Stages[m] : remote[k][m][s] \in Nat
  BY <1>2
<1> QED BY <1>1, <1>3

\* What is counted for other keys stays so.
LEMMA OthersCounted ==
  ASSUME Inv, NEW h \in Handlers, NEW g, Turns(h, g),
         NEW k \in Keys \ raced, k # KeyOf(h), NEW m \in Modules, NEW s \in 1 .. Stages[m],
         row'[k][m] = row[k][m], remote'[k][m][s] = remote[k][m][s],
         losses' \in Nat, losses <= losses', ~Known(k, m, s)'
  PROVE  remote'[k][m][s] <= losses' + restarts'
<1>1. ~KnownByFrame(k, m, s)
  <2>1. ASSUME NEW x \in Handlers, At(x, "made"), KeyOf(x) = k
        PROVE  run'[x] = run[x]
    BY <2>1, TurnsFrames
  <2> QED BY <2>1 DEF Known, KnownByFrame, At, KeyOf, Module
<1>2. remote[k][m][s] <= losses + restarts
  BY <1>1 DEF Known, Inv, Counted
<1>3. /\ remote[k][m][s] \in Nat /\ losses \in Nat /\ restarts \in Nat
      /\ restarts' = restarts
  BY Numbers DEF Inv, Turns
<1> QED BY <1>2, <1>3

\* Of its own key, if nobody races it, a handler is the one that knows.
LEMMA OwnKnown ==
  ASSUME Inv, NEW h \in Handlers, run[h] # None, KeyOf(h) \notin raced, NEW m, NEW s,
         ~(s <= row[KeyOf(h)][m].done),
         ~(run[h].at = "made" /\ Module(h) = m /\ s = run[h].done + 1)
  PROVE  ~Known(KeyOf(h), m, s)
<1>1. ~KnownByFrame(KeyOf(h), m, s)
  BY DEF KnownByFrame, At, Inv, Alone
<1> QED BY <1>1 DEF Known

-----------------------------------------------------------------------------
(* The steps of a handler, by what they change.                            *)

\* What handler h must be able to say of itself after the step.
Sound(h) ==
  run[h] # None =>
    /\ FrameReal(h)
    /\ run[h].at \in Calling /\ KeyOf(h) \notin raced =>
         MyRow(h).status # "CREATED" /\ MyRow(h).done = run[h].done

\* A step that neither calls a module nor writes a row.
LEMMA QuietTurn ==
  ASSUME Inv, NEW h \in Handlers, NEW g, Turns(h, g), UNCHANGED <<row, remote, losses>>,
         run[h].at # "made", Sound(h)'
  PROVE  Inv'
<1>1. OrchestrationTypeOK' /\ Tables'
  BY TurnsTyped DEF Inv, OrchestrationTypeOK, Tables
<1>2. Rows' /\ RowsAreReal' /\ RetriesContinue'
  BY DEF Inv, Rows, RowsAreReal, RetriesContinue, Turns
<1>3. FramesReal'
  <2> SUFFICES ASSUME NEW x \in Handlers, run'[x] # None
               PROVE  FrameReal(x)'
    BY DEF FramesReal
  <2>1. CASE x = h
    BY <2>1 DEF Sound
  <2>2. CASE x # h
    BY <2>2, TurnsFrames, OthersReal
  <2> QED BY <2>1, <2>2
<1>4. Alone'
  BY TurnsFrames
<1>5. InStep'
  <2> SUFFICES ASSUME NEW x \in Handlers, run'[x] # None, KeyOf(x)' \notin raced', run'[x].at \in Calling
               PROVE  (MyRow(x).status # "CREATED" /\ MyRow(x).done = run[x].done)'
    BY DEF InStep
  <2>1. CASE x = h
    BY <2>1 DEF Sound
  <2>2. CASE x # h
    BY <2>2, OthersInStep
  <2> QED BY <2>1, <2>2
<1>6. Counted'
  <2> SUFFICES ASSUME NEW k \in Keys \ raced, NEW m \in Modules, NEW s \in 1 .. Stages[m],
                      ~Known(k, m, s)'
               PROVE  remote'[k][m][s] <= losses' + restarts'
    BY DEF Counted, Turns
  <2>1. CASE k # KeyOf(h)
    <3>1. losses' \in Nat /\ losses <= losses'
      BY DEF Inv, OrchestrationTypeOK
    <3> QED BY <2>1, <3>1, OthersCounted
  <2>2. CASE k = KeyOf(h)
    <3>1. ~(s <= row[k][m].done)
      BY DEF Known
    <3>2. ~Known(k, m, s)
      BY <2>2, <3>1, OwnKnown DEF Turns
    <3> QED BY <3>2 DEF Inv, Counted, Turns
  <2> QED BY <2>1, <2>2
<1> QED BY <1>1, <1>2, <1>3, <1>4, <1>5, <1>6 DEF Inv

\* A step that calls a module: whatever h hears of it, only a lost answer makes
\* the stage one that nobody knows of.
LEMMA ActingTurn ==
  ASSUME Inv, NEW h \in Handlers, NEW g, Turns(h, g), At(h, "ready"), Act(h), row' = row,
         losses' \in 0 .. MaxLosses, losses <= losses',
         \/ losses' = losses + 1
         \/ g # None /\ g.at = "made" /\ g.todo = run[h].todo /\ g.done = run[h].done,
         Sound(h)'
  PROVE  Inv'
<1> DEFINE k0 == KeyOf(h)
           m0 == Module(h)
           s0 == run[h].done + 1
<1>1. /\ k0 \in Keys /\ m0 \in Modules /\ s0 \in 1 .. Stages[m0]
      /\ run[h].done \in Nat /\ run[h].done < Stages[m0]
      /\ k0 \notin raced => row[k0][m0].done = run[h].done
  BY AtModule DEF Turns, At, Calling, MyRow
<1>2. /\ losses \in Nat /\ losses' \in Nat /\ restarts \in Nat /\ restarts' = restarts
      /\ raced' = raced
  BY Numbers, BoundsAssumption DEF Turns, Inv
<1>3. /\ DOMAIN remote' = Keys /\ \A x \in Keys : DOMAIN remote'[x] = Modules
      /\ \A x \in Keys, y \in Modules : remote'[x][y] \in [1 .. Stages[y] -> Nat]
      /\ remote'[k0][m0][s0] = remote[k0][m0][s0] + 1
      /\ \A x \in Keys, y \in Modules : \A z \in 1 .. Stages[y] :
           x # k0 \/ y # m0 \/ z # s0 => remote'[x][y][z] = remote[x][y][z]
  <2>1. remote' = [remote EXCEPT ![k0][m0][s0] = remote[k0][m0][s0] + 1]
    BY DEF Act
  <2> HIDE DEF k0, m0, s0
  <2>2. Tables /\ OrchestrationTypeOK
    BY DEF Inv
  <2>3. k0 \in Keys /\ m0 \in Modules /\ s0 \in 1 .. Stages[m0]
    BY <1>1
  <2>4. OneMore(k0, m0, s0)
    BY <2>1, <2>2, <2>3, StageCarriedOut, Zenon
  <2> QED BY <2>4 DEF OneMore
<1>4. \A x \in Keys, y \in Modules : \A z \in 1 .. Stages[y] :
        remote[x][y][z] \in Nat /\ remote'[x][y][z] \in Nat
  <2>1. \A x \in Keys, y \in Modules : \A z \in 1 .. Stages[y] : remote'[x][y][z] \in Nat
    BY <1>3
  <2> QED BY <2>1, Numbers DEF Inv
<1> HIDE DEF k0, m0, s0
<1>5. \A x \in Keys, y \in Modules : \A z \in 1 .. Stages[y] :
        remote[x][y][z] > 0 => remote'[x][y][z] > 0
  <2> SUFFICES ASSUME NEW x \in Keys, NEW y \in Modules, NEW z \in 1 .. Stages[y], remote[x][y][z] > 0
               PROVE  remote'[x][y][z] > 0
    OBVIOUS
  <2>1. CASE x = k0 /\ y = m0 /\ z = s0
    <3>1. remote[k0][m0][s0] \in Nat /\ remote'[k0][m0][s0] = remote[k0][m0][s0] + 1
      BY <1>1, <1>3, <1>4
    <3>2. remote'[k0][m0][s0] > 0
      BY <3>1
    <3> QED BY <2>1, <3>2
  <2>2. CASE ~(x = k0 /\ y = m0 /\ z = s0)
    BY <1>3, <2>2
  <2> QED BY <2>1, <2>2
<1>6. OrchestrationTypeOK' /\ Tables'
  BY <1>3, TurnsTyped DEF Inv, OrchestrationTypeOK
<1>7. Rows'
  BY DEF Inv, Rows
<1>8. RowsAreReal'
  <2> SUFFICES ASSUME NEW k \in Keys, NEW m \in Modules
               PROVE  /\ \A s \in 1 .. row[k][m].done : remote'[k][m][s] > 0
                      /\ row[k][m].status = "CREATED" =>
                           row[k][m].done = Stages[m] /\ ~row[k][m].blank
    BY DEF RowsAreReal
  <2>1. row[k][m].done \in Nat /\ row[k][m].done <= Stages[m] /\ Stages[m] \in Nat
    BY StagesAssumption DEF Inv, OrchestrationTypeOK, Row
  <2>2. ASSUME NEW s \in 1 .. row[k][m].done
        PROVE  remote'[k][m][s] > 0
    <3>1. s \in 1 .. Stages[m]
      BY <2>1
    <3>2. remote[k][m][s] > 0
      BY DEF Inv, RowsAreReal
    <3> QED BY <1>5, <3>1, <3>2
  <2> QED BY <2>2 DEF Inv, RowsAreReal
<1>9. FramesReal'
  <2> SUFFICES ASSUME NEW x \in Handlers, run'[x] # None
               PROVE  FrameReal(x)'
    BY DEF FramesReal
  <2>1. CASE x = h
    BY <2>1 DEF Sound
  <2>2. CASE x # h
    BY <1>5, <2>2, TurnsFrames, OthersReal
  <2> QED BY <2>1, <2>2
<1>10. Alone'
  BY TurnsFrames
<1>11. InStep'
  <2> SUFFICES ASSUME NEW x \in Handlers, run'[x] # None, KeyOf(x)' \notin raced', run'[x].at \in Calling
               PROVE  (MyRow(x).status # "CREATED" /\ MyRow(x).done = run[x].done)'
    BY DEF InStep
  <2>1. CASE x = h
    BY <2>1 DEF Sound
  <2>2. CASE x # h
    BY <2>2, OthersInStep
  <2> QED BY <2>1, <2>2
<1>12. ASSUME k0 \notin raced
       PROVE  remote[k0][m0][s0] <= losses + restarts
  <2>1. ~(s0 <= row[k0][m0].done)
    BY <1>1, <1>12 DEF s0
  <2>2. ~Known(k0, m0, s0)
    BY <1>12, <2>1, OwnKnown DEF k0, m0, At
  <2> QED BY <1>1, <1>12, <2>2 DEF Inv, Counted
<1>13. Counted'
  <2> SUFFICES ASSUME NEW k \in Keys \ raced, NEW m \in Modules, NEW s \in 1 .. Stages[m],
                      ~Known(k, m, s)'
               PROVE  remote'[k][m][s] <= losses' + restarts'
    BY <1>2 DEF Counted
  <2>1. CASE k # k0
    <3>1. remote'[k][m][s] = remote[k][m][s]
      BY <1>3, <2>1
    <3> QED BY <1>2, <2>1, <3>1, OthersCounted DEF k0
  <2>2. CASE k = k0 /\ (m # m0 \/ s # s0)
    <3>1. ~(s <= row[k][m].done)
      BY DEF Known
    <3>2. ~Known(k, m, s)
      BY <2>2, <3>1, OwnKnown DEF At, k0
    <3>3. remote[k][m][s] <= losses + restarts
      BY <3>2 DEF Inv, Counted
    <3>4. remote'[k][m][s] = remote[k][m][s]
      BY <1>3, <2>2
    <3> QED BY <1>2, <1>4, <3>3, <3>4
  <2>3. CASE k = k0 /\ m = m0 /\ s = s0
    <3>1. losses' = losses + 1
      <4>1. ~(run'[h] # None /\ run'[h].at = "made" /\ KeyOf(h)' = k0 /\ Module(h)' = m0 /\ s0 = run'[h].done + 1)
        BY <2>3 DEF Known, KnownByFrame, At
      <4>2. SUFFICES ASSUME g # None, g.at = "made", g.todo = run[h].todo, g.done = run[h].done
                     PROVE  FALSE
        OBVIOUS
      <4>3. run'[h] = g /\ g.key = k0
        BY <4>2, TurnsFrames DEF Turns, k0
      <4> QED BY <4>1, <4>2, <4>3 DEF KeyOf, Module, k0, m0, s0
    <3>2. remote'[k][m][s] = remote[k][m][s] + 1
      BY <1>3, <2>3
    <3>3. remote[k][m][s] <= losses + restarts
      BY <1>12, <2>3
    <3> QED BY <1>2, <1>4, <3>1, <3>2, <3>3
  <2> QED BY <2>1, <2>2, <2>3
<1>14. RetriesContinue'
  <2> SUFFICES ASSUME NEW k \in Keys \ raced, NEW m \in Modules, NEW s \in 1 .. Stages[m]
               PROVE  remote'[k][m][s] <= 1 + losses' + restarts'
    BY <1>2 DEF RetriesContinue
  <2>1. CASE k = k0 /\ m = m0 /\ s = s0
    <3>1. remote'[k][m][s] = remote[k][m][s] + 1
      BY <1>3, <2>1
    <3>2. remote[k][m][s] <= losses + restarts
      BY <1>12, <2>1
    <3> QED BY <1>2, <1>4, <3>1, <3>2
  <2>2. CASE ~(k = k0 /\ m = m0 /\ s = s0)
    <3>1. remote'[k][m][s] = remote[k][m][s]
      BY <1>3, <2>2
    <3>2. remote[k][m][s] <= 1 + losses + restarts
      BY DEF Inv, RetriesContinue
    <3> QED BY <1>2, <1>4, <3>1, <3>2
  <2> QED BY <2>1, <2>2
<1> QED BY <1>6, <1>7, <1>8, <1>9, <1>10, <1>11, <1>13, <1>14 DEF Inv

\* What a handler has to write: the stages it knows of.
Due(h) == IF run[h].at = "made" THEN run[h].done + 1 ELSE run[h].done

\* A step that writes the row of the module.
LEMMA WritingTurn ==
  ASSUME Inv, NEW h \in Handlers, NEW g, Turns(h, g), UNCHANGED <<remote, losses>>,
         run[h].at \in {"made", "lost"}, NEW r \in Row, Write(h, r), r.done = Due(h),
         r.status = "CREATED" => r.done = Stages[Module(h)] /\ ~r.blank,
         r.status # "CREATED" => r.done < Stages[Module(h)],
         Sound(h)'
  PROVE  Inv'
<1> DEFINE k0 == KeyOf(h)
           m0 == Module(h)
           n0 == run[h].done
<1>1. /\ k0 \in Keys /\ m0 \in Modules /\ n0 \in Nat /\ n0 < Stages[m0] /\ Stages[m0] \in Nat
      /\ FrameReal(h) /\ run[h] # None
      /\ k0 \notin raced => row[k0][m0].done = n0
  BY AtModule DEF Turns, Calling, MyRow
<1>2. row' = [row EXCEPT ![k0][m0] = r]
  BY DEF Write
<1>3. /\ r.done \in Nat /\ n0 <= r.done /\ r.done <= n0 + 1
      /\ run[h].at = "made" => r.done = n0 + 1
      /\ r.done <= Stages[m0]
  BY <1>1 DEF Due, Row
<1>4. \A s \in 1 .. r.done : remote[k0][m0][s] > 0
  <2> SUFFICES ASSUME NEW s \in 1 .. r.done
               PROVE  remote[k0][m0][s] > 0
    OBVIOUS
  <2>1. CASE s \in 1 .. n0
    BY <1>1, <2>1 DEF FrameReal, Calling
  <2>2. CASE s \notin 1 .. n0
    <3>1. run[h].at = "made" /\ s = n0 + 1
      BY <1>1, <1>3, <2>2 DEF Due
    <3> QED BY <1>1, <3>1 DEF FrameReal, Calling
  <2> QED BY <2>1, <2>2
<1> HIDE DEF k0, m0, n0
<1>5. /\ row' \in [Keys -> [Modules -> Row]] /\ row'[k0][m0] = r
      /\ \A x \in Keys, y \in Modules : x # k0 \/ y # m0 => row'[x][y] = row[x][y]
  <2>1. row \in [Keys -> [Modules -> Row]]
    BY DEF Inv, OrchestrationTypeOK
  <2>2. k0 \in Keys /\ m0 \in Modules
    BY <1>1
  <2> QED BY <1>2, <2>1, <2>2, RowWritten
<1>6. OrchestrationTypeOK' /\ Tables'
  <2>1. \A k \in Keys, m \in Modules : row'[k][m].done <= Stages[m]
    BY <1>3, <1>5 DEF Inv, OrchestrationTypeOK
  <2> QED BY <1>5, <2>1, TurnsTyped DEF Inv, OrchestrationTypeOK, Tables
<1>7. Rows'
  <2>1. r.status # "CREATED" => r.done < Stages[m0]
    BY DEF m0
  <2> QED BY <1>5, <2>1 DEF Inv, Rows
<1>8. RowsAreReal'
  <2>1. r.status = "CREATED" => r.done = Stages[m0] /\ ~r.blank
    BY DEF m0
  <2> SUFFICES ASSUME NEW k \in Keys, NEW m \in Modules
               PROVE  /\ \A s \in 1 .. row'[k][m].done : remote[k][m][s] > 0
                      /\ row'[k][m].status = "CREATED" =>
                           row'[k][m].done = Stages[m] /\ ~row'[k][m].blank
    BY DEF RowsAreReal
  <2>2. CASE k = k0 /\ m = m0
    BY <1>4, <1>5, <2>1, <2>2
  <2>3. CASE k # k0 \/ m # m0
    BY <1>5, <2>3 DEF Inv, RowsAreReal
  <2> QED BY <2>2, <2>3
<1>9. FramesReal'
  <2> SUFFICES ASSUME NEW x \in Handlers, run'[x] # None
               PROVE  FrameReal(x)'
    BY DEF FramesReal
  <2>1. CASE x = h
    BY <2>1 DEF Sound
  <2>2. CASE x # h
    BY <2>2, TurnsFrames, OthersReal
  <2> QED BY <2>1, <2>2
<1>10. Alone'
  BY TurnsFrames
<1>11. InStep'
  <2> SUFFICES ASSUME NEW x \in Handlers, run'[x] # None, KeyOf(x)' \notin raced', run'[x].at \in Calling
               PROVE  (MyRow(x).status # "CREATED" /\ MyRow(x).done = run[x].done)'
    BY DEF InStep
  <2>1. CASE x = h
    BY <2>1 DEF Sound
  <2>2. CASE x # h
    <3>1. \A k \in Keys \ {KeyOf(h)}, m \in Modules : row'[k][m] = row[k][m]
      BY <1>5 DEF k0
    <3> QED BY <2>2, <3>1, OthersInStep
  <2> QED BY <2>1, <2>2
<1>12. Counted'
  <2> SUFFICES ASSUME NEW k \in Keys \ raced, NEW m \in Modules, NEW s \in 1 .. Stages[m],
                      ~Known(k, m, s)'
               PROVE  remote'[k][m][s] <= losses' + restarts'
    BY DEF Counted, Turns
  <2>1. CASE k # k0
    <3>1. row'[k][m] = row[k][m]
      BY <1>5, <2>1
    <3>2. losses' \in Nat /\ losses <= losses'
      BY Numbers DEF Inv
    <3> QED BY <2>1, <3>1, <3>2, OthersCounted DEF k0
  <2>2. CASE k = k0
    <3>1. ~(s <= row'[k][m].done)
      BY DEF Known
    <3>2. ~(s <= row[k][m].done) /\ ~(run[h].at = "made" /\ m0 = m /\ s = n0 + 1)
      <4>1. CASE m = m0
        <5>1. ~(s <= r.done) /\ row[k][m].done = n0 /\ s \in Int
          BY <1>1, <1>5, <2>2, <3>1, <4>1
        <5> QED BY <1>1, <1>3, <5>1
      <4>2. CASE m # m0
        BY <1>5, <3>1, <4>2
      <4> QED BY <4>1, <4>2
    <3>3. ~Known(k, m, s)
      BY <1>1, <2>2, <3>2, OwnKnown DEF k0, m0, n0
    <3> QED BY <3>3 DEF Inv, Counted, Turns
  <2> QED BY <2>1, <2>2
<1>13. RetriesContinue'
  BY DEF Inv, RetriesContinue, Turns
<1> QED BY <1>6, <1>7, <1>8, <1>9, <1>10, <1>11, <1>12, <1>13 DEF Inv

-----------------------------------------------------------------------------
(* The steps.                                                              *)

\* A frame that is replaced by one of the same key makes a turn.
Becomes(h, t, n, b, a) ==
  /\ run' = [run EXCEPT ![h] = Fr(KeyOf(h), t, n, b, a)]
  /\ UNCHANGED <<known, raced, requests, restarts>>
Turned(h, t, n, b, a) ==
  /\ Turns(h, Fr(KeyOf(h), t, n, b, a))
  /\ run'[h].key = KeyOf(h) /\ run'[h].todo = t /\ run'[h].done = n
  /\ run'[h].blank = b /\ run'[h].at = a

\* It does when the new one is a frame.
LEMMA FrameTurns ==
  ASSUME Inv, NEW h \in Handlers, run[h] # None, NEW t \in Seq(Modules), NEW n \in Nat,
         NEW b \in BOOLEAN, NEW a \in {"look"} \cup Calling,
         Becomes(h, t, n, b, a)
  PROVE  Turned(h, t, n, b, a)
<1>1. KeyOf(h) \in Keys
  BY InFlight
<1> DEFINE g == Fr(KeyOf(h), t, n, b, a)
<1>2. g \in Frame /\ g.key = KeyOf(h) /\ g.todo = t /\ g.done = n /\ g.blank = b /\ g.at = a
  BY <1>1, FrameTyped
<1>3. run'[h] = g
  BY DEF Inv, Tables, Becomes
<1> HIDE DEF g
<1>4. Turns(h, g)
  BY <1>2 DEF Turns, Becomes, g
<1> QED BY <1>2, <1>3, <1>4 DEF g, Turned

\* The changes the actions make to a frame, as its replacement.
Replacing(h, a, t, n, b) ==
  /\ [run EXCEPT ![h].at = a] =
       [run EXCEPT ![h] = Fr(KeyOf(h), run[h].todo, run[h].done, run[h].blank, a)]
  /\ [run EXCEPT ![h].todo = t] =
       [run EXCEPT ![h] = Fr(KeyOf(h), t, run[h].done, run[h].blank, run[h].at)]
  /\ [run EXCEPT ![h].at = a, ![h].todo = t] =
       [run EXCEPT ![h] = Fr(KeyOf(h), t, run[h].done, run[h].blank, a)]
  /\ [run EXCEPT ![h].at = a, ![h].done = n] =
       [run EXCEPT ![h] = Fr(KeyOf(h), run[h].todo, n, run[h].blank, a)]
  /\ [run EXCEPT ![h].at = a, ![h].blank = b] =
       [run EXCEPT ![h] = Fr(KeyOf(h), run[h].todo, run[h].done, b, a)]
  /\ [run EXCEPT ![h].at = a, ![h].done = n, ![h].blank = b] =
       [run EXCEPT ![h] = Fr(KeyOf(h), run[h].todo, n, b, a)]

\* Each of them is one.
LEMMA FrameReplaced ==
  ASSUME Inv, NEW h \in Handlers, run[h] # None, NEW a, NEW t, NEW n, NEW b
  PROVE  Replacing(h, a, t, n, b)
<1>1. run[h] \in Frame /\ DOMAIN run = Handlers
  BY InFlight DEF Inv, Tables
<1>2. /\ [run EXCEPT ![h].at = a] = [run EXCEPT ![h] = [run[h] EXCEPT !.at = a]]
      /\ [run EXCEPT ![h].todo = t] = [run EXCEPT ![h] = [run[h] EXCEPT !.todo = t]]
  OBVIOUS
<1>3. [run EXCEPT ![h].at = a, ![h].todo = t] =
        [run EXCEPT ![h] = [run[h] EXCEPT !.at = a, !.todo = t]]
  BY <1>1
<1>4. [run EXCEPT ![h].at = a, ![h].done = n] =
        [run EXCEPT ![h] = [run[h] EXCEPT !.at = a, !.done = n]]
  BY <1>1
<1>5. [run EXCEPT ![h].at = a, ![h].blank = b] =
        [run EXCEPT ![h] = [run[h] EXCEPT !.at = a, !.blank = b]]
  BY <1>1
<1>6. [run EXCEPT ![h].at = a, ![h].done = n, ![h].blank = b] =
        [run EXCEPT ![h] = [run[h] EXCEPT !.at = a, !.done = n, !.blank = b]]
  BY <1>1
<1>7. ChangesOf(run[h], a, t, n, b)
  BY <1>1, FrameChanges, Zenon
<1> QED BY <1>2, <1>3, <1>4, <1>5, <1>6, <1>7, Zenon DEF KeyOf, ChangesOf, Replacing

\* A request that starts.
LEMMA OrchestrateStep ==
  ASSUME Inv, NEW h \in Handlers, NEW k \in Keys, Orchestrate(h, k)
  PROVE  Inv'
<1> DEFINE g == Fr(k, Order, 0, FALSE, "look")
<1>1. /\ g \in Frame /\ g.key = k /\ g.at = "look"
  <2>1. Order \in Seq(Modules) /\ 0 \in Nat /\ FALSE \in BOOLEAN /\ "look" \in {"look"} \cup Calling
    BY OrderAssumption
  <2> QED BY <2>1 DEF Frame, Fr
<1>2. run' = [run EXCEPT ![h] = g]
  BY DEF Orchestrate, Fr
<1> HIDE DEF g
<1>3. /\ run[h] = None /\ UNCHANGED <<row, remote, losses, restarts>>
      /\ known' = known \cup {k} /\ requests' = requests + 1 /\ requests < MaxRequests
      /\ raced' = IF Busy(k) THEN raced \cup {k} ELSE raced
      /\ raced \subseteq raced' /\ raced' \in SUBSET Keys
  BY DEF Orchestrate, Inv, OrchestrationTypeOK
<1>4. /\ DOMAIN run' = Handlers /\ run'[h] = g
      /\ \A x \in Handlers \ {h} : run'[x] = run[x]
  BY <1>2 DEF Inv, Tables
<1>5. OrchestrationTypeOK'
  <2>1. ASSUME NEW x \in Handlers, run'[x] # None
        PROVE  run'[x] \in Frame
    BY <1>1, <1>4, <2>1, InFlight
  <2>2. requests' \in 0 .. MaxRequests
    BY <1>3, BoundsAssumption DEF Inv, OrchestrationTypeOK
  <2> QED BY <1>3, <2>1, <2>2 DEF Inv, OrchestrationTypeOK, Frame, Calling
<1>6. Tables' /\ Rows' /\ RowsAreReal'
  BY <1>3, <1>4 DEF Inv, Tables, Rows, RowsAreReal
<1>7. FramesReal'
  <2> SUFFICES ASSUME NEW x \in Handlers, run'[x] # None
               PROVE  FrameReal(x)'
    BY DEF FramesReal
  <2>1. CASE x = h
    BY <1>1, <1>4, <2>1 DEF FrameReal, Calling
  <2>2. CASE x # h
    BY <1>3, <1>4, <2>2, OthersReal
  <2> QED BY <2>1, <2>2
<1>8. Alone'
  <2> SUFFICES ASSUME NEW x \in Handlers, NEW y \in Handlers, run'[x] # None, run'[y] # None,
                      run'[x].key = run'[y].key, run'[y].key \notin raced', x # y
               PROVE  FALSE
    BY DEF Alone, KeyOf
  <2>1. CASE x # h /\ y # h
    BY <1>3, <1>4, <2>1 DEF Inv, Alone, KeyOf
  <2>2. CASE x = h
    BY <1>1, <1>3, <1>4, <2>2 DEF Busy, KeyOf
  <2>3. CASE y = h
    BY <1>1, <1>3, <1>4, <2>3 DEF Busy, KeyOf
  <2> QED BY <2>1, <2>2, <2>3
<1>9. InStep'
  <2> SUFFICES ASSUME NEW x \in Handlers, run'[x] # None, KeyOf(x)' \notin raced', run'[x].at \in Calling
               PROVE  (MyRow(x).status # "CREATED" /\ MyRow(x).done = run[x].done)'
    BY DEF InStep
  <2>1. x # h
    BY <1>1, <1>4 DEF Calling
  <2> QED BY <1>3, <1>4, <2>1 DEF Inv, InStep, KeyOf, MyRow, Module
<1>10. \A l, m, s : KnownByFrame(l, m, s) => KnownByFrame(l, m, s)'
  BY <1>3, <1>4 DEF KnownByFrame, At, KeyOf, Module
<1>11. Counted' /\ RetriesContinue'
  BY <1>3, <1>10 DEF Inv, Counted, RetriesContinue, Known
<1> QED BY <1>5, <1>6, <1>7, <1>8, <1>9, <1>11 DEF Inv

\* The control plane starts again: what its requests knew is lost.
LEMMA RestartStep ==
  ASSUME Inv, Restart
  PROVE  Inv'
<1>1. /\ restarts' = restarts + 1 /\ restarts < MaxRestarts
      /\ \A x \in Handlers : run'[x] = None
      /\ DOMAIN run' = Handlers
      /\ UNCHANGED <<known, row, remote, raced, requests, losses>>
  BY DEF Restart
<1>2. losses \in Nat /\ restarts \in Nat
  BY Numbers DEF Inv
<1>3. OrchestrationTypeOK'
  <2>1. restarts' \in 0 .. MaxRestarts
    BY <1>1, <1>2, BoundsAssumption
  <2> QED BY <1>1, <2>1 DEF Inv, OrchestrationTypeOK
<1>4. Tables' /\ Rows' /\ RowsAreReal' /\ FramesReal' /\ Alone' /\ InStep'
  BY <1>1 DEF Inv, Tables, Rows, RowsAreReal, FramesReal, Alone, InStep
<1>5. ASSUME NEW k \in Keys \ raced', NEW m \in Modules, NEW s \in 1 .. Stages[m]
      PROVE  /\ remote'[k][m][s] <= 1 + losses' + restarts'
             /\ ~Known(k, m, s)' => remote'[k][m][s] <= losses' + restarts'
  <2>1. remote'[k][m][s] \in Nat /\ remote'[k][m][s] <= 1 + losses + restarts
    BY <1>1, Numbers DEF Inv, RetriesContinue
  <2> QED BY <1>1, <1>2, <2>1
<1> QED BY <1>3, <1>4, <1>5 DEF Inv, Counted, RetriesContinue

\* A module that is settled is passed by.
LEMMA PassStep ==
  ASSUME Inv, NEW h \in Handlers, Pass(h)
  PROVE  Inv'
<1>1. run[h] # None /\ run[h].at = "look" /\ run[h].todo # <<>>
  BY DEF Pass, At
<1>2. /\ Tail(run[h].todo) \in Seq(Modules) /\ run[h].done \in Nat /\ run[h].blank \in BOOLEAN
      /\ "look" \in {"look"} \cup Calling
  BY <1>1, InFlight
<1>3. UNCHANGED <<known, raced, requests, restarts>> /\ UNCHANGED <<row, remote, losses>>
  BY DEF Pass
<1>4. Becomes(h, Tail(run[h].todo), run[h].done, run[h].blank, "look")
  <2>1. run' = [run EXCEPT ![h].todo = Tail(run[h].todo)]
    BY DEF Pass
  <2>2. Replacing(h, "look", Tail(run[h].todo), run[h].done, run[h].blank)
    BY <1>1, FrameReplaced, Zenon
  <2> QED BY <1>1, <1>3, <2>1, <2>2, Zenon DEF Becomes, Replacing
<1> DEFINE g == Fr(KeyOf(h), Tail(run[h].todo), run[h].done, run[h].blank, "look")
<1>5. Turns(h, g) /\ run'[h].at = "look"
  <2>1. Turned(h, Tail(run[h].todo), run[h].done, run[h].blank, "look")
    BY <1>1, <1>2, <1>4, FrameTurns, Zenon
  <2> QED BY <2>1 DEF Turned
<1>6. Sound(h)'
  BY <1>5 DEF Sound, FrameReal, Calling
<1> HIDE DEF g
<1> QED BY <1>1, <1>3, <1>5, <1>6, QuietTurn

\* The handler takes up what the row records.
LEMMA ResumeStep ==
  ASSUME Inv, NEW h \in Handlers, Resume(h)
  PROVE  Inv'
<1>1. run[h] # None /\ run[h].at = "look" /\ run[h].todo # <<>> /\ ~Settled(h)
  BY DEF Resume, At
<1>2. /\ run[h].todo \in Seq(Modules) /\ MyRow(h).done \in Nat /\ MyRow(h).blank \in BOOLEAN
      /\ "ready" \in {"look"} \cup Calling /\ KeyOf(h) \in Keys /\ Module(h) \in Modules
      /\ Stages[Module(h)] \in Nat
  BY <1>1, InFlight DEF Row, Calling
<1>3. UNCHANGED <<known, raced, requests, restarts>> /\ UNCHANGED <<row, remote, losses>>
  BY DEF Resume
<1>4. Becomes(h, run[h].todo, MyRow(h).done, MyRow(h).blank, "ready")
  <2>1. run' = [run EXCEPT ![h].at = "ready", ![h].done = MyRow(h).done, ![h].blank = MyRow(h).blank]
    BY DEF Resume, Recorded
  <2>2. Replacing(h, "ready", run[h].todo, MyRow(h).done, MyRow(h).blank)
    BY <1>1, FrameReplaced, Zenon
  <2> QED BY <1>1, <1>3, <2>1, <2>2, Zenon DEF Becomes, Replacing
<1> DEFINE g == Fr(KeyOf(h), run[h].todo, MyRow(h).done, MyRow(h).blank, "ready")
<1>5. /\ Turns(h, g) /\ run'[h].at = "ready" /\ run'[h].key = KeyOf(h) /\ run'[h].todo = run[h].todo
      /\ run'[h].done = MyRow(h).done
  <2>1. Turned(h, run[h].todo, MyRow(h).done, MyRow(h).blank, "ready")
    BY <1>1, <1>2, <1>4, FrameTurns, Zenon
  <2> QED BY <2>1 DEF Turned
<1>6. KeyOf(h)' = KeyOf(h) /\ Module(h)' = Module(h)
  BY <1>5 DEF KeyOf, Module
<1>7. /\ MyRow(h).done < Stages[Module(h)] /\ MyRow(h).status # "CREATED"
      /\ \A s \in 1 .. MyRow(h).done : remote[KeyOf(h)][Module(h)][s] > 0
  BY <1>1, <1>2 DEF Settled, MyRow, Inv, Rows, RowsAreReal
<1>8. FrameReal(h)'
  BY <1>1, <1>3, <1>5, <1>6, <1>7 DEF FrameReal
<1>9. Sound(h)'
  BY <1>3, <1>5, <1>6, <1>7, <1>8 DEF Sound, MyRow
<1> HIDE DEF g
<1> QED BY <1>1, <1>3, <1>5, <1>9, QuietTurn

\* A module that refuses, or cannot be reached, made nothing.
LEMMA RefusedStep ==
  ASSUME Inv, NEW h \in Handlers, Refused(h)
  PROVE  Inv'
<1>1. run[h] # None /\ run[h].at = "ready" /\ run[h].at \in Calling
  BY DEF Refused, At, Calling
<1>2. /\ run[h].todo \in Seq(Modules) /\ run[h].done \in Nat /\ run[h].blank \in BOOLEAN
      /\ "lost" \in {"look"} \cup Calling /\ KeyOf(h) \in Keys
  BY <1>1, InFlight DEF Calling
<1>3. UNCHANGED <<known, raced, requests, restarts>> /\ UNCHANGED <<row, remote, losses>>
  BY DEF Refused
<1>4. Becomes(h, run[h].todo, run[h].done, run[h].blank, "lost")
  <2>1. run' = [run EXCEPT ![h].at = "lost"]
    BY DEF Refused, Goto
  <2>2. Replacing(h, "lost", run[h].todo, run[h].done, run[h].blank)
    BY <1>1, FrameReplaced, Zenon
  <2> QED BY <1>1, <1>3, <2>1, <2>2, Zenon DEF Becomes, Replacing
<1> DEFINE g == Fr(KeyOf(h), run[h].todo, run[h].done, run[h].blank, "lost")
<1>5. /\ Turns(h, g) /\ run'[h].at = "lost" /\ run'[h].key = KeyOf(h) /\ run'[h].todo = run[h].todo
      /\ run'[h].done = run[h].done
  <2>1. Turned(h, run[h].todo, run[h].done, run[h].blank, "lost")
    BY <1>1, <1>2, <1>4, FrameTurns, Zenon
  <2> QED BY <2>1 DEF Turned
<1>6. KeyOf(h)' = KeyOf(h) /\ Module(h)' = Module(h)
  BY <1>5 DEF KeyOf, Module
<1>7. /\ FrameReal(h)
      /\ KeyOf(h) \notin raced => MyRow(h).status # "CREATED" /\ MyRow(h).done = run[h].done
  BY <1>1, AtModule
<1>8. FrameReal(h)'
  BY <1>1, <1>3, <1>5, <1>6, <1>7 DEF FrameReal
<1>9. Sound(h)'
  BY <1>3, <1>5, <1>6, <1>7, <1>8 DEF Sound, MyRow
<1> HIDE DEF g
<1> QED BY <1>1, <1>3, <1>5, <1>9, QuietTurn

\* The last module is done with, or the next has no origin to call.
LEMMA ReturnStep ==
  ASSUME Inv, NEW h \in Handlers, Return(h) \/ Unsent(h)
  PROVE  Inv'
<1>1. /\ run[h] # None /\ run[h].at # "made" /\ run' = [run EXCEPT ![h] = None]
      /\ UNCHANGED <<known, raced, requests, restarts>> /\ UNCHANGED <<row, remote, losses>>
  BY DEF Return, Unsent, At
<1>2. Turns(h, None)
  BY <1>1 DEF Turns
<1>3. Sound(h)'
  BY <1>2, TurnsFrames DEF Sound
<1> QED BY <1>1, <1>2, <1>3, QuietTurn

\* A stage is recorded, and the next one is due.
LEMMA CheckpointStep ==
  ASSUME Inv, NEW h \in Handlers, Checkpoint(h)
  PROVE  Inv'
<1>1. run[h] # None /\ run[h].at = "made" /\ run[h].at \in Calling /\ ~LastStage(h)
  BY DEF Checkpoint, At, Calling
<1>2. /\ run[h].todo \in Seq(Modules) /\ run[h].done \in Nat /\ run[h].blank \in BOOLEAN
      /\ "ready" \in {"look"} \cup Calling /\ KeyOf(h) \in Keys /\ run[h].done + 1 \in Nat
      /\ Module(h) \in Modules /\ Stages[Module(h)] \in Nat /\ run[h].done < Stages[Module(h)]
  BY <1>1, InFlight, AtModule DEF Calling
<1>3. UNCHANGED <<known, raced, requests, restarts>> /\ UNCHANGED <<remote, losses>>
  BY DEF Checkpoint
<1>4. Becomes(h, run[h].todo, run[h].done + 1, run[h].blank, "ready")
  <2>1. run' = [run EXCEPT ![h].at = "ready", ![h].done = run[h].done + 1]
    BY DEF Checkpoint
  <2>2. Replacing(h, "ready", run[h].todo, run[h].done + 1, run[h].blank)
    BY <1>1, FrameReplaced, Zenon
  <2> QED BY <1>1, <1>3, <2>1, <2>2, Zenon DEF Becomes, Replacing
<1> DEFINE g == Fr(KeyOf(h), run[h].todo, run[h].done + 1, run[h].blank, "ready")
           r == [status |-> "IN_PROGRESS", done |-> run[h].done + 1, blank |-> run[h].blank]
<1>5. /\ Turns(h, g) /\ run'[h].at = "ready" /\ run'[h].key = KeyOf(h) /\ run'[h].todo = run[h].todo
      /\ run'[h].done = run[h].done + 1
  <2>1. Turned(h, run[h].todo, run[h].done + 1, run[h].blank, "ready")
    BY <1>1, <1>2, <1>4, FrameTurns, Zenon
  <2> QED BY <2>1 DEF Turned
<1>6. r \in Row /\ r.status = "IN_PROGRESS" /\ r.done = run[h].done + 1 /\ Write(h, r)
  BY <1>2 DEF Row, Checkpoint
<1> HIDE DEF g, r
<1>7. KeyOf(h)' = KeyOf(h) /\ Module(h)' = Module(h)
  BY <1>5 DEF KeyOf, Module
<1>8. row'[KeyOf(h)][Module(h)] = r
  <2>1. row \in [Keys -> [Modules -> Row]]
    BY DEF Inv, OrchestrationTypeOK
  <2> QED BY <1>2, <1>6, <2>1 DEF Write
<1>9. r.done < Stages[Module(h)]
  BY <1>1, <1>2, <1>6 DEF LastStage
<1>10. FrameReal(h)'
  <2>1. FrameReal(h)
    BY <1>1, AtModule
  <2>2. \A s \in 1 .. run[h].done + 1 : remote[KeyOf(h)][Module(h)][s] > 0
    <3>1. \A s \in 1 .. run[h].done + 1 : s \in 1 .. run[h].done \/ s = run[h].done + 1
      BY <1>2
    <3> QED BY <1>1, <2>1, <3>1 DEF FrameReal
  <2> QED BY <1>1, <1>3, <1>5, <1>6, <1>7, <1>9, <2>1, <2>2 DEF FrameReal
<1>11. Sound(h)'
  BY <1>5, <1>6, <1>7, <1>8, <1>10 DEF Sound, MyRow
<1>12. r.done = Due(h)
  BY <1>1, <1>6 DEF Due
<1> QED BY <1>1, <1>3, <1>5, <1>6, <1>9, <1>11, <1>12, WritingTurn

\* The module is settled, or given up, and the handler turns to the next one.
LEMMA SettleStep ==
  ASSUME Inv, NEW h \in Handlers, Succeed(h) \/ Fail(h)
  PROVE  Inv'
<1>1. run[h] # None /\ run[h].at \in {"made", "lost"} /\ run[h].at \in Calling
  BY DEF Succeed, Fail, At, Calling
<1>2. /\ Tail(run[h].todo) \in Seq(Modules) /\ run[h].done \in Nat /\ run[h].blank \in BOOLEAN
      /\ "look" \in {"look"} \cup Calling /\ run[h].done < Stages[Module(h)] /\ FrameReal(h)
      /\ Stages[Module(h)] \in Nat
  BY <1>1, InFlight, AtModule DEF FrameReal
<1>3. UNCHANGED <<known, raced, requests, restarts>> /\ UNCHANGED <<remote, losses>>
  BY DEF Succeed, Fail
<1>4. Becomes(h, Tail(run[h].todo), run[h].done, run[h].blank, "look")
  <2>1. run' = [run EXCEPT ![h].at = "look", ![h].todo = Tail(run[h].todo)]
    BY DEF Succeed, Next1, Fail
  <2>2. Replacing(h, "look", Tail(run[h].todo), run[h].done, run[h].blank)
    BY <1>1, FrameReplaced, Zenon
  <2> QED BY <1>1, <1>3, <2>1, <2>2, Zenon DEF Becomes, Replacing
<1> DEFINE g == Fr(KeyOf(h), Tail(run[h].todo), run[h].done, run[h].blank, "look")
<1>5. Turns(h, g) /\ run'[h].at = "look"
  <2>1. Turned(h, Tail(run[h].todo), run[h].done, run[h].blank, "look")
    BY <1>1, <1>2, <1>4, FrameTurns, Zenon
  <2> QED BY <2>1 DEF Turned
<1>6. Sound(h)'
  BY <1>5 DEF Sound, FrameReal, Calling
<1> HIDE DEF g
<1>7. CASE Succeed(h)
  <2> DEFINE r == [status |-> "CREATED", done |-> Stages[Module(h)], blank |-> run[h].blank]
  <2>1. run[h].at = "made" /\ LastStage(h) /\ Write(h, r)
    BY <1>7 DEF Succeed, At
  <2>2. r \in Row /\ r.status = "CREATED" /\ r.done = Stages[Module(h)] /\ r.blank = run[h].blank
    BY <1>2 DEF Row
  <2> HIDE DEF r
  <2>3. r.done = Due(h) /\ ~r.blank
    BY <1>2, <2>1, <2>2 DEF Due, LastStage, FrameReal, Calling
  <2> QED BY <1>1, <1>3, <1>5, <1>6, <2>1, <2>2, <2>3, WritingTurn
<1>8. CASE Fail(h)
  <2> DEFINE r == [status |-> "FAILED", done |-> run[h].done, blank |-> run[h].blank]
  <2>1. run[h].at = "lost" /\ Write(h, r)
    BY <1>8 DEF Fail, At
  <2>2. r \in Row /\ r.status = "FAILED" /\ r.done = run[h].done
    BY <1>2 DEF Row
  <2> HIDE DEF r
  <2>3. r.done = Due(h) /\ r.done < Stages[Module(h)]
    BY <1>2, <2>1, <2>2 DEF Due
  <2> QED BY <1>1, <1>3, <1>5, <1>6, <2>1, <2>2, <2>3, WritingTurn
<1> QED BY <1>7, <1>8

\* The call was carried out: what a handler needs to say so, or to have lost it.
LEMMA Acted ==
  ASSUME Inv, NEW h \in Handlers, At(h, "ready"), Act(h), row' = row, UNCHANGED raced,
         NEW b \in BOOLEAN, NEW a \in {"made", "lost"},
         Turned(h, run[h].todo, run[h].done, b, a),
         a = "made" /\ LastStage(h) => ~b
  PROVE  Sound(h)'
<1>1. /\ run'[h].key = KeyOf(h) /\ run'[h].todo = run[h].todo /\ run'[h].done = run[h].done
      /\ run'[h].at = a /\ run'[h].blank = b /\ run[h] # None
  BY DEF Turned, At
<1>2. KeyOf(h)' = KeyOf(h) /\ Module(h)' = Module(h)
  BY <1>1 DEF KeyOf, Module
<1>3. /\ FrameReal(h) /\ run[h].at \in Calling
      /\ KeyOf(h) \notin raced => MyRow(h).status # "CREATED" /\ MyRow(h).done = run[h].done
      /\ KeyOf(h) \in Keys /\ Module(h) \in Modules /\ run[h].done + 1 \in 1 .. Stages[Module(h)]
      /\ run[h].done \in Nat /\ Stages[Module(h)] \in Nat
  BY AtModule DEF At, Calling
<1> DEFINE k0 == KeyOf(h)
           m0 == Module(h)
           s0 == run[h].done + 1
<1>4. OneMore(k0, m0, s0)
  <2>1. remote' = [remote EXCEPT ![k0][m0][s0] = remote[k0][m0][s0] + 1]
    BY DEF Act
  <2>2. k0 \in Keys /\ m0 \in Modules /\ s0 \in 1 .. Stages[m0]
    BY <1>3
  <2> HIDE DEF k0, m0, s0
  <2> QED BY <2>1, <2>2, StageCarriedOut, Zenon DEF Inv
<1>5. remote'[k0][m0][s0] > 0
  <2>1. remote[k0][m0][s0] \in Nat
    BY <1>3, Numbers DEF Inv
  <2>2. remote'[k0][m0][s0] = remote[k0][m0][s0] + 1
    BY <1>4 DEF OneMore
  <2> HIDE DEF k0, m0, s0
  <2> QED BY <2>1, <2>2
<1>6. \A s \in 1 .. run[h].done : remote'[k0][m0][s] > 0
  <2> SUFFICES ASSUME NEW s \in 1 .. run[h].done
               PROVE  remote'[k0][m0][s] > 0
    OBVIOUS
  <2>1. s # s0 /\ s \in 1 .. Stages[m0] /\ k0 \in Keys /\ m0 \in Modules
    BY <1>3
  <2>2. remote'[k0][m0][s] = remote[k0][m0][s]
    <3> HIDE DEF k0, m0, s0
    <3> QED BY <1>4, <2>1 DEF OneMore
  <2>3. remote[k0][m0][s] > 0
    BY <1>3 DEF FrameReal
  <2> QED BY <2>2, <2>3
<1>7. FrameReal(h)'
  BY <1>1, <1>2, <1>3, <1>5, <1>6 DEF FrameReal, LastStage
<1> QED BY <1>1, <1>2, <1>3, <1>7 DEF Sound, MyRow

\* The module answers, with an identifier or without.
LEMMA AnsweredStep ==
  ASSUME Inv, NEW h \in Handlers, Answered(h) \/ AnsweredBlank(h)
  PROVE  Inv'
<1>1. /\ run[h] # None /\ At(h, "ready") /\ Act(h) /\ row' = row
      /\ UNCHANGED <<known, raced, requests, restarts>> /\ UNCHANGED raced
  BY DEF Answered, AnsweredBlank, At
<1>2. run[h].todo \in Seq(Modules) /\ run[h].done \in Nat /\ run[h].blank \in BOOLEAN
  BY <1>1, InFlight
<1>3. losses' \in 0 .. MaxLosses /\ losses <= losses'
  BY Numbers, BoundsAssumption DEF Answered, AnsweredBlank, Lose, Inv, OrchestrationTypeOK
<1>4. PICK b \in BOOLEAN : /\ Becomes(h, run[h].todo, run[h].done, b, "made")
                           /\ LastStage(h) => ~b
  <2>1. CASE Answered(h)
    <3>1. run' = [run EXCEPT ![h].at = "made"] /\ (LastStage(h) => ~run[h].blank)
      BY <2>1 DEF Answered, Goto, Rootless
    <3>2. Replacing(h, "made", run[h].todo, run[h].done, run[h].blank)
      BY <1>1, FrameReplaced, Zenon
    <3>3. Becomes(h, run[h].todo, run[h].done, run[h].blank, "made")
      BY <1>1, <3>1, <3>2, Zenon DEF Becomes, Replacing
    <3> QED BY <1>2, <3>1, <3>3
  <2>2. CASE AnsweredBlank(h)
    <3>1. run' = [run EXCEPT ![h].at = "made", ![h].blank = TRUE] /\ ~LastStage(h)
      BY <2>2 DEF AnsweredBlank
    <3>2. Replacing(h, "made", run[h].todo, run[h].done, TRUE)
      BY <1>1, FrameReplaced, Zenon
    <3>3. Becomes(h, run[h].todo, run[h].done, TRUE, "made")
      BY <1>1, <3>1, <3>2, Zenon DEF Becomes, Replacing
    <3> QED BY <3>1, <3>3
  <2> QED BY <2>1, <2>2
<1> DEFINE g == Fr(KeyOf(h), run[h].todo, run[h].done, b, "made")
<1>5. Turned(h, run[h].todo, run[h].done, b, "made")
  <2>1. "made" \in {"look"} \cup Calling
    BY DEF Calling
  <2> QED BY <1>1, <1>2, <1>4, <2>1, FrameTurns, Zenon
<1>6. Sound(h)'
  BY <1>1, <1>4, <1>5, Acted
<1>7. Turns(h, g) /\ g # None /\ g.at = "made" /\ g.todo = run[h].todo /\ g.done = run[h].done
  <2>1. /\ Turns(h, g) /\ run'[h].at = "made" /\ run'[h].todo = run[h].todo
        /\ run'[h].done = run[h].done
    BY <1>5 DEF Turned
  <2>2. g \in Frame
    BY <1>1, <1>2, InFlight DEF Frame, Fr
  <2>3. g.at = "made" /\ g.todo = run[h].todo /\ g.done = run[h].done
    BY DEF Fr
  <2> QED BY <2>1, <2>2, <2>3, NoneAssumption
<1> HIDE DEF g
<1> QED BY <1>1, <1>3, <1>6, <1>7, ActingTurn

\* The answer is lost, or not one the handler can read.
LEMMA LostStep ==
  ASSUME Inv, NEW h \in Handlers, Unanswered(h) \/ Unreadable(h)
  PROVE  Inv'
<1>1. /\ run[h] # None /\ At(h, "ready") /\ Act(h) /\ row' = row
      /\ UNCHANGED <<known, raced, requests, restarts>> /\ UNCHANGED raced
      /\ losses' = losses + 1
  BY DEF Unanswered, Unreadable, At, Lose
<1>2. run[h].todo \in Seq(Modules) /\ run[h].done \in Nat /\ run[h].blank \in BOOLEAN
  BY <1>1, InFlight
<1>3. losses' \in 0 .. MaxLosses /\ losses <= losses'
  BY Numbers, BoundsAssumption DEF Unanswered, Unreadable, Lose, Inv, OrchestrationTypeOK
<1>4. CASE Unanswered(h)
  <2> DEFINE g == Fr(KeyOf(h), run[h].todo, run[h].done, run[h].blank, "lost")
  <2>1. Becomes(h, run[h].todo, run[h].done, run[h].blank, "lost")
    <3>1. run' = [run EXCEPT ![h].at = "lost"]
      BY <1>4 DEF Unanswered, Goto
    <3>2. Replacing(h, "lost", run[h].todo, run[h].done, run[h].blank)
      BY <1>1, FrameReplaced, Zenon
    <3> QED BY <1>1, <3>1, <3>2, Zenon DEF Becomes, Replacing
  <2>2. Turned(h, run[h].todo, run[h].done, run[h].blank, "lost")
    <3>1. "lost" \in {"look"} \cup Calling
      BY DEF Calling
    <3> QED BY <1>1, <1>2, <2>1, <3>1, FrameTurns, Zenon
  <2>3. Sound(h)'
    BY <1>1, <1>2, <2>2, Acted
  <2>4. Turns(h, g)
    BY <2>2 DEF Turned
  <2> HIDE DEF g
  <2> QED BY <1>1, <1>3, <2>3, <2>4, ActingTurn
<1>5. CASE Unreadable(h)
  <2>1. Turns(h, None)
    BY <1>1, <1>5 DEF Turns, Unreadable
  <2>2. Sound(h)'
    BY <2>1, TurnsFrames DEF Sound
  <2> QED BY <1>1, <1>3, <2>1, <2>2, ActingTurn
<1> QED BY <1>1, <1>4, <1>5

-----------------------------------------------------------------------------
(* The invariant, and what follows from it.                                *)

\* It holds when the tables are empty.
LEMMA InitInv == Init => Inv
<1> SUFFICES ASSUME Init
             PROVE  Inv
  OBVIOUS
<1> USE StagesAssumption, BoundsAssumption DEF Init
<1>1. /\ \A h \in Handlers : run[h] = None
      /\ \A k \in Keys, m \in Modules : row[k][m] = NoRow
      /\ row \in [Keys -> [Modules -> Row]]
  BY DEF Row, NoRow
<1>2. \A k \in Keys, m \in Modules : NoRow.done <= Stages[m] /\ NoRow.done < Stages[m]
  BY DEF NoRow
<1>3. \A k \in Keys, m \in Modules :
        /\ remote[k][m] \in [1 .. Stages[m] -> Nat]
        /\ \A s \in 1 .. Stages[m] : remote[k][m][s] = 0
  OBVIOUS
<1>4. OrchestrationTypeOK
  BY <1>1, <1>2, <1>3 DEF OrchestrationTypeOK
<1>5. Tables /\ Rows
  BY <1>1, <1>2 DEF Tables, Rows
<1>6. RowsAreReal
  BY <1>1 DEF RowsAreReal, NoRow
<1>7. FramesReal /\ Alone /\ InStep
  BY <1>1 DEF FramesReal, Alone, InStep
<1>8. Counted /\ RetriesContinue
  BY <1>3 DEF Counted, RetriesContinue
<1> QED BY <1>4, <1>5, <1>6, <1>7, <1>8 DEF Inv

\* Every step keeps it.
LEMMA NextInv == Inv /\ [Next]_vars => Inv'
<1> SUFFICES ASSUME Inv, [Next]_vars
             PROVE  Inv'
  OBVIOUS
<1>1. ASSUME NEW h \in Handlers, NEW k \in Keys, Orchestrate(h, k)
      PROVE  Inv'
  BY <1>1, OrchestrateStep
<1>2. ASSUME NEW h \in Handlers, HandlerNext(h)
      PROVE  Inv'
  <2>1. CASE Pass(h)
    BY <2>1, PassStep
  <2>2. CASE Resume(h)
    BY <2>2, ResumeStep
  <2>3. CASE Answered(h) \/ AnsweredBlank(h)
    BY <2>3, AnsweredStep
  <2>4. CASE Unanswered(h) \/ Unreadable(h)
    BY <2>4, LostStep
  <2>5. CASE Refused(h)
    BY <2>5, RefusedStep
  <2>6. CASE Checkpoint(h)
    BY <2>6, CheckpointStep
  <2>7. CASE Succeed(h) \/ Fail(h)
    BY <2>7, SettleStep
  <2>8. CASE Return(h) \/ Unsent(h)
    BY <2>8, ReturnStep
  <2> QED BY <1>2, <2>1, <2>2, <2>3, <2>4, <2>5, <2>6, <2>7, <2>8 DEF HandlerNext
<1>3. CASE Restart
  BY <1>3, RestartStep
<1>4. CASE UNCHANGED vars
  BY <1>4 DEF vars, Inv, OrchestrationTypeOK, Tables, Rows, RowsAreReal, FramesReal, FrameReal,
     Alone, InStep, Counted, Known, KnownByFrame, At, KeyOf, Module, MyRow, LastStage,
     RetriesContinue
<1> QED BY <1>1, <1>2, <1>3, <1>4 DEF Next

\* What a behaviour is, its fairness aside.
LEMMA SafetyOfSpec == Spec => Init /\ [][Next]_vars
BY PTL DEF Spec

\* The inductive invariant of Orchestration.
THEOREM OrchestrationInvariant == Spec => []Inv
BY SafetyOfSpec, InitInv, NextInv, PTL

\* The tables and the frames keep their types: a checkpoint never runs past a
\* module's stages.
THEOREM OrchestrationTypeCorrect == Spec => []OrchestrationTypeOK
<1>1. Inv => OrchestrationTypeOK
  BY DEF Inv
<1> QED BY <1>1, OrchestrationInvariant, PTL

\* A row records only what a module carried out, and says CREATED only of a module
\* whose stages are all carried out, however many requests write it.
THEOREM RowsAreTrue == Spec => []RowsAreReal
<1>1. Inv => RowsAreReal
  BY DEF Inv
<1> QED BY <1>1, OrchestrationInvariant, PTL

\* A key that no two requests were in flight for repeats no stage but for an answer
\* or a handler that was lost.
THEOREM RetriesGoOn == Spec => []RetriesContinue
<1>1. Inv => RetriesContinue
  BY DEF Inv
<1> QED BY <1>1, OrchestrationInvariant, PTL

\* Only a handler that thinks its module unsettled writes a row.
LEMMA SettledStays ==
  ASSUME Inv, [Next]_vars, NEW k \in Keys \ raced', NEW m \in Modules,
         row[k][m].status = "CREATED"
  PROVE  row'[k][m] = row[k][m]
<1>1. ASSUME NEW h \in Handlers, NEW r, Write(h, r), run[h] # None, run[h].at \in {"made", "lost"},
             raced' = raced
      PROVE  row'[k][m] = row[k][m]
  <2>1. KeyOf(h) # k \/ Module(h) # m
    BY <1>1, AtModule DEF MyRow, Calling
  <2> QED BY <1>1, <2>1 DEF Write, Inv, OrchestrationTypeOK
<1>2. ASSUME NEW h \in Handlers, Checkpoint(h) \/ Succeed(h) \/ Fail(h)
      PROVE  row'[k][m] = row[k][m]
  BY <1>1, <1>2 DEF Checkpoint, Succeed, Fail, At
<1>3. ASSUME NEW h \in Handlers, HandlerNext(h)
      PROVE  row'[k][m] = row[k][m]
  BY <1>2, <1>3 DEF HandlerNext, Pass, Resume, Answered, AnsweredBlank, Unanswered, Refused,
     Unreadable, Unsent, Return
<1> QED BY <1>3 DEF Next, Orchestrate, Restart, vars

\* A row that says CREATED is never written again unless two requests were in
\* flight for its key at once.
THEOREM CreatedIsRetained == Spec => RetainedUnlessRaced
<1>1. Inv /\ [Next]_vars =>
        [\A k \in Keys \ raced', m \in Modules :
           row[k][m].status = "CREATED" => row'[k][m] = row[k][m]]_vars
  BY SettledStays
<1> QED BY <1>1, SafetyOfSpec, OrchestrationInvariant, PTL DEF RetainedUnlessRaced
=============================================================================
