-------------------------- MODULE EcosystemProofs --------------------------
(***************************************************************************)
(* That mappings are unique, stay, and are told of once, for any number of *)
(* projects, applications, work items and imports in flight.               *)
(***************************************************************************)
EXTENDS Ecosystem, TLAPS

-----------------------------------------------------------------------------
(* The inductive invariant of the mappings.                                *)

\* Nothing is linked to a project that is not there: an import takes one of these.
UnusedProjects == \A p \in Projects \ projects, s \in Systems : link[p][s] = None

Mappings == EcosystemTypeOK /\ OneProjectPerExternal /\ AnswersStayTrue /\ UnusedProjects

\* Each event shows its type and its payload, so that no two are the same.
LEMMA KindFacts ==
  /\ \A p : ProjectCreated(p)[1] = "project.created" /\ ProjectCreated(p)[2] = p
  /\ \A p, s : /\ ProjectMapped(p, s)[1] = "project.mapped"
               /\ ProjectMapped(p, s)[2] = p /\ ProjectMapped(p, s)[3] = s
  /\ \A p, s : /\ ProjectImported(p, s)[1] = "project.imported"
               /\ ProjectImported(p, s)[2] = p /\ ProjectImported(p, s)[3] = s
  /\ \A p, w : /\ WorkAttached(p, w)[1] = "project.work_attached"
               /\ WorkAttached(p, w)[2] = p /\ WorkAttached(p, w)[3] = w
  /\ \A w : WorkCreated(w)[1] = "work.created" /\ WorkCreated(w)[2] = w
  /\ \A w : StatusChanged(w)[1] = "work.status_changed"
  /\ \A w, s : ReferenceAttached(w, s)[1] = "work.reference_attached"
  /\ \A w, j : /\ JobLinked(w, j)[1] = "work.job_linked"
               /\ JobLinked(w, j)[2] = w /\ JobLinked(w, j)[3] = j
  BY DEF ProjectCreated, ProjectMapped, ProjectImported, WorkAttached, WorkCreated,
         StatusChanged, ReferenceAttached, JobLinked

LEMMA EventFacts ==
  /\ \A p \in Projects :
       /\ ProjectCreated(p) \in Events
       /\ \A s \in Systems : ProjectMapped(p, s) \in Events /\ ProjectImported(p, s) \in Events
       /\ \A w \in WorkItems : WorkAttached(p, w) \in Events
  /\ \A w \in WorkItems :
       /\ WorkCreated(w) \in Events
       /\ StatusChanged(w) \in Events
       /\ \A s \in Systems : ReferenceAttached(w, s) \in Events
       /\ \A j \in Jobs : JobLinked(w, j) \in Events
  BY DEF Events

LEMMA TellFacts ==
  ASSUME NEW e \in Events, told \in [Events -> Nat], Tell(e)
  PROVE  /\ told' \in [Events -> Nat]
         /\ told'[e] = told[e] + 1
         /\ \A d \in Events : d # e => told'[d] = told[d]
  BY DEF Tell

LEMMA InitMappings == Init => Mappings
<1> SUFFICES ASSUME Init PROVE Mappings
  OBVIOUS
<1>1. EcosystemTypeOK
  BY DEF Init, EcosystemTypeOK
<1>2. OneProjectPerExternal /\ AnswersStayTrue /\ UnusedProjects
  BY DEF Init, OneProjectPerExternal, AnswersStayTrue, UnusedProjects
<1> QED BY <1>1, <1>2 DEF Mappings

\* A step that links nothing and answers nothing keeps the mappings.
LEMMA NothingLinked ==
  ASSUME Mappings, EcosystemTypeOK', projects \subseteq projects',
         UNCHANGED <<link, answered>>
  PROVE  Mappings'
BY DEF Mappings, OneProjectPerExternal, AnswersStayTrue, UnusedProjects

LEMMA CreateProjectMappings ==
  ASSUME NEW p \in Projects, Mappings, CreateProject(p) PROVE Mappings'
<1>1. told' \in [Events -> Nat]
  BY EventFacts, TellFacts DEF Mappings, EcosystemTypeOK, CreateProject
<1>2. EcosystemTypeOK'
  BY <1>1 DEF CreateProject, Mappings, EcosystemTypeOK
<1> QED BY <1>2, NothingLinked DEF CreateProject

\* What a new link does to the table of links.
NewLink(p, s, x) ==
  /\ link[p][s] = None
  /\ ~Taken(s, x)
  /\ link' = [link EXCEPT ![p][s] = x]

LEMMA LinkFacts ==
  ASSUME NEW p \in Projects, NEW s \in Systems, NEW x \in Externals, Mappings,
         NewLink(p, s, x)
  PROVE  /\ link' \in [Projects -> [Systems -> Externals \cup {None}]]
         /\ link'[p][s] = x /\ x # None
         /\ \A q \in Projects, t \in Systems : q # p \/ t # s => link'[q][t] = link[q][t]
         /\ OneProjectPerExternal'
<1>1. /\ link' \in [Projects -> [Systems -> Externals \cup {None}]]
      /\ link'[p][s] = x /\ x # None
      /\ \A q \in Projects, t \in Systems : q # p \/ t # s => link'[q][t] = link[q][t]
      /\ \A q \in Projects : link[q][s] # x
  BY NothingAssumption DEF NewLink, Mappings, EcosystemTypeOK, Taken
<1> QED BY <1>1 DEF Mappings, OneProjectPerExternal

LEMMA MapProjectMappings ==
  ASSUME NEW p \in Projects, NEW s \in Systems, NEW x \in Externals, Mappings,
         MapProject(p, s, x)
  PROVE  Mappings'
<1>1. told' \in [Events -> Nat]
  BY EventFacts, TellFacts DEF Mappings, EcosystemTypeOK, MapProject
<1>2. /\ link[p][s] = None
      /\ link' \in [Projects -> [Systems -> Externals \cup {None}]]
      /\ link'[p][s] = x /\ x # None
      /\ \A q \in Projects, t \in Systems : q # p \/ t # s => link'[q][t] = link[q][t]
      /\ OneProjectPerExternal'
  <2>1. NewLink(p, s, x)
    BY DEF MapProject, Linkable, NewLink
  <2> QED BY <2>1, LinkFacts DEF MapProject, Linkable
<1>3. EcosystemTypeOK'
  BY <1>1, <1>2 DEF MapProject, Mappings, EcosystemTypeOK
<1>4. AnswersStayTrue'
  <2> SUFFICES ASSUME NEW a \in answered PROVE link'[a.project][a.system] = a.external
    BY DEF AnswersStayTrue, MapProject
  <2>1. /\ a.project \in Projects /\ a.system \in Systems
        /\ a.external # None
        /\ link[a.project][a.system] = a.external
    BY ImportableAssumption, NothingAssumption
    DEF Mappings, EcosystemTypeOK, AnswersStayTrue
  <2> QED BY <2>1, <1>2
<1>5. UnusedProjects'
  BY <1>2 DEF MapProject, Known, Mappings, UnusedProjects
<1> QED BY <1>2, <1>3, <1>4, <1>5 DEF Mappings

LEMMA MapWorkMappings ==
  ASSUME NEW p \in Projects, NEW w \in WorkItems, Mappings, MapWork(p, w)
  PROVE  Mappings'
<1>1. told' \in [Events -> Nat]
  BY EventFacts, TellFacts DEF Mappings, EcosystemTypeOK, MapWork
<1>2. EcosystemTypeOK'
  BY <1>1 DEF MapWork, Known, Mappings, EcosystemTypeOK
<1> QED BY <1>2, NothingLinked DEF MapWork

LEMMA ImportWaitMappings ==
  ASSUME NEW h \in Handlers, Mappings,
         \/ \E s \in Importable, x \in Externals : ImportProject(h, s, x)
         \/ ImportFails(h)
  PROVE  Mappings'
<1>1. run' \in [Handlers -> Selection \cup {None}]
  BY DEF Mappings, EcosystemTypeOK, ImportProject, ImportFails, Selection
<1>2. /\ UNCHANGED <<projects, link, status, belongs, refs, executes, jobs, told, answered>>
  BY DEF ImportProject, ImportFails
<1>3. EcosystemTypeOK'
  BY <1>1, <1>2 DEF Mappings, EcosystemTypeOK
<1> QED BY <1>2, <1>3, NothingLinked

\* What an import that is in flight asks for.
LEMMA RunFacts ==
  ASSUME NEW h \in Handlers, Mappings, run[h] # None
  PROVE  run[h].system \in Systems /\ run[h].system \in Importable /\ run[h].external \in Externals
BY ImportableAssumption DEF Mappings, EcosystemTypeOK, Selection

LEMMA ImportFoundMappings ==
  ASSUME NEW h \in Handlers, NEW p \in Projects, Mappings, ImportFound(h, p)
  PROVE  Mappings'
<1> DEFINE a == [system |-> run[h].system, external |-> run[h].external, project |-> p]
<1>1. /\ run[h].system \in Systems /\ run[h].system \in Importable
      /\ run[h].external \in Externals
      /\ link[p][run[h].system] = run[h].external
  BY RunFacts DEF ImportFound
<1>2. p \in projects
  BY <1>1, NothingAssumption DEF Mappings, UnusedProjects
<1>3. /\ answered' = answered \cup {a}
      /\ run' = [run EXCEPT ![h] = None]
      /\ UNCHANGED <<projects, link, status, belongs, refs, executes, jobs, told>>
  BY DEF ImportFound, Answer
<1>4. a \in [system : Importable, external : Externals, project : projects]
  BY <1>1, <1>2
<1>5. EcosystemTypeOK'
  BY <1>3, <1>4 DEF Mappings, EcosystemTypeOK
<1>6. AnswersStayTrue'
  BY <1>1, <1>3 DEF Mappings, AnswersStayTrue
<1>7. OneProjectPerExternal' /\ UnusedProjects'
  BY <1>3 DEF Mappings, OneProjectPerExternal, UnusedProjects
<1> QED BY <1>5, <1>6, <1>7 DEF Mappings

LEMMA ImportNewMappings ==
  ASSUME NEW h \in Handlers, NEW p \in Projects, Mappings, ImportNew(h, p)
  PROVE  Mappings' /\ NewLink(p, run[h].system, run[h].external)
<1> DEFINE s == run[h].system
           x == run[h].external
           a == [system |-> s, external |-> x, project |-> p]
<1>1. s \in Systems /\ s \in Importable /\ x \in Externals
  BY RunFacts DEF ImportNew
<1>2. p \notin projects /\ projects' = projects \cup {p}
  BY DEF ImportNew
<1>3. NewLink(p, s, x)
  BY <1>1, <1>2 DEF ImportNew, NewLink, Mappings, UnusedProjects
<1>4. /\ link' \in [Projects -> [Systems -> Externals \cup {None}]]
      /\ link'[p][s] = x /\ x # None
      /\ \A q \in Projects, t \in Systems : q # p \/ t # s => link'[q][t] = link[q][t]
      /\ OneProjectPerExternal'
  <2> HIDE DEF s, x
  <2> QED BY <1>1, <1>3, LinkFacts
<1>5. told' \in [Events -> Nat]
  BY <1>1, EventFacts, TellFacts DEF Mappings, EcosystemTypeOK, ImportNew
<1>6. /\ answered' = answered \cup {a}
      /\ run' = [run EXCEPT ![h] = None]
      /\ UNCHANGED <<status, belongs, refs, executes, jobs>>
  BY DEF ImportNew, Answer
<1> HIDE DEF s, x
<1>7. a \in [system : Importable, external : Externals, project : projects']
  BY <1>1, <1>2
<1>8. EcosystemTypeOK'
  BY <1>2, <1>4, <1>5, <1>6, <1>7 DEF Mappings, EcosystemTypeOK
<1>9. AnswersStayTrue'
  <2> SUFFICES ASSUME NEW b \in answered' PROVE link'[b.project][b.system] = b.external
    BY DEF AnswersStayTrue
  <2>1. CASE b = a
    BY <2>1, <1>4
  <2>2. CASE b \in answered
    <3>1. b.project \in projects /\ b.project \in Projects /\ b.system \in Systems
      BY <2>2, ImportableAssumption DEF Mappings, EcosystemTypeOK
    <3>2. link[b.project][b.system] = b.external
      BY <2>2 DEF Mappings, AnswersStayTrue
    <3> QED BY <3>1, <3>2, <1>2, <1>4
  <2> QED BY <2>1, <2>2, <1>6
<1>10. UnusedProjects'
  BY <1>2, <1>4 DEF Mappings, UnusedProjects
<1> QED BY <1>3, <1>4, <1>8, <1>9, <1>10 DEF Mappings, s, x

LEMMA WorkMappings ==
  ASSUME NEW w \in WorkItems, Mappings,
         \/ CreateWork(w)
         \/ \E x \in Statuses : ChangeState(w, x)
         \/ \E s \in Systems, x \in Externals : Attach(w, s, x)
         \/ \E j \in Jobs : LinkJob(w, j)
  PROVE  Mappings'
<1>1. CASE CreateWork(w)
  <2>1. told' \in [Events -> Nat]
    BY <1>1, EventFacts, TellFacts DEF Mappings, EcosystemTypeOK, CreateWork
  <2>2. EcosystemTypeOK'
    BY <1>1, <2>1 DEF CreateWork, Mappings, EcosystemTypeOK, Statuses
  <2> QED BY <1>1, <2>2, NothingLinked DEF CreateWork
<1>2. ASSUME NEW x \in Statuses, ChangeState(w, x) PROVE Mappings'
  <2>1. told' \in [Events -> Nat]
    BY <1>2, EventFacts, TellFacts DEF Mappings, EcosystemTypeOK, ChangeState, Repeats
  <2>2. EcosystemTypeOK'
    BY <1>2, <2>1 DEF ChangeState, Mappings, EcosystemTypeOK
  <2> QED BY <1>2, <2>2, NothingLinked DEF ChangeState
<1>3. ASSUME NEW s \in Systems, NEW x \in Externals, Attach(w, s, x) PROVE Mappings'
  <2>1. told' \in [Events -> Nat]
    BY <1>3, EventFacts, TellFacts DEF Mappings, EcosystemTypeOK, Attach, Repeats
  <2>2. EcosystemTypeOK'
    BY <1>3, <2>1 DEF Attach, Mappings, EcosystemTypeOK, Reference
  <2> QED BY <1>3, <2>2, NothingLinked DEF Attach
<1>4. ASSUME NEW j \in Jobs, LinkJob(w, j) PROVE Mappings'
  <2>1. told' \in [Events -> Nat]
    BY <1>4, EventFacts, TellFacts DEF Mappings, EcosystemTypeOK, LinkJob
  <2>2. EcosystemTypeOK'
    BY <1>4, <2>1 DEF LinkJob, Mappings, EcosystemTypeOK
  <2> QED BY <1>4, <2>2, NothingLinked DEF LinkJob
<1> QED BY <1>1, <1>2, <1>3, <1>4

LEMMA SubmitMappings == ASSUME NEW j \in Jobs, Mappings, Submit(j) PROVE Mappings'
<1>1. EcosystemTypeOK'
  BY DEF Submit, Mappings, EcosystemTypeOK
<1> QED BY <1>1, NothingLinked DEF Submit

LEMMA StepMappings == Mappings /\ [Next]_vars => Mappings'
<1> SUFFICES ASSUME Mappings, [Next]_vars PROVE Mappings'
  OBVIOUS
<1>1. ASSUME NEW p \in Projects, CreateProject(p) PROVE Mappings'
  BY <1>1, CreateProjectMappings
<1>2. ASSUME NEW p \in Projects, NEW s \in Systems, NEW x \in Externals, MapProject(p, s, x)
      PROVE  Mappings'
  BY <1>2, MapProjectMappings
<1>3. ASSUME NEW p \in Projects, NEW w \in WorkItems, MapWork(p, w) PROVE Mappings'
  BY <1>3, MapWorkMappings
<1>4. ASSUME NEW p \in Projects, NEW h \in Handlers, ImportFound(h, p) PROVE Mappings'
  BY <1>4, ImportFoundMappings
<1>5. ASSUME NEW p \in Projects, NEW h \in Handlers, ImportNew(h, p) PROVE Mappings'
  BY <1>5, ImportNewMappings
<1>6. ASSUME NEW h \in Handlers,
             \/ \E s \in Importable, x \in Externals : ImportProject(h, s, x)
             \/ ImportFails(h)
      PROVE  Mappings'
  BY <1>6, ImportWaitMappings
<1>7. ASSUME NEW w \in WorkItems,
             \/ CreateWork(w)
             \/ \E x \in Statuses : ChangeState(w, x)
             \/ \E s \in Systems, x \in Externals : Attach(w, s, x)
             \/ \E j \in Jobs : LinkJob(w, j)
      PROVE  Mappings'
  BY <1>7, WorkMappings
<1>8. ASSUME NEW j \in Jobs, Submit(j) PROVE Mappings'
  BY <1>8, SubmitMappings
<1>9. CASE UNCHANGED vars
  BY <1>9 DEF vars, Mappings, EcosystemTypeOK, OneProjectPerExternal, AnswersStayTrue,
              UnusedProjects
<1> QED BY <1>1, <1>2, <1>3, <1>4, <1>5, <1>6, <1>7, <1>8, <1>9 DEF Next

THEOREM MappingsInvariant == Spec => []Mappings
BY InitMappings, StepMappings, PTL DEF Spec

\* The tables of the ecosystem keep their types and their foreign keys.
THEOREM EcosystemTypeCorrect == Spec => []EcosystemTypeOK
<1>1. Mappings => EcosystemTypeOK
  BY DEF Mappings
<1> QED BY <1>1, MappingsInvariant, PTL

\* No two projects are ever linked to one external project, whichever mappings
\* and imports were in flight at once (map_project, import_project).
THEOREM ExternalHasOneProject == Spec => []OneProjectPerExternal
<1>1. Mappings => OneProjectPerExternal
  BY DEF Mappings
<1> QED BY <1>1, MappingsInvariant, PTL

\* Every import was answered with the project that is linked to what it asked for.
THEOREM ImportsAnswerTheLink == Spec => []AnswersStayTrue
<1>1. Mappings => AnswersStayTrue
  BY DEF Mappings
<1> QED BY <1>1, MappingsInvariant, PTL

-----------------------------------------------------------------------------
(* Links and places stay.                                                  *)

\* No step of any handler moves or removes a link, or a work item's place.
LEMMA StepMovesNothing ==
  ASSUME Mappings, [Next]_vars
  PROVE  /\ \A p \in Projects, s \in Systems : link[p][s] # None => link'[p][s] = link[p][s]
         /\ \A w \in WorkItems : belongs[w] # None => belongs'[w] = belongs[w]
<1> DEFINE Stays ==
  /\ \A p \in Projects, s \in Systems : link[p][s] # None => link'[p][s] = link[p][s]
  /\ \A w \in WorkItems : belongs[w] # None => belongs'[w] = belongs[w]
<1>1. ASSUME NEW p \in Projects, NEW s \in Systems, NEW x \in Externals, MapProject(p, s, x)
      PROVE  Stays
  <2>1. NewLink(p, s, x) /\ belongs' = belongs
    BY <1>1 DEF MapProject, Linkable, NewLink
  <2>2. \A q \in Projects, t \in Systems : q # p \/ t # s => link'[q][t] = link[q][t]
    BY <2>1, LinkFacts
  <2> QED BY <2>1, <2>2 DEF NewLink
<1>2. ASSUME NEW p \in Projects, NEW h \in Handlers, ImportNew(h, p) PROVE Stays
  <2> DEFINE s == run[h].system
             x == run[h].external
  <2>1. s \in Systems /\ x \in Externals /\ NewLink(p, s, x) /\ belongs' = belongs
    BY <1>2, RunFacts, ImportNewMappings DEF ImportNew
  <2> HIDE DEF s, x
  <2>2. \A q \in Projects, t \in Systems : q # p \/ t # s => link'[q][t] = link[q][t]
    BY <2>1, LinkFacts
  <2> QED BY <2>1, <2>2 DEF NewLink
<1>3. ASSUME NEW p \in Projects, NEW w \in WorkItems, MapWork(p, w) PROVE Stays
  BY <1>3 DEF MapWork, Known, Attachable, Mappings, EcosystemTypeOK
<1>4. CASE UNCHANGED <<link, belongs>>
  BY <1>4
<1>5. \/ UNCHANGED <<link, belongs>>
      \/ \E p \in Projects :
           \/ \E s \in Systems, x \in Externals : MapProject(p, s, x)
           \/ \E w \in WorkItems : MapWork(p, w)
           \/ \E h \in Handlers : ImportNew(h, p)
  BY DEF Next, vars, CreateProject, ImportFound, ImportProject, ImportFails, CreateWork,
         ChangeState, Attach, LinkJob, Submit
<1> QED BY <1>1, <1>2, <1>3, <1>4, <1>5

\* "refusing silent reassignment" (ecosystem.py:118): once linked or attached, for
\* ever linked or attached to the same.
THEOREM NothingEverMoves == Spec => NothingMoves
<1>1. Mappings /\ [Next]_vars =>
        [/\ \A p \in Projects, s \in Systems : link[p][s] # None => link'[p][s] = link[p][s]
         /\ \A w \in WorkItems : belongs[w] # None => belongs'[w] = belongs[w]]_vars
  BY StepMovesNothing
<1> QED BY <1>1, MappingsInvariant, PTL DEF Spec, NothingMoves

-----------------------------------------------------------------------------
(* The events.                                                             *)

LEMMA InitTold == Init => ToldOnce
<1> SUFFICES ASSUME Init PROVE ToldOnce
  OBVIOUS
<1>1. \A e \in Events : told[e] = 0
  BY DEF Init
<1> QED BY <1>1, EventFacts, NothingAssumption
    DEF Init, ToldOnce, LinksTold, PlacesTold, WorkTold, JobsTold, Once, Exists

\* An event of another kind leaves the count of a kind alone.
LEMMA OtherKinds ==
  ASSUME NEW e \in Events, told \in [Events -> Nat], Tell(e), ToldOnce
  PROVE  /\ /\ link' = link
            /\ e[1] \notin {"project.mapped", "project.imported"}
            => LinksTold'
         /\ belongs' = belongs /\ e[1] # "project.work_attached" => PlacesTold'
         /\ status' = status /\ e[1] # "work.created" => WorkTold'
         /\ executes' = executes /\ e[1] # "work.job_linked" => JobsTold'
<1>1. \A d \in Events : d # e => told'[d] = told[d]
  BY TellFacts
<1>2. ASSUME link' = link, e[1] \notin {"project.mapped", "project.imported"}
      PROVE  LinksTold'
  BY <1>1, <1>2, EventFacts, KindFacts DEF ToldOnce, LinksTold
<1>3. ASSUME belongs' = belongs, e[1] # "project.work_attached" PROVE PlacesTold'
  BY <1>1, <1>3, EventFacts, KindFacts DEF ToldOnce, PlacesTold
<1>4. ASSUME status' = status, e[1] # "work.created" PROVE WorkTold'
  BY <1>1, <1>4, EventFacts, KindFacts DEF ToldOnce, WorkTold, Exists
<1>5. ASSUME executes' = executes, e[1] # "work.job_linked" PROVE JobsTold'
  <2>1. ASSUME NEW w \in WorkItems, NEW j \in Jobs
        PROVE  told'[JobLinked(w, j)] = told[JobLinked(w, j)]
    BY <1>1, <1>5, EventFacts, KindFacts
  <2> QED BY <2>1, <1>5 DEF ToldOnce, JobsTold
<1> QED BY <1>2, <1>3, <1>4, <1>5

\* One new link and one event of it, of either kind.
LEMMA NewLinkTold ==
  ASSUME NEW p \in Projects, NEW s \in Systems, NEW x \in Externals, Mappings, ToldOnce,
         NewLink(p, s, x),
         NEW e \in {ProjectMapped(p, s), ProjectImported(p, s)}, Tell(e)
  PROVE  LinksTold'
<1>1. e \in Events /\ told \in [Events -> Nat]
  BY EventFacts DEF Mappings, EcosystemTypeOK
<1>2. /\ told' \in [Events -> Nat]
      /\ told'[e] = told[e] + 1
      /\ \A d \in Events : d # e => told'[d] = told[d]
  BY <1>1, TellFacts
<1>3. /\ link[p][s] = None /\ link'[p][s] # None
      /\ \A q \in Projects, t \in Systems : q # p \/ t # s => link'[q][t] = link[q][t]
  BY LinkFacts DEF NewLink
<1> SUFFICES ASSUME NEW q \in Projects, NEW t \in Systems
             PROVE  Once(link'[q][t] # None,
                         told'[ProjectMapped(q, t)] + told'[ProjectImported(q, t)])
  BY DEF LinksTold
<1> DEFINE m == ProjectMapped(q, t)
           i == ProjectImported(q, t)
<1>4. /\ m \in Events /\ i \in Events
      /\ told[m] \in Nat /\ told[i] \in Nat
      /\ told'[m] \in Nat /\ told'[i] \in Nat
      /\ m # i
      /\ Once(link[q][t] # None, told[m] + told[i])
  BY <1>1, <1>2, EventFacts, KindFacts DEF ToldOnce, LinksTold
<1>5. CASE q = p /\ t = s
  <2>1. told[m] + told[i] = 0
    BY <1>3, <1>4, <1>5 DEF Once
  <2>2. \/ e = m /\ told'[m] = told[m] + 1 /\ told'[i] = told[i]
        \/ e = i /\ told'[i] = told[i] + 1 /\ told'[m] = told[m]
    BY <1>2, <1>4, <1>5
  <2> HIDE DEF m, i
  <2>3. told'[m] + told'[i] = 1
    BY <1>4, <2>1, <2>2
  <2> QED BY <1>3, <1>5, <2>3 DEF Once, m, i
<1>6. CASE ~(q = p /\ t = s)
  <2>1. e # m /\ e # i
    BY <1>6, KindFacts
  <2>2. told'[m] = told[m] /\ told'[i] = told[i]
    BY <2>1, <1>2, <1>4
  <2>3. link'[q][t] = link[q][t]
    BY <1>3, <1>6
  <2> QED BY <1>4, <2>2, <2>3
<1> QED BY <1>5, <1>6

LEMMA NewPlaceTold ==
  ASSUME NEW p \in Projects, NEW w \in WorkItems, Mappings, ToldOnce, MapWork(p, w)
  PROVE  PlacesTold'
<1>1. /\ told' \in [Events -> Nat]
      /\ told'[WorkAttached(p, w)] = told[WorkAttached(p, w)] + 1
      /\ \A d \in Events : d # WorkAttached(p, w) => told'[d] = told[d]
  BY EventFacts, TellFacts DEF Mappings, EcosystemTypeOK, MapWork
<1>2. belongs[w] = None /\ belongs'[w] = p /\ \A v \in WorkItems \ {w} : belongs'[v] = belongs[v]
  BY DEF MapWork, Known, Attachable, Mappings, EcosystemTypeOK
<1> SUFFICES ASSUME NEW q \in Projects, NEW v \in WorkItems
             PROVE  Once(belongs'[v] = q, told'[WorkAttached(q, v)])
  BY DEF PlacesTold
<1>3. Once(belongs[v] = q, told[WorkAttached(q, v)])
  BY DEF ToldOnce, PlacesTold
<1>4. CASE v = w /\ q = p
  <2>1. belongs[v] # q
    BY <1>2, <1>4, NothingAssumption
  <2> QED BY <1>1, <1>2, <1>3, <1>4, <2>1 DEF Once
<1>5. CASE v = w /\ q # p
  <2>1. belongs[v] # q /\ belongs'[v] # q
    BY <1>2, <1>5, NothingAssumption
  <2>2. told'[WorkAttached(q, v)] = told[WorkAttached(q, v)]
    BY <1>1, <1>5, EventFacts, KindFacts
  <2> QED BY <1>3, <2>1, <2>2 DEF Once
<1>6. CASE v # w
  <2>1. told'[WorkAttached(q, v)] = told[WorkAttached(q, v)]
    BY <1>1, <1>6, EventFacts, KindFacts
  <2> QED BY <1>2, <1>3, <1>6, <2>1
<1> QED BY <1>4, <1>5, <1>6

LEMMA NewWorkTold ==
  ASSUME NEW w \in WorkItems, Mappings, ToldOnce, CreateWork(w)
  PROVE  WorkTold'
<1>1. /\ told' \in [Events -> Nat]
      /\ told'[WorkCreated(w)] = told[WorkCreated(w)] + 1
      /\ \A d \in Events : d # WorkCreated(w) => told'[d] = told[d]
  BY EventFacts, TellFacts DEF Mappings, EcosystemTypeOK, CreateWork
<1>2. status[w] = None /\ status'[w] = "OPEN" /\ \A v \in WorkItems \ {w} : status'[v] = status[v]
  BY DEF CreateWork, Exists, Mappings, EcosystemTypeOK
<1> SUFFICES ASSUME NEW v \in WorkItems PROVE Once(status'[v] # None, told'[WorkCreated(v)])
  BY DEF WorkTold, Exists
<1>3. Once(status[v] # None, told[WorkCreated(v)])
  BY DEF ToldOnce, WorkTold, Exists
<1>4. CASE v = w
  <2>1. "OPEN" # None
    BY StatusAssumption DEF Statuses
  <2> QED BY <1>1, <1>2, <1>3, <1>4, <2>1 DEF Once
<1>5. CASE v # w
  <2>1. told'[WorkCreated(v)] = told[WorkCreated(v)]
    BY <1>1, <1>5, EventFacts, KindFacts
  <2> QED BY <1>2, <1>3, <1>5, <2>1
<1> QED BY <1>4, <1>5

LEMMA NewExecutionTold ==
  ASSUME NEW w \in WorkItems, NEW j \in Jobs, Mappings, ToldOnce, LinkJob(w, j)
  PROVE  JobsTold'
<1>1. /\ told' \in [Events -> Nat]
      /\ told'[JobLinked(w, j)] = told[JobLinked(w, j)] + 1
      /\ \A d \in Events : d # JobLinked(w, j) => told'[d] = told[d]
  BY EventFacts, TellFacts DEF Mappings, EcosystemTypeOK, LinkJob
<1>2. <<w, j>> \notin executes /\ executes' = executes \cup {<<w, j>>}
  BY DEF LinkJob, Inserted
<1> SUFFICES ASSUME NEW v \in WorkItems, NEW k \in Jobs
             PROVE  Once(<<v, k>> \in executes', told'[JobLinked(v, k)])
  BY DEF JobsTold
<1>3. Once(<<v, k>> \in executes, told[JobLinked(v, k)])
  BY DEF ToldOnce, JobsTold
<1>4. CASE v = w /\ k = j
  BY <1>1, <1>2, <1>3, <1>4 DEF Once
<1>5. CASE ~(v = w /\ k = j)
  <2>1. told'[JobLinked(v, k)] = told[JobLinked(v, k)]
    BY <1>1, <1>5, EventFacts, KindFacts
  <2> QED BY <1>2, <1>3, <1>5, <2>1
<1> QED BY <1>4, <1>5

LEMMA StepTold == Mappings /\ ToldOnce /\ [Next]_vars => ToldOnce'
<1> SUFFICES ASSUME Mappings, ToldOnce, [Next]_vars PROVE ToldOnce'
  OBVIOUS
<1> told \in [Events -> Nat]
  BY DEF Mappings, EcosystemTypeOK
<1>1. ASSUME NEW p \in Projects, CreateProject(p) PROVE ToldOnce'
  BY <1>1, OtherKinds, EventFacts, KindFacts DEF CreateProject, ToldOnce
<1>2. ASSUME NEW p \in Projects, NEW s \in Systems, NEW x \in Externals, MapProject(p, s, x)
      PROVE  ToldOnce'
  <2>1. NewLink(p, s, x) /\ Tell(ProjectMapped(p, s))
    BY <1>2 DEF MapProject, Linkable, NewLink
  <2>2. LinksTold'
    BY <2>1, NewLinkTold
  <2> QED BY <1>2, <2>1, <2>2, OtherKinds, EventFacts, KindFacts DEF MapProject, ToldOnce
<1>3. ASSUME NEW p \in Projects, NEW h \in Handlers, ImportNew(h, p) PROVE ToldOnce'
  <2> DEFINE s == run[h].system
             x == run[h].external
  <2>1. s \in Systems /\ x \in Externals /\ NewLink(p, s, x) /\ Tell(ProjectImported(p, s))
    BY <1>3, RunFacts, ImportNewMappings DEF ImportNew
  <2> HIDE DEF s, x
  <2>2. LinksTold'
    BY <2>1, NewLinkTold
  <2> QED BY <1>3, <2>1, <2>2, OtherKinds, EventFacts, KindFacts DEF ImportNew, ToldOnce
<1>4. ASSUME NEW p \in Projects, NEW w \in WorkItems, MapWork(p, w) PROVE ToldOnce'
  BY <1>4, NewPlaceTold, OtherKinds, EventFacts, KindFacts DEF MapWork, ToldOnce
<1>5. ASSUME NEW w \in WorkItems, CreateWork(w) PROVE ToldOnce'
  BY <1>5, NewWorkTold, OtherKinds, EventFacts, KindFacts DEF CreateWork, ToldOnce
<1>6. ASSUME NEW w \in WorkItems, NEW x \in Statuses, ChangeState(w, x) PROVE ToldOnce'
  <2>1. /\ Tell(StatusChanged(w)) /\ UNCHANGED <<link, belongs, executes>>
        /\ Exists(w) /\ status' = [status EXCEPT ![w] = x]
    BY <1>6 DEF ChangeState, Repeats
  <2>2. LinksTold' /\ PlacesTold' /\ JobsTold'
    BY <2>1, OtherKinds, EventFacts, KindFacts
  <2>3. \A v \in WorkItems : (status'[v] # None) = (status[v] # None)
    <3>1. status \in [WorkItems -> Statuses \cup {None}]
      BY DEF Mappings, EcosystemTypeOK
    <3>2. status'[w] # None /\ \A v \in WorkItems \ {w} : status'[v] = status[v]
      BY <2>1, <3>1, StatusAssumption
    <3> QED BY <2>1, <3>2 DEF Exists
  <2>4. \A v \in WorkItems : told'[WorkCreated(v)] = told[WorkCreated(v)]
    BY <2>1, TellFacts, EventFacts, KindFacts
  <2>5. WorkTold'
    BY <2>3, <2>4 DEF ToldOnce, WorkTold, Exists, Once
  <2> QED BY <2>2, <2>5 DEF ToldOnce
<1>7. ASSUME NEW w \in WorkItems, NEW s \in Systems, NEW x \in Externals, Attach(w, s, x)
      PROVE  ToldOnce'
  BY <1>7, OtherKinds, EventFacts, KindFacts DEF Attach, Repeats, ToldOnce
<1>8. ASSUME NEW w \in WorkItems, NEW j \in Jobs, LinkJob(w, j) PROVE ToldOnce'
  BY <1>8, NewExecutionTold, OtherKinds, EventFacts, KindFacts DEF LinkJob, ToldOnce
<1>9. CASE UNCHANGED <<link, belongs, status, executes, told>>
  BY <1>9 DEF ToldOnce, LinksTold, PlacesTold, WorkTold, JobsTold, Exists
<1>10. \/ UNCHANGED <<link, belongs, status, executes, told>>
       \/ \E p \in Projects :
            \/ CreateProject(p)
            \/ \E s \in Systems, x \in Externals : MapProject(p, s, x)
            \/ \E w \in WorkItems : MapWork(p, w)
            \/ \E h \in Handlers : ImportNew(h, p)
       \/ \E w \in WorkItems :
            \/ CreateWork(w)
            \/ \E x \in Statuses : ChangeState(w, x)
            \/ \E s \in Systems, x \in Externals : Attach(w, s, x)
            \/ \E j \in Jobs : LinkJob(w, j)
  BY DEF Next, vars, ImportFound, ImportProject, ImportFails, Submit
<1> QED BY <1>1, <1>2, <1>3, <1>4, <1>5, <1>6, <1>7, <1>8, <1>9, <1>10

\* The events table tells of every link, place, work item and execution exactly once.
THEOREM EventsTellOnce == Spec => []ToldOnce
<1>1. Init => Mappings /\ ToldOnce
  BY InitMappings, InitTold
<1>2. Mappings /\ ToldOnce /\ [Next]_vars => (Mappings /\ ToldOnce)'
  BY StepMappings, StepTold
<1> QED BY <1>1, <1>2, PTL DEF Spec
=============================================================================
