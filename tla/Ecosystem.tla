----------------------------- MODULE Ecosystem -----------------------------
(***************************************************************************)
(* The operator's work across applications: ecosystem.py, and the import   *)
(* of a module's project, identity_bridge.py:import_project.  Projects are *)
(* linked to external projects, work belongs to projects, and refers to    *)
(* external records and to jobs.  Every handler is one transaction; only   *)
(* an import first awaits the module's list of projects.                   *)
(*                                                                         *)
(* Names, descriptions and notes are left out, and the new status in its   *)
(* event.  The rows of the events table are counted by what they say;      *)
(* their order is left out too.                                            *)
(***************************************************************************)
EXTENDS Naturals

CONSTANTS
  Projects,    \* identifiers of projects, each a fresh uuid
  WorkItems,   \* identifiers of work
  Jobs,        \* identifiers in the table of jobs
  Systems,     \* the applications
  Importable,  \* those whose projects can be imported
  Externals,   \* identifiers in the applications
  Handlers,    \* imports that can be in flight at once
  MaxChanges,  \* bound: events of one content, of the handlers that repeat them
  None

Statuses == {"OPEN", "IN_PROGRESS", "BLOCKED", "DONE"}

ASSUME ImportableAssumption == Importable \subseteq Systems
ASSUME EcosystemBound == MaxChanges \in Nat
ASSUME NothingAssumption == None \notin Projects \cup Externals
ASSUME StatusAssumption == None \notin Statuses

VARIABLES
  projects,  \* table ecosystem_projects
  link,      \* table ecosystem_project_links
  status,    \* table ecosystem_work
  belongs,   \* table ecosystem_project_work
  refs,      \* table ecosystem_refs
  executes,  \* table ecosystem_jobs
  jobs,      \* the jobs there are
  told,      \* table events: how often each event was written
  run,       \* what each import in flight asks for
  answered   \* what imports were answered

vars == <<projects, link, status, belongs, refs, executes, jobs, told, run, answered>>

Reference == [work : WorkItems, system : Systems, external : Externals]
Selection == [system : Importable, external : Externals]

\* The events, by type and payload.
ProjectCreated(p) == <<"project.created", p>>
ProjectMapped(p, s) == <<"project.mapped", p, s>>
ProjectImported(p, s) == <<"project.imported", p, s>>
WorkAttached(p, w) == <<"project.work_attached", p, w>>
WorkCreated(w) == <<"work.created", w>>
StatusChanged(w) == <<"work.status_changed", w>>
ReferenceAttached(w, s) == <<"work.reference_attached", w, s>>
JobLinked(w, j) == <<"work.job_linked", w, j>>

Events ==
  {ProjectCreated(p) : p \in Projects}
  \cup {ProjectMapped(p, s) : p \in Projects, s \in Systems}
  \cup {ProjectImported(p, s) : p \in Projects, s \in Systems}
  \cup {WorkAttached(p, w) : p \in Projects, w \in WorkItems}
  \cup {WorkCreated(w) : w \in WorkItems}
  \cup {StatusChanged(w) : w \in WorkItems}
  \cup {ReferenceAttached(w, s) : w \in WorkItems, s \in Systems}
  \cup {JobLinked(w, j) : w \in WorkItems, j \in Jobs}

Tell(e) == told' = [told EXCEPT ![e] = @ + 1]
Repeats(e) == told[e] < MaxChanges /\ Tell(e)

\* require_work and require_project: anything else is answered with 404.
Exists(w) == status[w] # None
Known(p) == p \in projects

Init ==
  /\ projects = {}
  /\ link = [p \in Projects |-> [s \in Systems |-> None]]
  /\ status = [w \in WorkItems |-> None]
  /\ belongs = [w \in WorkItems |-> None]
  /\ refs = {}
  /\ executes = {}
  /\ jobs = {}
  /\ told = [e \in Events |-> 0]
  /\ run = [h \in Handlers |-> None]
  /\ answered = {}

-----------------------------------------------------------------------------
(* Projects.                                                               *)

CreateProject(p) ==
  /\ p \notin projects
  /\ projects' = projects \cup {p}
  /\ Tell(ProjectCreated(p))
  /\ UNCHANGED <<link, status, belongs, refs, executes, jobs, run, answered>>

\* The unique key of external projects: another project has it.
NeverTaken(s, x) == FALSE
Taken(s, x) == \E p \in Projects : link[p][s] = x

LinkableUnlessSame(p, s, x) == link[p][s] # x
\* A project that is linked keeps its link: the same again changes nothing, and
\* another one is answered with 409.
Linkable(p, s, x) == link[p][s] = None

MapProject(p, s, x) ==
  /\ Known(p)
  /\ Linkable(p, s, x)
  /\ ~Taken(s, x)
  /\ link' = [link EXCEPT ![p][s] = x]
  /\ Tell(ProjectMapped(p, s))
  /\ UNCHANGED <<projects, status, belongs, refs, executes, jobs, run, answered>>

AttachableAnywhere(w, p) == belongs[w] # p
Attachable(w, p) == belongs[w] = None

MapWork(p, w) ==
  /\ Known(p)
  /\ Exists(w)
  /\ Attachable(w, p)
  /\ belongs' = [belongs EXCEPT ![w] = p]
  /\ Tell(WorkAttached(p, w))
  /\ UNCHANGED <<projects, link, status, refs, executes, jobs, run, answered>>

-----------------------------------------------------------------------------
(* Import of a module's project.                                           *)

\* The handler awaits the list and selects the project in it.
ImportProject(h, s, x) ==
  /\ run[h] = None
  /\ run' = [run EXCEPT ![h] = [system |-> s, external |-> x]]
  /\ UNCHANGED <<projects, link, status, belongs, refs, executes, jobs, told, answered>>

\* The module does not answer, or has no such project.
ImportFails(h) ==
  /\ run[h] # None
  /\ run' = [run EXCEPT ![h] = None]
  /\ UNCHANGED <<projects, link, status, belongs, refs, executes, jobs, told, answered>>

Answer(h, p) ==
  /\ run' = [run EXCEPT ![h] = None]
  /\ answered' = answered \cup
       {[system |-> run[h].system, external |-> run[h].external, project |-> p]}

\* It is linked already, perhaps since this handler began to wait.
ImportFound(h, p) ==
  /\ run[h] # None
  /\ link[p][run[h].system] = run[h].external
  /\ Answer(h, p)
  /\ UNCHANGED <<projects, link, status, belongs, refs, executes, jobs, told>>

ImportNew(h, p) ==
  /\ run[h] # None
  /\ ~Taken(run[h].system, run[h].external)
  /\ p \notin projects
  /\ projects' = projects \cup {p}
  /\ link' = [link EXCEPT ![p][run[h].system] = run[h].external]
  /\ Tell(ProjectImported(p, run[h].system))
  /\ Answer(h, p)
  /\ UNCHANGED <<status, belongs, refs, executes, jobs>>

-----------------------------------------------------------------------------
(* Work.                                                                   *)

CreateWork(w) ==
  /\ ~Exists(w)
  /\ status' = [status EXCEPT ![w] = "OPEN"]
  /\ Tell(WorkCreated(w))
  /\ UNCHANGED <<projects, link, belongs, refs, executes, jobs, run, answered>>

\* Any status follows any other, and is told even if it is the same.
ChangeState(w, x) ==
  /\ Exists(w)
  /\ status' = [status EXCEPT ![w] = x]
  /\ Repeats(StatusChanged(w))
  /\ UNCHANGED <<projects, link, belongs, refs, executes, jobs, run, answered>>

\* A reference that is there gets the new note.
Attach(w, s, x) ==
  /\ Exists(w)
  /\ refs' = refs \cup {[work |-> w, system |-> s, external |-> x]}
  /\ Repeats(ReferenceAttached(w, s))
  /\ UNCHANGED <<projects, link, status, belongs, executes, jobs, run, answered>>

InsertedAlways(w, j) == TRUE
\* INSERT OR IGNORE tells whether there was anything to insert.
Inserted(w, j) == <<w, j>> \notin executes

LinkJob(w, j) ==
  /\ Exists(w)
  /\ j \in jobs
  /\ Inserted(w, j)
  /\ executes' = executes \cup {<<w, j>>}
  /\ Tell(JobLinked(w, j))
  /\ UNCHANGED <<projects, link, status, belongs, refs, jobs, run, answered>>

\* The job table gets a job; jobs are never deleted.
Submit(j) ==
  /\ jobs' = jobs \cup {j}
  /\ UNCHANGED <<projects, link, status, belongs, refs, executes, told, run, answered>>

Next ==
  \/ \E p \in Projects :
       \/ CreateProject(p)
       \/ \E s \in Systems, x \in Externals : MapProject(p, s, x)
       \/ \E w \in WorkItems : MapWork(p, w)
       \/ \E h \in Handlers : ImportFound(h, p) \/ ImportNew(h, p)
  \/ \E h \in Handlers :
       \/ \E s \in Importable, x \in Externals : ImportProject(h, s, x)
       \/ ImportFails(h)
  \/ \E w \in WorkItems :
       \/ CreateWork(w)
       \/ \E x \in Statuses : ChangeState(w, x)
       \/ \E s \in Systems, x \in Externals : Attach(w, s, x)
       \/ \E j \in Jobs : LinkJob(w, j)
  \/ \E j \in Jobs : Submit(j)

Spec == Init /\ [][Next]_vars

-----------------------------------------------------------------------------
(* Properties.                                                             *)

\* The tables keep their types and their foreign keys.
EcosystemTypeOK ==
  /\ projects \in SUBSET Projects
  /\ link \in [Projects -> [Systems -> Externals \cup {None}]]
  /\ status \in [WorkItems -> Statuses \cup {None}]
  /\ belongs \in [WorkItems -> projects \cup {None}]
  /\ refs \in SUBSET Reference
  /\ executes \in SUBSET (WorkItems \X jobs)
  /\ jobs \in SUBSET Jobs
  /\ told \in [Events -> Nat]
  /\ run \in [Handlers -> Selection \cup {None}]
  /\ answered \in SUBSET [system : Importable, external : Externals, project : projects]

\* An external project is linked to one project, whoever linked it: the operator,
\* an import, or several imports that all waited for the module's list.
OneProjectPerExternal ==
  \A p, q \in Projects, s \in Systems :
    link[p][s] # None /\ link[p][s] = link[q][s] => p = q

\* An answer to an import stays true: the project it named is still linked to
\* what was asked for.  With OneProjectPerExternal, imports that were repeated or
\* raced were all answered with one project.
AnswersStayTrue == \A a \in answered : link[a.project][a.system] = a.external

\* A link or a place in a project is never moved or removed ("refusing silent
\* reassignment", ecosystem.py:118), whatever is mapped and imported in between.
NothingMoves ==
  [][/\ \A p \in Projects, s \in Systems : link[p][s] # None => link'[p][s] = link[p][s]
     /\ \A w \in WorkItems : belongs[w] # None => belongs'[w] = belongs[w]]_vars

Once(row, n) == n = IF row THEN 1 ELSE 0

LinksTold ==
  \A p \in Projects, s \in Systems :
    Once(link[p][s] # None, told[ProjectMapped(p, s)] + told[ProjectImported(p, s)])
PlacesTold == \A p \in Projects, w \in WorkItems : Once(belongs[w] = p, told[WorkAttached(p, w)])
WorkTold == \A w \in WorkItems : Once(Exists(w), told[WorkCreated(w)])
JobsTold == \A w \in WorkItems, j \in Jobs : Once(<<w, j>> \in executes, told[JobLinked(w, j)])

\* The events tell of each row exactly once, though most handlers can be repeated,
\* and an import stands for the creation of its project and its first link.
ToldOnce == LinksTold /\ PlacesTold /\ WorkTold /\ JobsTold
=============================================================================
