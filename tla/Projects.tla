------------------------------ MODULE Projects ------------------------------
(***************************************************************************)
(* The project and application services of the API server                  *)
(* (server/project/project.go, server/application/application.go): the      *)
(* handlers that create, change and delete AppProjects and Applications,     *)
(* each a sequence of calls to the Kubernetes API, run concurrently and      *)
(* kept apart by projectLock, the KeyLock of the server instance they run    *)
(* on (module KeyLock; here taking a free lock is one step).                 *)
(*                                                                          *)
(* What belongs together is spread over two kinds of objects that no         *)
(* transaction spans: an application names its project and may use only      *)
(* what that project grants.  The handlers check one kind and write the       *)
(* other.  Some read before they lock, one overwrites on conflict, and a      *)
(* restart on changed settings makes a new projectLock while handlers of the  *)
(* old instance still run.                                                    *)
(***************************************************************************)
EXTENDS Naturals, FiniteSets

CONSTANTS
  Procs,            \* handlers that may be in flight together
  Apps,             \* names of applications
  Names,            \* names of projects
  Tokens,           \* issue times of project tokens
  URLs,             \* repository URLs, of those that parse
  Dests,            \* destinations <<server, namespace>>, wildcards included
  NormalizeGitURL,  \* the normal form of each URL
  Workloads,        \* what clients ask for: sets of requests
  MaxInstances,     \* bound: server instances over the life of the process
  None              \* no object

DefaultAppProjectName == "default"

ProjectOps == {"ProjectCreate", "ProjectUpdate", "ProjectDelete",
               "CreateToken", "DeleteToken"}
AppOps == {"AppCreate", "AppUpdate", "AppUpdateSpec", "AppDelete"}

ProjectSpecs == [dests : SUBSET Dests, sources : SUBSET (URLs \union {"*"})]
AppSpecs == [project : Names \union {""}, dest : Dests, source : URLs]
ProjectObjs == [dests : SUBSET Dests, sources : SUBSET (URLs \union {"*"}),
                tokens : SUBSET Tokens]
AppObjs == [spec : AppSpecs, cascade : BOOLEAN, deleting : BOOLEAN]

\* What a request names and carries.
WellFormed(q) ==
  /\ q \in [op : ProjectOps \union AppOps, name : Names \union Apps,
            spec : ProjectSpecs \union AppSpecs \union {None}, flag : BOOLEAN,
            token : Tokens \union {None}]
  /\ q.name \in Names <=> q.op \in ProjectOps
  /\ q.op \in {"ProjectCreate", "ProjectUpdate"} => q.spec \in ProjectSpecs
  /\ q.op \in {"AppCreate", "AppUpdate", "AppUpdateSpec"} => q.spec \in AppSpecs
  /\ q.op = "DeleteToken" => q.token \in Tokens

ASSUME ProjectsAssumption ==
  /\ DefaultAppProjectName \in Names /\ "" \notin Names
  /\ Apps \cap Names = {}
  /\ Dests \subseteq STRING \X STRING /\ <<"*", "*">> \in Dests
  /\ NormalizeGitURL \in [URLs -> URLs] /\ "*" \notin URLs
  /\ \A u \in URLs : NormalizeGitURL[NormalizeGitURL[u]] = NormalizeGitURL[u]
  /\ MaxInstances \in Nat \ {0}
  /\ \A w \in Workloads : \A q \in w : WellFormed(q)
  /\ None \notin ProjectObjs \union AppObjs \union UNION Workloads

Requests == UNION Workloads

VARIABLES
  clients,   \* what the clients ask for in this behaviour
  projects,  \* the stored AppProjects
  apps,      \* the stored Applications
  call,      \* the request of each handler
  pc,        \* the next step of each handler
  obj,       \* the object a handler has read and will write back
  old,       \* the project that project Update compares with
  fresh,     \* handlers whose obj has the stored object's resourceVersion
  instance,  \* the server instance that accepts connections
  inst,      \* the instance each handler runs on
  mixed,     \* history: handlers of two instances were in flight together
  live,      \* history: tokens that were added and not deleted, per project
  dropped    \* history: applications whose project lost a wildcard since their write

vars == <<clients, projects, apps, call, pc, obj, old, fresh, instance, inst,
          mixed, live, dropped>>

\* Steps before the handler has its lock; at every other step it holds it.
Outside == {"idle", "get", "post", "lock"}
Inside == {"check", "list", "remove", "token", "replace", "validate", "create",
           "existing", "load", "reload", "write", "patch", "delete"}

Project(spec, tokens) == [dests |-> spec.dests, sources |-> spec.sources,
                          tokens |-> tokens]
App(spec, cascade, deleting) == [spec |-> spec, cascade |-> cascade,
                                 deleting |-> deleting]

-----------------------------------------------------------------------------
\* What a project grants.

\* spec.GetProject: no project means the default one.
GetProject(spec) ==
  IF spec.project = "" THEN DefaultAppProjectName ELSE spec.project

IsSourcePermitted(proj, url) ==
  \E s \in proj.sources :
     IF s = "*" THEN TRUE ELSE NormalizeGitURL[s] = NormalizeGitURL[url]

IsDestinationPermitted(proj, dst) ==
  \E item \in proj.dests : /\ item[1] \in {dst[1], "*"}
                           /\ item[2] \in {dst[2], "*"}

\* The conditions of GetSpecErrors that depend on the project: a
\* destination is looked at only when both of its parts are given.
Permitted(proj, spec) ==
  /\ IsSourcePermitted(proj, spec.source)
  /\ ("" \notin {spec.dest[1], spec.dest[2]})
       => IsDestinationPermitted(proj, spec.dest)

\* Fault: an empty project name is stored as it is.
Defaulted_Kept(spec) == [project |-> spec.project, dest |-> spec.dest,
                         source |-> spec.source]

\* GetSpecErrors leaves the default project's name in an empty field.
Defaulted(spec) == [project |-> GetProject(spec), dest |-> spec.dest,
                    source |-> spec.source]

\* ValidateProject stores the normal form of every source repository.
ValidateProject(spec) ==
  [dests |-> spec.dests,
   sources |-> {IF s = "*" THEN s ELSE NormalizeGitURL[s] : s \in spec.sources}]

\* The applications of project n.
FilterByProjects(n) == {a \in Apps : apps[a] # None /\ GetProject(apps[a].spec) = n}

getRemovedDestination(oldProj, newProj) == oldProj.dests \ newProj.dests
getRemovedSources(oldProj, newProj) == oldProj.sources \ newProj.sources

\* Fault: removed sources are not looked up among the applications'.
RemovedUsed_DestinationsOnly(n, oldProj, newProj) ==
  \E a \in FilterByProjects(n) :
     apps[a].spec.dest \in getRemovedDestination(oldProj, newProj)

\* An application of project n uses, literally, an entry that goes away.
RemovedUsed(n, oldProj, newProj) ==
  \E a \in FilterByProjects(n) :
     \/ apps[a].spec.dest \in getRemovedDestination(oldProj, newProj)
     \/ apps[a].spec.source \in getRemovedSources(oldProj, newProj)

HasWildcard(entries) == \E e \in entries : e[1] = "*" \/ e[2] = "*"
DropsWildcard(oldProj, newProj) ==
  \/ "*" \in getRemovedSources(oldProj, newProj)
  \/ HasWildcard(getRemovedDestination(oldProj, newProj))

-----------------------------------------------------------------------------
\* Requests and steps.

Op(r) == call[r].op
Name(r) == call[r].name

Stored(n) == IF n \in Names THEN projects[n] ELSE apps[n]

\* Project handlers lock the project of the request, application handlers the
\* project of the spec they were sent, as it was sent, and Delete the one of
\* the application it has read.
LockKey(r) ==
  CASE Op(r) \in ProjectOps -> Name(r)
    [] Op(r) = "AppDelete"  -> IF obj[r] = None THEN "" ELSE obj[r].spec.project
    [] OTHER                -> call[r].spec.project

FirstStep(op) ==
  CASE op = "ProjectCreate" -> "post"
    [] op \in {"ProjectUpdate", "CreateToken", "DeleteToken", "AppUpdate",
               "AppDelete"} -> "get"
    [] OTHER -> "lock"

AfterLock(op) ==
  CASE op \in {"ProjectUpdate", "ProjectDelete"} -> "check"
    [] op \in {"CreateToken", "DeleteToken"}     -> "token"
    [] op \in {"AppCreate", "AppUpdate"}         -> "validate"
    [] op = "AppUpdateSpec"                      -> "load"
    [] OTHER                                     -> "patch"

Goto(r, step) == pc' = [pc EXCEPT ![r] = step] /\ UNCHANGED <<call, inst>>

Return(r) ==
  /\ call' = [call EXCEPT ![r] = None]
  /\ pc' = [pc EXCEPT ![r] = "idle"]
  /\ obj' = [obj EXCEPT ![r] = None]
  /\ old' = [old EXCEPT ![r] = None]
  /\ inst' = [inst EXCEPT ![r] = 0]

\* The object as read, with what the request changes in it: a project's grants,
\* an application's spec.
Edited(r) ==
  LET o == Stored(Name(r))
  IN CASE Op(r) = "ProjectUpdate" -> Project(ValidateProject(call[r].spec), o.tokens)
       [] Op(r) \in {"AppCreate", "AppUpdate", "AppUpdateSpec"}
                                 -> App(Defaulted(call[r].spec), o.cascade, o.deleting)
       [] OTHER                  -> o

\* The handler reads its object; with it comes the resourceVersion.
Read(r) ==
  /\ obj' = [obj EXCEPT ![r] = Edited(r)]
  /\ fresh' = fresh \union {r}

\* A write of object n leaves every copy of it with an old resourceVersion.
Touch(n) == fresh' = {s \in fresh : Name(s) # n}

\* Fault: an Update is accepted whatever its resourceVersion.
UpdateAccepted_Blind(r) == Stored(Name(r)) # None

\* An Update is accepted when it carries the stored resourceVersion.
UpdateAccepted(r) == r \in fresh /\ Stored(Name(r)) # None

-----------------------------------------------------------------------------
\* The server makes the default project, which grants everything, at its start.
initializeDefaultProject ==
  [n \in Names |-> IF n = DefaultAppProjectName
                   THEN [dests |-> {<<"*", "*">>}, sources |-> {"*"}, tokens |-> {}]
                   ELSE None]

Init ==
  /\ clients \in Workloads
  /\ projects = initializeDefaultProject
  /\ apps = [a \in Apps |-> None]
  /\ call = [r \in Procs |-> None]
  /\ pc = [r \in Procs |-> "idle"]
  /\ obj = [r \in Procs |-> None]
  /\ old = [r \in Procs |-> None]
  /\ fresh = {}
  /\ instance = 1
  /\ inst = [r \in Procs |-> 0]
  /\ mixed = FALSE
  /\ live = [n \in Names |-> {}]
  /\ dropped = {}

\* A request arrives, on a connection to this instance of the server or on one
\* that an earlier instance still serves: Shutdown closes the listener only.
\* Project Delete refuses the default project at once.
Arrive(r) ==
  /\ pc[r] = "idle"
  /\ \E q \in clients, i \in 1..instance :
       /\ ~(q.op = "ProjectDelete" /\ q.name = DefaultAppProjectName)
       /\ call' = [call EXCEPT ![r] = q]
       /\ pc' = [pc EXCEPT ![r] = FirstStep(q.op)]
       /\ inst' = [inst EXCEPT ![r] = i]
       /\ mixed' = (mixed \/ \E s \in Procs : pc[s] # "idle" /\ inst[s] # i)
  /\ UNCHANGED <<clients, projects, apps, obj, old, fresh, instance, live, dropped>>

\* A handler returns before it writes: the Kubernetes API answered with an
\* error (not found, already exists, conflict, or any other), a check refused
\* the request, or AppCreate without upsert met an application of that name.
\* Only the wait for the lock cannot fail.  A handler whose write was accepted
\* and whose reply from Kubernetes is lost also returns an error: it leaves what
\* the step of that write leaves, or gives up after it where more would follow.
GiveUp(r) ==
  /\ pc[r] \notin {"idle", "lock"}
  /\ Return(r)
  /\ fresh' = fresh \ {r}
  /\ UNCHANGED <<clients, projects, apps, instance, mixed, live, dropped>>

\* What is read before the lock: the copy that CreateToken and DeleteToken will
\* write back, the one of Delete that names the lock, and the one a client
\* bases its Update on.
Get(r) ==
  /\ pc[r] = "get"
  /\ Stored(Name(r)) # None \/ Op(r) = "AppDelete"
  /\ Read(r)
  /\ Goto(r, "lock")
  /\ UNCHANGED <<clients, projects, apps, old, instance, mixed, live, dropped>>

\* Fault: application handlers and project handlers lock different keys.
Lock_PerService(r) ==
  /\ pc[r] = "lock"
  /\ \A s \in Procs : pc[s] \in Inside /\ inst[s] = inst[r]
                      /\ (Op(s) \in ProjectOps <=> Op(r) \in ProjectOps)
                        => LockKey(s) # LockKey(r)
  /\ Goto(r, AfterLock(Op(r)))
  /\ UNCHANGED <<clients, projects, apps, obj, old, fresh, instance, mixed, live, dropped>>

\* projectLock.Lock: no handler of the same instance holds that key.
Lock(r) ==
  /\ pc[r] = "lock"
  /\ \A s \in Procs : pc[s] \in Inside /\ inst[s] = inst[r]
                        => LockKey(s) # LockKey(r)
  /\ Goto(r, AfterLock(Op(r)))
  /\ UNCHANGED <<clients, projects, apps, obj, old, fresh, instance, mixed, live, dropped>>

-----------------------------------------------------------------------------
\* The project service.

\* Create takes no lock.
PostProject(r) ==
  /\ pc[r] = "post"
  /\ projects[Name(r)] = None
  /\ projects' = [projects EXCEPT
                    ![Name(r)] = Project(ValidateProject(call[r].spec), {})]
  /\ Touch(Name(r))
  /\ Return(r)
  /\ UNCHANGED <<clients, apps, instance, mixed, live, dropped>>

\* Update and Delete get the stored project ...
CheckProject(r) ==
  /\ pc[r] = "check"
  /\ projects[Name(r)] # None
  /\ old' = [old EXCEPT ![r] = IF Op(r) = "ProjectUpdate" THEN projects[Name(r)] ELSE None]
  /\ Goto(r, "list")
  /\ UNCHANGED <<clients, projects, apps, obj, fresh, instance, mixed, live, dropped>>

\* ... and list the applications: Update goes on when none of the project's
\* uses what it removes, Delete when the project has none.
ListApps(r) ==
  /\ pc[r] = "list"
  /\ \/ /\ Op(r) = "ProjectUpdate"
        /\ ~RemovedUsed(Name(r), old[r], ValidateProject(call[r].spec))
        /\ Goto(r, "replace")
     \/ /\ Op(r) = "ProjectDelete"
        /\ FilterByProjects(Name(r)) = {}
        /\ Goto(r, "remove")
  /\ old' = [old EXCEPT ![r] = None]
  /\ UNCHANGED <<clients, projects, apps, obj, fresh, instance, mixed, live, dropped>>

\* Update writes the client's object: its new grants, its copy of the roles.
ReplaceProject(r) ==
  LET n == Name(r)
      new == obj[r]
  IN /\ pc[r] = "replace"
     /\ UpdateAccepted(r)
     /\ projects' = [projects EXCEPT ![n] = new]
     /\ dropped' = IF DropsWildcard(projects[n], new)
                   THEN dropped \union FilterByProjects(n) ELSE dropped
     /\ Touch(n)
     /\ Return(r)
     /\ UNCHANGED <<clients, apps, instance, mixed, live>>

RemoveProject(r) ==
  /\ pc[r] = "remove"
  /\ projects[Name(r)] # None
  /\ projects' = [projects EXCEPT ![Name(r)] = None]
  /\ live' = [live EXCEPT ![Name(r)] = {}]
  /\ Touch(Name(r))
  /\ Return(r)
  /\ UNCHANGED <<clients, apps, instance, mixed, dropped>>

\* CreateToken adds a token to its copy and writes the copy back; it hands the
\* token out when it learns that the write was accepted.  DeleteToken takes one
\* from its copy, and answers the same without a write when the copy does not
\* have it.
WriteToken(r) ==
  LET n == Name(r)
      put(tokens) == projects' = [projects EXCEPT ![n] = Project(obj[r], tokens)]
  IN /\ pc[r] = "token"
     /\ UpdateAccepted(r)
     /\ \/ /\ Op(r) = "CreateToken"
           /\ \E t \in Tokens \ live[n] :
                 /\ put(obj[r].tokens \union {t})
                 /\ live' = [live EXCEPT ![n] = @ \union {t}]
        \/ /\ Op(r) = "DeleteToken"
           /\ call[r].token \in obj[r].tokens
           /\ put(obj[r].tokens \ {call[r].token})
           /\ live' = [live EXCEPT ![n] = @ \ {call[r].token}]
     /\ Touch(n)
     /\ Return(r)
     /\ UNCHANGED <<clients, apps, instance, mixed, dropped>>

-----------------------------------------------------------------------------
\* The application service.

\* validateApp: the project exists and permits the spec.  The checks of the
\* repository, the path and the cluster may refuse it too (GiveUp).
validateApp(r) ==
  LET proj == projects[GetProject(call[r].spec)]
  IN /\ pc[r] = "validate"
     /\ proj # None
     /\ Permitted(proj, call[r].spec)
     /\ Goto(r, IF Op(r) = "AppCreate" THEN "create" ELSE "write")
     /\ UNCHANGED <<clients, projects, apps, obj, old, fresh, instance, mixed, live, dropped>>

CreateApp(r) ==
  /\ pc[r] = "create"
  /\ apps[Name(r)] = None
  /\ apps' = [apps EXCEPT ![Name(r)] = App(Defaulted(call[r].spec), FALSE, FALSE)]
  /\ dropped' = dropped \ {Name(r)}
  /\ Touch(Name(r))
  /\ Return(r)
  /\ UNCHANGED <<clients, projects, instance, mixed, live>>

\* The name is taken.
AlreadyExists(r) ==
  /\ pc[r] = "create"
  /\ apps[Name(r)] # None
  /\ Goto(r, "existing")
  /\ UNCHANGED <<clients, projects, apps, obj, old, fresh, instance, mixed, live, dropped>>

\* With upsert, Create gets the existing application and updates it.  UpdateSpec
\* gets the application before it validates, and again after a conflict.
GetApp(r) ==
  /\ \/ pc[r] = "existing" /\ call[r].flag /\ Goto(r, "write")
     \/ pc[r] = "load" /\ Goto(r, "validate")
     \/ pc[r] = "reload" /\ Goto(r, "write")
  /\ apps[Name(r)] # None
  /\ Read(r)
  /\ UNCHANGED <<clients, projects, apps, old, instance, mixed, live, dropped>>

UpdateApp(r) ==
  /\ pc[r] = "write"
  /\ UpdateAccepted(r)
  /\ apps' = [apps EXCEPT ![Name(r)] = obj[r]]
  /\ dropped' = dropped \ {Name(r)}
  /\ Touch(Name(r))
  /\ Return(r)
  /\ UNCHANGED <<clients, projects, instance, mixed, live>>

\* UpdateSpec tries again, with the spec it validated before.
Conflict(r) ==
  /\ pc[r] = "write" /\ Op(r) = "AppUpdateSpec"
  /\ r \notin fresh /\ apps[Name(r)] # None
  /\ Goto(r, "reload")
  /\ UNCHANGED <<clients, projects, apps, obj, old, fresh, instance, mixed, live, dropped>>

\* The API server removes an application that is being deleted once no
\* finalizer is left.
Settled(app) == IF app.deleting /\ ~app.cascade THEN None ELSE app

\* Delete sets or takes the cascade finalizer by what its copy says.  For an
\* application that was not found the copy is empty, and so is its name: the
\* patch fails.
PatchFinalizer(r) ==
  LET n == Name(r)
      has == obj[r] # None /\ obj[r].cascade
  IN /\ pc[r] = "patch"
     /\ \/ has = call[r].flag /\ UNCHANGED <<apps, fresh>>
        \/ /\ has # call[r].flag /\ obj[r] # None /\ apps[n] # None
           /\ apps' = [apps EXCEPT ![n] = Settled(App(@.spec, call[r].flag, @.deleting))]
           /\ Touch(n)
     /\ Goto(r, "delete")
     /\ UNCHANGED <<clients, projects, obj, old, instance, mixed, live, dropped>>

\* An application that is gone counts as deleted.
DeleteApp(r) ==
  LET n == Name(r)
  IN /\ pc[r] = "delete"
     /\ apps' = [apps EXCEPT ![n] =
                   IF @ = None THEN None ELSE Settled(App(@.spec, @.cascade, TRUE))]
     /\ Touch(n)
     /\ Return(r)
     /\ UNCHANGED <<clients, projects, instance, mixed, live, dropped>>

-----------------------------------------------------------------------------
\* What happens beside the handlers.

\* The controller patches an application, its status or its finalizer: once the
\* resources of one that is being deleted are gone, it lets the object go.
ControllerPatches(a) ==
  /\ apps[a] # None
  /\ \/ UNCHANGED apps
     \/ apps[a].deleting /\ apps' = [apps EXCEPT ![a] = None]
  /\ Touch(a)
  /\ UNCHANGED <<clients, projects, call, pc, obj, old, instance, inst, mixed, live, dropped>>

\* The server restarts on changed settings; the handlers of the old instance
\* go on, with the projectLock of that instance.
RestartServer ==
  /\ instance < MaxInstances
  /\ instance' = instance + 1
  /\ UNCHANGED <<clients, projects, apps, call, pc, obj, old, fresh, inst, mixed, live, dropped>>

Handler(r) ==
  \/ Arrive(r) \/ GiveUp(r) \/ Get(r) \/ Lock(r)
  \/ PostProject(r) \/ CheckProject(r) \/ ListApps(r) \/ ReplaceProject(r)
  \/ RemoveProject(r) \/ WriteToken(r)
  \/ validateApp(r) \/ CreateApp(r) \/ AlreadyExists(r) \/ GetApp(r)
  \/ UpdateApp(r) \/ Conflict(r) \/ PatchFinalizer(r) \/ DeleteApp(r)

Next ==
  \/ \E r \in Procs : Handler(r)
  \/ \E a \in Apps : ControllerPatches(a)
  \/ RestartServer

Spec == Init /\ [][Next]_vars

-----------------------------------------------------------------------------
\* Type correctness.  It carries two facts the handlers rely on: a handler that
\* is not idle has a request, and a stored application names its project, never
\* the empty string, because validateApp fills the name in before the write.
TypeOK ==
  /\ clients \in Workloads
  /\ projects \in [Names -> ProjectObjs \union {None}]
  /\ apps \in [Apps -> AppObjs \union {None}]
  /\ \A a \in Apps : apps[a] # None => apps[a].spec.project \in Names
  /\ call \in [Procs -> Requests \union {None}]
  /\ pc \in [Procs -> Outside \union Inside]
  /\ \A r \in Procs : call[r] = None <=> pc[r] = "idle"
  /\ obj \in [Procs -> ProjectObjs \union AppObjs \union {None}]
  /\ old \in [Procs -> ProjectObjs \union {None}]
  /\ fresh \subseteq Procs
  /\ instance \in 1..MaxInstances
  /\ inst \in [Procs -> 0..MaxInstances]
  /\ mixed \in BOOLEAN
  /\ live \in [Names -> SUBSET Tokens]
  /\ dropped \subseteq Apps

\* Every application belongs to a project that exists: project Delete refuses a
\* project with applications, and no handler puts an application into a project
\* that another deletes between the check and the write.  projectLock ensures
\* it, which is one per server instance: the property is about handlers of one
\* instance at a time.
AppHasProject ==
  ~mixed => \A a \in Apps : apps[a] # None => projects[apps[a].spec.project] # None

\* Every application uses only what its project grants: project Update refuses
\* to remove a destination or a source that an application uses, whatever
\* application Create, Update and UpdateSpec do meanwhile.  The check compares
\* entries literally, so an application whose project has lost a wildcard since
\* it was written, and sources that are not in normal form, are excepted; and so
\* is the default project, which an application may join under the lock of the
\* empty name.
AppWithinGrants ==
  ~mixed => \A a \in Apps :
    LET proj == projects[apps[a].spec.project]
        spec == apps[a].spec
    IN apps[a] # None /\ a \notin dropped /\ spec.project # DefaultAppProjectName
         => /\ IsDestinationPermitted(proj, spec.dest) \/ "" \in {spec.dest[1], spec.dest[2]}
            /\ NormalizeGitURL[spec.source] = spec.source
                 => IsSourcePermitted(proj, spec.source)

\* A project has exactly the tokens that a write of CreateToken added, whether
\* or not the client got the token, and that no write of DeleteToken took back.
\* Both read the project before they lock, and a client's Update carries the
\* tokens of the copy it was made from: none of them may undo another's change.
TokensKept ==
  \A n \in Names : projects[n] # None => projects[n].tokens = live[n]
=============================================================================
