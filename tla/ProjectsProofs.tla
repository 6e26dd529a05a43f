--------------------------- MODULE ProjectsProofs ---------------------------
(***************************************************************************)
(* An inductive invariant of Projects, for every value of its constants:   *)
(* any number of handlers in flight, projects, applications, tokens,       *)
(* requests and server instances.  It does not speak of the locks: what it *)
(* says holds by the resourceVersion that each write carries.  From it     *)
(* follow type correctness and that a project's tokens are those handed    *)
(* out and not taken back.                                                 *)
(***************************************************************************)
EXTENDS Projects, TLAPS

\* The requests that can be at a step.
OpsAt(step) ==
  CASE step = "get"      -> {"ProjectUpdate", "CreateToken", "DeleteToken", "AppUpdate",
                             "AppDelete"}
    [] step = "post"     -> {"ProjectCreate"}
    [] step = "lock"     -> (ProjectOps \union AppOps) \ {"ProjectCreate"}
    [] step = "check"    -> {"ProjectUpdate", "ProjectDelete"}
    [] step = "list"     -> {"ProjectUpdate", "ProjectDelete"}
    [] step = "replace"  -> {"ProjectUpdate"}
    [] step = "remove"   -> {"ProjectDelete"}
    [] step = "token"    -> {"CreateToken", "DeleteToken"}
    [] step = "validate" -> {"AppCreate", "AppUpdate", "AppUpdateSpec"}
    [] step = "write"    -> {"AppCreate", "AppUpdate", "AppUpdateSpec"}
    [] step = "create"   -> {"AppCreate"}
    [] step = "existing" -> {"AppCreate"}
    [] step = "load"     -> {"AppUpdateSpec"}
    [] step = "reload"   -> {"AppUpdateSpec"}
    [] OTHER             -> {"AppDelete"}

RequestOK(r) ==
  pc[r] # "idle" => /\ call[r] \in Requests
                    /\ WellFormed(call[r])
                    /\ Op(r) \in OpsAt(pc[r])
                    /\ ~(Op(r) = "ProjectDelete" /\ Name(r) = DefaultAppProjectName)

\* The handlers that have read a project to write it back.
ProjectCopy(r) ==
  Op(r) \in {"ProjectUpdate", "CreateToken", "DeleteToken"}
    /\ pc[r] \in {"lock", "check", "list", "replace", "token"}

\* The handlers that have an application with the requested spec in it.
AppCopy(r) ==
  \/ pc[r] = "write"
  \/ Op(r) = "AppUpdate" /\ pc[r] \in {"lock", "validate"}
  \/ Op(r) = "AppUpdateSpec" /\ pc[r] = "validate"

CopyOK(r) ==
  /\ ProjectCopy(r) => obj[r] \in ProjectObjs
  /\ AppCopy(r) => obj[r] \in AppObjs /\ obj[r].spec = Defaulted(call[r].spec)
  /\ Op(r) = "AppDelete" /\ pc[r] \in {"lock", "patch", "delete"} /\ obj[r] # None
       => obj[r] \in AppObjs /\ obj[r].spec.project \in Names
  /\ Op(r) = "ProjectUpdate" /\ pc[r] = "list" => old[r] \in ProjectObjs

\* A copy with the stored resourceVersion has the stored tokens.
FreshOK(r) ==
  r \in fresh => /\ pc[r] # "idle"
                 /\ ProjectCopy(r) => /\ projects[Name(r)] # None
                                      /\ obj[r].tokens = projects[Name(r)].tokens

TokenInv ==
  \A n \in Names :
     live[n] = IF projects[n] = None THEN {} ELSE projects[n].tokens

\* The inductive invariant.
Inv ==
  /\ TypeOK
  /\ \A r \in Procs : RequestOK(r)
  /\ \A r \in Procs : CopyOK(r)
  /\ \A r \in Procs : FreshOK(r)
  /\ TokenInv

\* TypeOK in two parts: what is stored or copied, and the handlers.
StoreOK ==
  /\ projects \in [Names -> ProjectObjs \union {None}]
  /\ apps \in [Apps -> AppObjs \union {None}]
  /\ \A a \in Apps : apps[a] # None => apps[a].spec.project \in Names
  /\ obj \in [Procs -> ProjectObjs \union AppObjs \union {None}]
  /\ old \in [Procs -> ProjectObjs \union {None}]
  /\ live \in [Names -> SUBSET Tokens]
  /\ dropped \subseteq Apps

HandlersOK ==
  /\ clients \in Workloads
  /\ call \in [Procs -> Requests \union {None}]
  /\ pc \in [Procs -> Outside \union Inside]
  /\ \A r \in Procs : call[r] = None <=> pc[r] = "idle"
  /\ fresh \subseteq Procs
  /\ instance \in 1..MaxInstances
  /\ inst \in [Procs -> 0..MaxInstances]
  /\ mixed \in BOOLEAN

LEMMA TypeParts == TypeOK <=> StoreOK /\ HandlersOK
BY Zenon DEF TypeOK, StoreOK, HandlersOK

-----------------------------------------------------------------------------
\* What the operators return.

LEMMA ProjectType ==
  ASSUME NEW spec \in ProjectSpecs, NEW tokens \in SUBSET Tokens
  PROVE  /\ Project(ValidateProject(spec), tokens) \in ProjectObjs
         /\ Project(ValidateProject(spec), tokens).tokens = tokens
<1>1. \A s \in spec.sources :
         (IF s = "*" THEN s ELSE NormalizeGitURL[s]) \in URLs \union {"*"}
  BY ProjectsAssumption, ZenonT(40) DEF ProjectSpecs
<1>2. ValidateProject(spec) \in ProjectSpecs
  BY <1>1 DEF ProjectSpecs, ValidateProject
<1> QED
  BY <1>2, Zenon DEF ProjectSpecs, ProjectObjs, Project

LEMMA RetokenType ==
  ASSUME NEW p \in ProjectObjs, NEW tokens \in SUBSET Tokens
  PROVE  /\ Project(p, tokens) \in ProjectObjs
         /\ Project(p, tokens).tokens = tokens
BY Zenon DEF ProjectObjs, Project

LEMMA AppType ==
  ASSUME NEW spec \in AppSpecs, NEW c \in BOOLEAN, NEW d \in BOOLEAN
  PROVE  /\ App(Defaulted(spec), c, d) \in AppObjs
         /\ App(Defaulted(spec), c, d).spec = Defaulted(spec)
         /\ Defaulted(spec).project \in Names
BY ProjectsAssumption, ZenonT(40) DEF AppSpecs, AppObjs, App, Defaulted, GetProject

LEMMA SettledType ==
  ASSUME NEW a \in AppObjs, NEW c \in BOOLEAN, NEW d \in BOOLEAN,
         a.spec.project \in Names
  PROVE  /\ Settled(App(a.spec, c, d)) \in AppObjs \union {None}
         /\ Settled(App(a.spec, c, d)) # None
              => Settled(App(a.spec, c, d)).spec = a.spec
BY Zenon DEF AppObjs, App, Settled

LEMMA NoneType == None \notin ProjectObjs /\ None \notin AppObjs /\ None \notin Requests
BY ProjectsAssumption, ZenonT(40) DEF Requests

\* The steps of a handler are among the steps.
LEMMA StepType ==
  /\ \A op : FirstStep(op) \in {"post", "get", "lock"}
  /\ \A op : AfterLock(op) \in {"check", "token", "validate", "load", "patch"}
BY Zenon DEF FirstStep, AfterLock

LEMMA InstanceType == MaxInstances \in Nat /\ 0 \in 0..MaxInstances /\ 1 \in 1..MaxInstances
<1>1. MaxInstances \in Nat \ {0}
  BY ProjectsAssumption, ZenonT(40)
<1> QED
  BY <1>1

LEMMA RequestFacts ==
  ASSUME NEW r \in Procs, RequestOK(r), pc[r] # "idle"
  PROVE  /\ Op(r) \in OpsAt(pc[r])
         /\ Op(r) \in ProjectOps => Name(r) \in Names
         /\ Op(r) \in AppOps => Name(r) \in Apps /\ Name(r) \notin Names
         /\ Op(r) \in {"ProjectCreate", "ProjectUpdate"} => call[r].spec \in ProjectSpecs
         /\ Op(r) \in {"AppCreate", "AppUpdate", "AppUpdateSpec"}
              => call[r].spec \in AppSpecs
         /\ Op(r) = "DeleteToken" => call[r].token \in Tokens
         /\ call[r].flag \in BOOLEAN
<1>1. WellFormed(call[r])
  BY Zenon DEF RequestOK
<1>2. ProjectOps \cap AppOps = {}
  BY Zenon DEF ProjectOps, AppOps
<1>3. Apps \cap Names = {}
  BY ProjectsAssumption, ZenonT(40)
<1> QED
  BY <1>1, <1>2, <1>3, Zenon DEF RequestOK, WellFormed, Op, Name

\* What a handler keeps of the object it reads.
LEMMA EditedType ==
  ASSUME StoreOK, NEW r \in Procs, RequestOK(r), pc[r] # "idle"
  PROVE  /\ Op(r) \in {"ProjectUpdate", "CreateToken", "DeleteToken"}
              /\ projects[Name(r)] # None
              => Edited(r) \in ProjectObjs /\ Edited(r).tokens = projects[Name(r)].tokens
         /\ Op(r) \in {"AppCreate", "AppUpdate", "AppUpdateSpec"}
              /\ apps[Name(r)] # None
              => Edited(r) \in AppObjs /\ Edited(r).spec = Defaulted(call[r].spec)
         /\ Op(r) = "AppDelete" => Edited(r) = apps[Name(r)]
<1>1. CASE Op(r) = "ProjectUpdate" /\ projects[Name(r)] # None
  <2>1. Name(r) \in Names /\ call[r].spec \in ProjectSpecs
    BY <1>1, RequestFacts, Zenon DEF ProjectOps
  <2>2. projects[Name(r)] \in ProjectObjs
    BY <1>1, <2>1, Zenon DEF StoreOK
  <2>3. projects[Name(r)].tokens \in SUBSET Tokens
    BY <2>2, Zenon DEF ProjectObjs
  <2>4. Edited(r) = Project(ValidateProject(call[r].spec), projects[Name(r)].tokens)
    BY <1>1, <2>1, Zenon DEF Edited, Stored
  <2> QED
    BY <1>1, <2>1, <2>3, <2>4, ProjectType, Zenon
<1>2. CASE Op(r) \in {"CreateToken", "DeleteToken"} /\ projects[Name(r)] # None
  BY <1>2, RequestFacts, Zenon DEF ProjectOps, StoreOK, Edited, Stored
<1>3. CASE Op(r) \in {"AppCreate", "AppUpdate", "AppUpdateSpec"} /\ apps[Name(r)] # None
  <2>1. Name(r) \in Apps /\ Name(r) \notin Names /\ call[r].spec \in AppSpecs
    BY <1>3, RequestFacts, Zenon DEF AppOps
  <2>2. apps[Name(r)] \in AppObjs
    BY <1>3, <2>1, Zenon DEF StoreOK
  <2>3. apps[Name(r)].cascade \in BOOLEAN /\ apps[Name(r)].deleting \in BOOLEAN
    BY <2>2, Zenon DEF AppObjs
  <2>4. Edited(r) = App(Defaulted(call[r].spec), apps[Name(r)].cascade,
                        apps[Name(r)].deleting)
    BY <1>3, <2>1, Zenon DEF Edited, Stored
  <2> QED
    BY <1>3, <2>1, <2>3, <2>4, AppType
<1>4. CASE Op(r) = "AppDelete"
  BY <1>4, RequestFacts, Zenon DEF AppOps, Edited, Stored
<1> QED
  BY <1>1, <1>2, <1>3, <1>4, Zenon

\* A handler that returns leaves the handlers well-typed.
LEMMA ReturnType ==
  ASSUME HandlersOK, NEW r \in Procs, Return(r), fresh' \subseteq fresh,
         UNCHANGED <<clients, instance, mixed>>
  PROVE  HandlersOK'
BY InstanceType, Zenon DEF HandlersOK, Return, Outside

\* So does one that goes to its next step.
LEMMA GotoType ==
  ASSUME HandlersOK, NEW r \in Procs, pc[r] # "idle",
         NEW step \in (Outside \union Inside) \ {"idle"},
         Goto(r, step), fresh' \subseteq Procs, UNCHANGED <<clients, instance, mixed>>
  PROVE  HandlersOK'
BY Zenon DEF HandlersOK, Goto

-----------------------------------------------------------------------------
\* The initial states satisfy the invariant.
LEMMA InitInv == Init => Inv
<1> SUFFICES ASSUME Init PROVE Inv
  OBVIOUS
<1>1. StoreOK
  BY ProjectsAssumption, ZenonT(40) DEF Init, StoreOK, initializeDefaultProject, ProjectObjs
<1>2. HandlersOK
  BY InstanceType, ZenonT(40) DEF Init, HandlersOK, Outside
<1>3. \A r \in Procs : RequestOK(r) /\ CopyOK(r) /\ FreshOK(r)
  BY Zenon DEF Init, RequestOK, CopyOK, FreshOK, ProjectCopy, AppCopy
<1>4. TokenInv
  BY ProjectsAssumption, NoneType, ZenonT(40) DEF Init, TokenInv, initializeDefaultProject, ProjectObjs
<1> QED
  BY <1>1, <1>2, <1>3, <1>4, TypeParts, Zenon DEF Inv

LEMMA ArriveInv ==
  ASSUME Inv, NEW r \in Procs, Arrive(r)
  PROVE  Inv'
<1> USE DEF Op, Name
<1>i. StoreOK /\ HandlersOK /\ TokenInv
  BY TypeParts, Zenon DEF Inv
<1>j. \A s \in Procs : RequestOK(s) /\ CopyOK(s) /\ FreshOK(s)
  BY Zenon DEF Inv
<1> PICK q \in clients, i \in 1..instance :
       /\ ~(q.op = "ProjectDelete" /\ q.name = DefaultAppProjectName)
       /\ call' = [call EXCEPT ![r] = q]
       /\ pc' = [pc EXCEPT ![r] = FirstStep(q.op)]
       /\ inst' = [inst EXCEPT ![r] = i]
       /\ mixed' = (mixed \/ \E s \in Procs : pc[s] # "idle" /\ inst[s] # i)
  BY ZenonT(40) DEF Arrive
<1>0. /\ q \in Requests /\ WellFormed(q)
      /\ i \in 0..MaxInstances
      /\ pc[r] = "idle"
      /\ UNCHANGED <<clients, projects, apps, obj, old, fresh, instance, live, dropped>>
  <2>1. clients \in Workloads /\ instance \in 1..MaxInstances
    BY <1>i, Zenon DEF HandlersOK
  <2>2. \A w \in Workloads : \A u \in w : WellFormed(u)
    BY ProjectsAssumption, ZenonT(40)
  <2>3. q \in Requests /\ WellFormed(q)
    BY <2>1, <2>2, Zenon DEF Requests
  <2>4. i \in 0..MaxInstances
    BY <2>1, InstanceType
  <2> QED
    BY <2>3, <2>4, Zenon DEF Arrive
<1>a. FirstStep(q.op) \in {"post", "get", "lock"} /\ q.op \in OpsAt(FirstStep(q.op))
  BY <1>0 DEF WellFormed, FirstStep, OpsAt, ProjectOps, AppOps
<1>b. FirstStep(q.op) = "lock" =>
         q.op \notin {"ProjectUpdate", "CreateToken", "DeleteToken", "AppUpdate", "AppDelete"}
  BY Zenon DEF FirstStep
<1>1. StoreOK'
  BY <1>0, <1>i, Zenon DEF StoreOK
<1>2. HandlersOK'
  BY <1>0, <1>a, <1>i, NoneType, Zenon DEF HandlersOK, Outside
<1>3. ASSUME NEW s \in Procs PROVE RequestOK(s)'
  BY <1>j, <1>0, <1>a, <1>i, Zenon DEF HandlersOK, RequestOK
<1>4. ASSUME NEW s \in Procs PROVE CopyOK(s)'
  BY <1>j, <1>0, <1>a, <1>b, <1>i, Zenon DEF HandlersOK, CopyOK, ProjectCopy, AppCopy
<1>5. ASSUME NEW s \in Procs PROVE FreshOK(s)'
  BY <1>j, <1>0, <1>a, <1>b, <1>i, Zenon DEF HandlersOK, FreshOK, ProjectCopy
<1>6. TokenInv'
  BY <1>i, <1>0, Zenon DEF TokenInv
<1> QED
  BY <1>1, <1>2, <1>3, <1>4, <1>5, <1>6, Zenon DEF Inv, TypeOK, StoreOK, HandlersOK

LEMMA GiveUpInv ==
  ASSUME Inv, NEW r \in Procs, GiveUp(r)
  PROVE  Inv'
<1> USE DEF Op, Name
<1>i. StoreOK /\ HandlersOK /\ TokenInv
  BY TypeParts DEF Inv
<1>j. \A s \in Procs : RequestOK(s) /\ CopyOK(s) /\ FreshOK(s)
  BY DEF Inv
<1>1. StoreOK'
  BY <1>i, NoneType, Zenon DEF GiveUp, Return, StoreOK
<1>2. HandlersOK'
  BY <1>i, ReturnType DEF GiveUp
<1>3. ASSUME NEW s \in Procs PROVE RequestOK(s)'
  BY <1>i, <1>j, StepType, SMTT(40) DEF GiveUp, Return, HandlersOK, RequestOK, OpsAt
<1>4. ASSUME NEW s \in Procs PROVE CopyOK(s)'
  BY <1>i, <1>j, StepType, Zenon DEF GiveUp, Return, HandlersOK, StoreOK, CopyOK, ProjectCopy, AppCopy
<1>5. ASSUME NEW s \in Procs PROVE FreshOK(s)'
  BY <1>i, <1>j, StepType DEF GiveUp, Return, HandlersOK, StoreOK, FreshOK, ProjectCopy
<1>6. TokenInv'
  BY <1>i, Zenon DEF GiveUp, Return, StoreOK, TokenInv
<1> QED
  BY <1>1, <1>2, <1>3, <1>4, <1>5, <1>6, Zenon DEF Inv, TypeOK, StoreOK, HandlersOK

LEMMA GetInv ==
  ASSUME Inv, NEW r \in Procs, Get(r)
  PROVE  Inv'
<1> USE DEF Op, Name
<1>i. StoreOK /\ HandlersOK /\ TokenInv
  BY TypeParts DEF Inv
<1>j. \A s \in Procs : RequestOK(s) /\ CopyOK(s) /\ FreshOK(s)
  BY DEF Inv
<1>0. pc[r] # "idle"
  BY <1>j, RequestFacts DEF Get, OpsAt
<1>a. /\ Op(r) \in {"ProjectUpdate", "CreateToken", "DeleteToken"}
            => Name(r) \in Names /\ projects[Name(r)] # None
      /\ Op(r) \in {"AppUpdate", "AppDelete"}
            => Name(r) \in Apps /\ (apps[Name(r)] # None \/ Op(r) = "AppDelete")
      /\ Op(r) \in {"ProjectUpdate", "CreateToken", "DeleteToken", "AppUpdate", "AppDelete"}
  BY <1>j, <1>0, RequestFacts, Zenon DEF Get, OpsAt, ProjectOps, AppOps, Stored
<1>b. /\ Op(r) \in {"ProjectUpdate", "CreateToken", "DeleteToken"}
            => Edited(r) \in ProjectObjs /\ Edited(r).tokens = projects[Name(r)].tokens
      /\ Op(r) = "AppUpdate"
            => Edited(r) \in AppObjs /\ Edited(r).spec = Defaulted(call[r].spec)
      /\ Op(r) = "AppDelete" => Edited(r) = apps[Name(r)]
  BY <1>j, <1>0, <1>a, EditedType, <1>i, Zenon
<1>1. StoreOK'
  BY <1>a, <1>b, <1>i, NoneType DEF Get, Read, StoreOK
<1>2. HandlersOK'
  BY <1>0, <1>i, GotoType, Zenon DEF Get, Read, HandlersOK, Outside
<1>3. ASSUME NEW s \in Procs PROVE RequestOK(s)'
  BY <1>j, <1>0, <1>a, <1>i, SMTT(40) DEF Get, Goto, HandlersOK, RequestOK, OpsAt, ProjectOps, AppOps
<1>4. ASSUME NEW s \in Procs PROVE CopyOK(s)'
  BY <1>j, <1>0, <1>a, <1>b, <1>i, Zenon DEF Get, Goto, Read, HandlersOK, StoreOK, CopyOK, ProjectCopy, AppCopy
<1>5. ASSUME NEW s \in Procs PROVE FreshOK(s)'
  BY <1>j, <1>0, <1>a, <1>b, <1>i, Zenon DEF Get, Goto, Read, HandlersOK, StoreOK, FreshOK, ProjectCopy
<1>6. TokenInv'
  BY <1>0, <1>i DEF Get, Goto, Read, StoreOK, TokenInv
<1> QED
  BY <1>1, <1>2, <1>3, <1>4, <1>5, <1>6 DEF Inv, TypeOK, StoreOK, HandlersOK

LEMMA LockInv ==
  ASSUME Inv, NEW r \in Procs, Lock(r)
  PROVE  Inv'
<1> USE DEF Op, Name
<1>i. StoreOK /\ HandlersOK /\ TokenInv
  BY TypeParts DEF Inv
<1>j. \A s \in Procs : RequestOK(s) /\ CopyOK(s) /\ FreshOK(s)
  BY DEF Inv
<1>0. pc[r] = "lock" /\ pc[r] # "idle"
  BY Zenon DEF Lock
<1>a. /\ AfterLock(Op(r)) \in {"check", "token", "validate", "load", "patch"}
      /\ Op(r) \in OpsAt("lock")
  BY <1>j, <1>0, RequestFacts, StepType, Zenon
<1>b. Op(r) \in OpsAt(AfterLock(Op(r)))
  BY <1>a DEF OpsAt, AfterLock, ProjectOps, AppOps
<1>c. /\ AfterLock(Op(r)) = "validate" => Op(r) \in {"AppCreate", "AppUpdate"}
      /\ AfterLock(Op(r)) = "patch" => Op(r) = "AppDelete"
  BY <1>a, Zenon DEF AfterLock, OpsAt, ProjectOps, AppOps
<1>1. StoreOK'
  BY <1>i, NoneType, Zenon DEF Lock, Goto, StoreOK
<1>2. HandlersOK'
  BY <1>i, NoneType, StepType, Zenon DEF Lock, Goto, HandlersOK, Outside, Inside
<1>3. ASSUME NEW s \in Procs PROVE RequestOK(s)'
  BY <1>j, <1>0, <1>a, <1>b, <1>i, Zenon DEF Lock, Goto, HandlersOK, RequestOK
<1>4. ASSUME NEW s \in Procs PROVE CopyOK(s)'
  BY <1>j, <1>0, <1>a, <1>c, <1>i, Zenon DEF Lock, Goto, HandlersOK, CopyOK, ProjectCopy, AppCopy
<1>5. ASSUME NEW s \in Procs PROVE FreshOK(s)'
  BY <1>i, <1>j, StepType, Zenon DEF Lock, Goto, HandlersOK, StoreOK, FreshOK, ProjectCopy
<1>6. TokenInv'
  BY <1>i DEF Lock, Goto, StoreOK, TokenInv
<1> QED
  BY <1>1, <1>2, <1>3, <1>4, <1>5, <1>6 DEF Inv, TypeOK, StoreOK, HandlersOK

LEMMA PostProjectInv ==
  ASSUME Inv, NEW r \in Procs, PostProject(r)
  PROVE  Inv'
<1> USE DEF Op, Name
<1>i. StoreOK /\ HandlersOK /\ TokenInv
  BY TypeParts DEF Inv
<1>j. \A s \in Procs : RequestOK(s) /\ CopyOK(s) /\ FreshOK(s)
  BY DEF Inv
<1>0. Op(r) = "ProjectCreate" /\ Name(r) \in Names /\ call[r].spec \in ProjectSpecs
  BY <1>j, RequestFacts, Zenon DEF PostProject, OpsAt, ProjectOps
<1>a. LET p == Project(ValidateProject(call[r].spec), {})
      IN  p \in ProjectObjs /\ p.tokens = {}
  BY <1>0, ProjectType, Zenon
<1>1. StoreOK'
  BY <1>0, <1>a, <1>i, Zenon DEF PostProject, Return, StoreOK
<1>2. HandlersOK'
  BY <1>i, ReturnType DEF PostProject, Touch
<1>3. ASSUME NEW s \in Procs PROVE RequestOK(s)'
  BY <1>0, <1>i, <1>j, StepType, SMTT(40) DEF PostProject, Return, Touch, HandlersOK, RequestOK, OpsAt
<1>4. ASSUME NEW s \in Procs PROVE CopyOK(s)'
  BY <1>0, <1>i, <1>j, StepType, SMTT(40) DEF PostProject, Return, Touch, HandlersOK, StoreOK, CopyOK, ProjectCopy, AppCopy
<1>5. ASSUME NEW s \in Procs PROVE FreshOK(s)'
  BY <1>0, <1>i, <1>j, StepType, SMTT(40) DEF PostProject, Return, Touch, HandlersOK, StoreOK, FreshOK, ProjectCopy
<1>6. TokenInv'
  BY <1>0, <1>a, <1>i, NoneType, ZenonT(40) DEF PostProject, StoreOK, TokenInv
<1> QED
  BY <1>1, <1>2, <1>3, <1>4, <1>5, <1>6 DEF Inv, TypeOK, StoreOK, HandlersOK

LEMMA CheckProjectInv ==
  ASSUME Inv, NEW r \in Procs, CheckProject(r)
  PROVE  Inv'
<1> USE DEF Op, Name
<1>i. StoreOK /\ HandlersOK /\ TokenInv
  BY TypeParts DEF Inv
<1>j. \A s \in Procs : RequestOK(s) /\ CopyOK(s) /\ FreshOK(s)
  BY DEF Inv
<1>0. Op(r) \in {"ProjectUpdate", "ProjectDelete"} /\ Name(r) \in Names
  BY <1>j, RequestFacts, Zenon DEF CheckProject, OpsAt, ProjectOps
<1>a. /\ pc[r] = "check"
      /\ Goto(r, "list")
      /\ UNCHANGED <<projects, apps, obj, fresh>>
      /\ Op(r) = "ProjectUpdate" => old'[r] \in ProjectObjs
      /\ \A s \in Procs : s # r => old'[s] = old[s]
  BY <1>0, <1>i, Zenon DEF CheckProject, StoreOK
<1>1. StoreOK'
  BY <1>j, <1>0, <1>i, Zenon DEF CheckProject, StoreOK
<1>2. HandlersOK'
  BY <1>i, NoneType, StepType DEF CheckProject, Goto, HandlersOK, Outside, Inside
<1>3. ASSUME NEW s \in Procs PROVE RequestOK(s)'
  BY <1>0, <1>i, <1>j, StepType, SMTT(40) DEF CheckProject, Goto, HandlersOK, RequestOK, OpsAt
<1>4. ASSUME NEW s \in Procs PROVE CopyOK(s)'
  BY <1>a, <1>i, <1>j, Zenon DEF Goto, HandlersOK, CopyOK, ProjectCopy, AppCopy
<1>5. ASSUME NEW s \in Procs PROVE FreshOK(s)'
  BY <1>0, <1>i, <1>j, StepType, Zenon DEF CheckProject, Goto, HandlersOK, StoreOK, FreshOK, ProjectCopy
<1>6. TokenInv'
  BY <1>0, <1>i, Zenon DEF CheckProject, Goto, StoreOK, TokenInv
<1> QED
  BY <1>1, <1>2, <1>3, <1>4, <1>5, <1>6 DEF Inv, TypeOK, StoreOK, HandlersOK

LEMMA ListAppsInv ==
  ASSUME Inv, NEW r \in Procs, ListApps(r)
  PROVE  Inv'
<1> USE DEF Op, Name
<1>i. StoreOK /\ HandlersOK /\ TokenInv
  BY TypeParts DEF Inv
<1>j. \A s \in Procs : RequestOK(s) /\ CopyOK(s) /\ FreshOK(s)
  BY DEF Inv
<1>1. StoreOK'
  BY <1>i, NoneType, Zenon DEF ListApps, Goto, StoreOK
<1>2. HandlersOK'
  BY <1>i, NoneType, StepType DEF ListApps, Goto, HandlersOK, Outside, Inside
<1>3. ASSUME NEW s \in Procs PROVE RequestOK(s)'
  BY <1>i, <1>j, StepType, SMTT(40) DEF ListApps, Goto, HandlersOK, RequestOK, OpsAt
<1>4. ASSUME NEW s \in Procs PROVE CopyOK(s)'
  BY <1>i, <1>j, StepType, SMTT(40) DEF ListApps, Goto, HandlersOK, StoreOK, CopyOK, ProjectCopy, AppCopy
<1>5. ASSUME NEW s \in Procs PROVE FreshOK(s)'
  BY <1>i, <1>j, StepType, SMTT(40) DEF ListApps, Goto, HandlersOK, StoreOK, FreshOK, ProjectCopy
<1>6. TokenInv'
  BY <1>i, Zenon DEF ListApps, Goto, StoreOK, TokenInv
<1> QED
  BY <1>1, <1>2, <1>3, <1>4, <1>5, <1>6 DEF Inv, TypeOK, StoreOK, HandlersOK

LEMMA ReplaceProjectInv ==
  ASSUME Inv, NEW r \in Procs, ReplaceProject(r)
  PROVE  Inv'
<1> USE DEF Op, Name
<1>i. StoreOK /\ HandlersOK /\ TokenInv
  BY TypeParts DEF Inv
<1>j. \A s \in Procs : RequestOK(s) /\ CopyOK(s) /\ FreshOK(s)
  BY DEF Inv
<1>0. Op(r) = "ProjectUpdate" /\ Name(r) \in Names
  BY <1>j, RequestFacts, Zenon DEF ReplaceProject, OpsAt, ProjectOps
<1>a. /\ obj[r] \in ProjectObjs /\ projects[Name(r)] # None
      /\ obj[r].tokens = projects[Name(r)].tokens
  BY <1>j, <1>0, Zenon DEF ReplaceProject, UpdateAccepted, CopyOK, FreshOK, ProjectCopy
<1>b. FilterByProjects(Name(r)) \subseteq Apps
  BY DEF FilterByProjects
<1>1. StoreOK'
  BY <1>0, <1>a, <1>b, <1>i, Zenon DEF ReplaceProject, Return, StoreOK
<1>2. HandlersOK'
  BY <1>i, ReturnType DEF ReplaceProject, Touch
<1>3. ASSUME NEW s \in Procs PROVE RequestOK(s)'
  BY <1>0, <1>i, <1>j, StepType, SMTT(40) DEF ReplaceProject, Return, Touch, HandlersOK, RequestOK, OpsAt
<1>4. ASSUME NEW s \in Procs PROVE CopyOK(s)'
  BY <1>0, <1>i, <1>j, StepType, Zenon DEF ReplaceProject, Return, Touch, HandlersOK, StoreOK, CopyOK, ProjectCopy, AppCopy
<1>5. ASSUME NEW s \in Procs PROVE FreshOK(s)'
  BY <1>0, <1>i, <1>j, StepType, SMTT(40) DEF ReplaceProject, Return, Touch, HandlersOK, StoreOK, FreshOK, ProjectCopy
<1>6. TokenInv'
  BY <1>0, <1>a, <1>i, NoneType, Zenon DEF ReplaceProject, StoreOK, TokenInv
<1> QED
  BY <1>1, <1>2, <1>3, <1>4, <1>5, <1>6 DEF Inv, TypeOK, StoreOK, HandlersOK

LEMMA RemoveProjectInv ==
  ASSUME Inv, NEW r \in Procs, RemoveProject(r)
  PROVE  Inv'
<1> USE DEF Op, Name
<1>i. StoreOK /\ HandlersOK /\ TokenInv
  BY TypeParts DEF Inv
<1>j. \A s \in Procs : RequestOK(s) /\ CopyOK(s) /\ FreshOK(s)
  BY DEF Inv
<1>0. Op(r) = "ProjectDelete" /\ Name(r) \in Names
  BY <1>j, RequestFacts, Zenon DEF RemoveProject, OpsAt, ProjectOps
<1>1. StoreOK'
  BY <1>0, <1>i, NoneType, Zenon DEF RemoveProject, Return, Touch, StoreOK
<1>2. HandlersOK'
  BY <1>i, ReturnType DEF RemoveProject, Touch
<1>3. ASSUME NEW s \in Procs PROVE RequestOK(s)'
  BY <1>0, <1>i, <1>j, StepType, SMTT(40) DEF RemoveProject, Return, Touch, HandlersOK, RequestOK, OpsAt
<1>4. ASSUME NEW s \in Procs PROVE CopyOK(s)'
  BY <1>0, <1>i, <1>j, StepType, Zenon DEF RemoveProject, Return, Touch, HandlersOK, StoreOK, CopyOK, ProjectCopy, AppCopy
<1>5. ASSUME NEW s \in Procs PROVE FreshOK(s)'
  BY <1>0, <1>i, <1>j, StepType, SMTT(40) DEF RemoveProject, Return, Touch, HandlersOK, StoreOK, FreshOK, ProjectCopy
<1>6. TokenInv'
  BY <1>0, <1>i, ZenonT(40) DEF RemoveProject, Return, Touch, StoreOK, TokenInv
<1> QED
  BY <1>1, <1>2, <1>3, <1>4, <1>5, <1>6 DEF Inv, TypeOK, StoreOK, HandlersOK

LEMMA WriteTokenInv ==
  ASSUME Inv, NEW r \in Procs, WriteToken(r)
  PROVE  Inv'
<1> USE DEF Op, Name
<1>i. StoreOK /\ HandlersOK /\ TokenInv
  BY TypeParts DEF Inv
<1>j. \A s \in Procs : RequestOK(s) /\ CopyOK(s) /\ FreshOK(s)
  BY DEF Inv
<1>0. /\ Op(r) \in {"CreateToken", "DeleteToken"} /\ Name(r) \in Names
      /\ Op(r) = "DeleteToken" => call[r].token \in Tokens
  BY <1>j, RequestFacts, Zenon DEF WriteToken, OpsAt, ProjectOps
<1>a. /\ obj[r] \in ProjectObjs /\ projects[Name(r)] # None
      /\ obj[r].tokens = projects[Name(r)].tokens
      /\ obj[r].tokens = live[Name(r)]
  BY <1>j, <1>0, <1>i, ZenonT(40) DEF WriteToken, UpdateAccepted, CopyOK, FreshOK, ProjectCopy, TokenInv
<1>b. PICK tokens \in SUBSET Tokens :
        /\ projects' = [projects EXCEPT ![Name(r)] = Project(obj[r], tokens)]
        /\ live' = [live EXCEPT ![Name(r)] = tokens]
  <2>1. live[Name(r)] \in SUBSET Tokens
    BY <1>0, <1>i, Zenon DEF StoreOK
  <2>2. CASE Op(r) = "CreateToken"
    BY <1>0, <1>a, <2>1, <2>2, ZenonT(40) DEF WriteToken
  <2>3. CASE Op(r) = "DeleteToken"
    BY <1>0, <1>a, <2>1, <2>3, Zenon DEF WriteToken
  <2> QED
    BY <1>0, <2>2, <2>3, Zenon
<1>c. /\ Project(obj[r], tokens) \in ProjectObjs
      /\ Project(obj[r], tokens).tokens = tokens
  BY <1>a, RetokenType, Zenon
<1>1. StoreOK'
  BY <1>0, <1>b, <1>c, <1>i, Zenon DEF WriteToken, Return, StoreOK
<1>2. HandlersOK'
  BY <1>i, ReturnType, Zenon DEF WriteToken, Touch
<1>3. ASSUME NEW s \in Procs PROVE RequestOK(s)'
  BY <1>0, <1>i, <1>j, StepType, SMTT(40) DEF WriteToken, Return, Touch, HandlersOK, RequestOK, OpsAt
<1>4. ASSUME NEW s \in Procs PROVE CopyOK(s)'
  BY <1>0, <1>i, <1>j, StepType, ZenonT(40) DEF WriteToken, Return, Touch, HandlersOK, StoreOK, CopyOK, ProjectCopy, AppCopy
<1>5. ASSUME NEW s \in Procs PROVE FreshOK(s)'
  <2> SUFFICES ASSUME s \in fresh' PROVE FreshOK(s)'
    BY Zenon DEF FreshOK
  <2>1. s \in fresh /\ Name(s) # Name(r) /\ s # r
    BY Zenon DEF WriteToken, Touch
  <2>2. UNCHANGED <<pc[s], call[s], obj[s]>>
    BY <2>1, <1>i, Zenon DEF WriteToken, Return, HandlersOK, StoreOK
  <2>3. ProjectCopy(s) => projects'[Name(s)] = projects[Name(s)]
    <3>1. ProjectCopy(s) => Name(s) \in Names
      BY <1>j, RequestFacts, Zenon DEF ProjectCopy, ProjectOps
    <3> QED
      BY <1>b, <1>i, <2>1, <3>1, Zenon DEF StoreOK
  <2> QED
    BY <1>j, <2>1, <2>2, <2>3, Zenon DEF FreshOK, ProjectCopy
<1>6. TokenInv'
  BY <1>0, <1>b, <1>c, <1>i, NoneType, ZenonT(40) DEF StoreOK, TokenInv
<1> QED
  BY <1>1, <1>2, <1>3, <1>4, <1>5, <1>6, Zenon DEF Inv, TypeOK, StoreOK, HandlersOK

-----------------------------------------------------------------------------
\* The steps of the application service and of the environment.

LEMMA validateAppInv ==
  ASSUME Inv, NEW r \in Procs, validateApp(r)
  PROVE  Inv'
<1> USE DEF Op, Name
<1>i. StoreOK /\ HandlersOK /\ TokenInv
  BY TypeParts DEF Inv
<1>j. \A s \in Procs : RequestOK(s) /\ CopyOK(s) /\ FreshOK(s)
  BY DEF Inv
<1>0. /\ pc[r] = "validate"
      /\ Op(r) \in {"AppCreate", "AppUpdate", "AppUpdateSpec"}
      /\ UNCHANGED <<projects, apps, obj, old, fresh>>
  BY <1>j, RequestFacts, Zenon DEF validateApp, OpsAt
<1>a. PICK step \in {"create", "write"} :
        /\ Goto(r, step)
        /\ step = "create" <=> Op(r) = "AppCreate"
  BY Zenon DEF validateApp
<1>1. StoreOK'
  BY <1>i, NoneType, Zenon DEF validateApp, Goto, StoreOK
<1>2. HandlersOK'
  BY <1>i, NoneType, StepType, Zenon DEF validateApp, Goto, HandlersOK, Outside, Inside
<1>3. ASSUME NEW s \in Procs PROVE RequestOK(s)'
  BY <1>i, <1>j, <1>0, <1>a DEF Goto, HandlersOK, RequestOK, OpsAt
<1>4. ASSUME NEW s \in Procs PROVE CopyOK(s)'
  BY <1>i, <1>j, <1>0, <1>a, Zenon DEF Goto, HandlersOK, CopyOK, ProjectCopy, AppCopy
<1>5. ASSUME NEW s \in Procs PROVE FreshOK(s)'
  BY <1>i, <1>j, <1>0, <1>a, Zenon DEF Goto, HandlersOK, FreshOK, ProjectCopy
<1>6. TokenInv'
  BY <1>i, Zenon DEF validateApp, Goto, StoreOK, TokenInv
<1> QED
  BY <1>1, <1>2, <1>3, <1>4, <1>5, <1>6 DEF Inv, TypeOK, StoreOK, HandlersOK

LEMMA CreateAppInv ==
  ASSUME Inv, NEW r \in Procs, CreateApp(r)
  PROVE  Inv'
<1> USE DEF Op, Name
<1>i. StoreOK /\ HandlersOK /\ TokenInv
  BY TypeParts DEF Inv
<1>j. \A s \in Procs : RequestOK(s) /\ CopyOK(s) /\ FreshOK(s)
  BY DEF Inv
<1>0. Op(r) = "AppCreate" /\ Name(r) \in Apps /\ call[r].spec \in AppSpecs
  BY <1>j, RequestFacts, Zenon DEF CreateApp, OpsAt, AppOps
<1>a. /\ App(Defaulted(call[r].spec), FALSE, FALSE) \in AppObjs
      /\ App(Defaulted(call[r].spec), FALSE, FALSE).spec.project \in Names
  BY <1>0, AppType, ZenonT(40)
<1>1. StoreOK'
  BY <1>0, <1>a, <1>i, ZenonT(40) DEF CreateApp, Return, StoreOK
<1>2. HandlersOK'
  BY <1>i, ReturnType, Zenon DEF CreateApp, Touch
<1>3. ASSUME NEW s \in Procs PROVE RequestOK(s)'
  BY <1>0, <1>i, <1>j, StepType DEF CreateApp, Return, Touch, HandlersOK, RequestOK, OpsAt
<1>4. ASSUME NEW s \in Procs PROVE CopyOK(s)'
  BY <1>0, <1>i, <1>j, StepType DEF CreateApp, Return, Touch, HandlersOK, StoreOK, CopyOK, ProjectCopy, AppCopy
<1>5. ASSUME NEW s \in Procs PROVE FreshOK(s)'
  BY <1>0, <1>i, <1>j, StepType DEF CreateApp, Return, Touch, HandlersOK, StoreOK, FreshOK, ProjectCopy
<1>6. TokenInv'
  BY <1>0, <1>i, Zenon DEF CreateApp, Return, Touch, StoreOK, TokenInv
<1> QED
  BY <1>1, <1>2, <1>3, <1>4, <1>5, <1>6 DEF Inv, TypeOK, StoreOK, HandlersOK

LEMMA AlreadyExistsInv ==
  ASSUME Inv, NEW r \in Procs, AlreadyExists(r)
  PROVE  Inv'
<1> USE DEF Op, Name
<1>i. StoreOK /\ HandlersOK /\ TokenInv
  BY TypeParts DEF Inv
<1>j. \A s \in Procs : RequestOK(s) /\ CopyOK(s) /\ FreshOK(s)
  BY DEF Inv
<1>1. StoreOK'
  BY <1>i, NoneType, Zenon DEF AlreadyExists, Goto, StoreOK
<1>2. HandlersOK'
  BY <1>i, NoneType, StepType, Zenon DEF AlreadyExists, Goto, HandlersOK, Outside, Inside
<1>3. ASSUME NEW s \in Procs PROVE RequestOK(s)'
  BY <1>i, <1>j, StepType DEF AlreadyExists, Goto, HandlersOK, RequestOK, OpsAt
<1>4. ASSUME NEW s \in Procs PROVE CopyOK(s)'
  BY <1>i, <1>j, StepType, Zenon DEF AlreadyExists, Goto, HandlersOK, StoreOK, CopyOK, ProjectCopy, AppCopy
<1>5. ASSUME NEW s \in Procs PROVE FreshOK(s)'
  BY <1>i, <1>j, StepType, Zenon DEF AlreadyExists, Goto, HandlersOK, StoreOK, FreshOK, ProjectCopy
<1>6. TokenInv'
  BY <1>i, Zenon DEF AlreadyExists, Goto, StoreOK, TokenInv
<1> QED
  BY <1>1, <1>2, <1>3, <1>4, <1>5, <1>6 DEF Inv, TypeOK, StoreOK, HandlersOK

LEMMA GetAppInv ==
  ASSUME Inv, NEW r \in Procs, GetApp(r)
  PROVE  Inv'
<1> USE DEF Op, Name
<1>i. StoreOK /\ HandlersOK /\ TokenInv
  BY TypeParts DEF Inv
<1>j. \A s \in Procs : RequestOK(s) /\ CopyOK(s) /\ FreshOK(s)
  BY DEF Inv
<1>0. /\ Op(r) \in {"AppCreate", "AppUpdateSpec"} /\ Name(r) \in Apps
      /\ Name(r) \notin Names
  BY <1>j, RequestFacts, Zenon DEF GetApp, OpsAt, AppOps
<1>a. Edited(r) \in AppObjs /\ Edited(r).spec = Defaulted(call[r].spec)
  BY <1>j, <1>0, EditedType, <1>i, Zenon DEF GetApp
<1>1. StoreOK'
  BY <1>0, <1>a, <1>i, Zenon DEF GetApp, Read, StoreOK
<1>2. HandlersOK'
  BY <1>i, NoneType, StepType DEF GetApp, Goto, Read, HandlersOK, Outside, Inside
<1>3. ASSUME NEW s \in Procs PROVE RequestOK(s)'
  BY <1>0, <1>i, <1>j, StepType, SMTT(40) DEF GetApp, Goto, Read, HandlersOK, RequestOK, OpsAt
<1>4. ASSUME NEW s \in Procs PROVE CopyOK(s)'
  BY <1>j, <1>0, <1>a, <1>i, SMTT(40) DEF GetApp, Goto, Read, HandlersOK, StoreOK, CopyOK, ProjectCopy, AppCopy
<1>5. ASSUME NEW s \in Procs PROVE FreshOK(s)'
  BY <1>0, <1>i, <1>j, StepType DEF GetApp, Goto, Read, HandlersOK, StoreOK, FreshOK, ProjectCopy
<1>6. TokenInv'
  BY <1>0, <1>i, Zenon DEF GetApp, Goto, Read, StoreOK, TokenInv
<1> QED
  BY <1>1, <1>2, <1>3, <1>4, <1>5, <1>6 DEF Inv, TypeOK, StoreOK, HandlersOK

LEMMA UpdateAppInv ==
  ASSUME Inv, NEW r \in Procs, UpdateApp(r)
  PROVE  Inv'
<1> USE DEF Op, Name
<1>i. StoreOK /\ HandlersOK /\ TokenInv
  BY TypeParts DEF Inv
<1>j. \A s \in Procs : RequestOK(s) /\ CopyOK(s) /\ FreshOK(s)
  BY DEF Inv
<1>0. /\ Op(r) \in {"AppCreate", "AppUpdate", "AppUpdateSpec"}
      /\ Name(r) \in Apps /\ Name(r) \notin Names /\ call[r].spec \in AppSpecs
  BY <1>j, RequestFacts, Zenon DEF UpdateApp, OpsAt, AppOps
<1>a. obj[r] \in AppObjs /\ obj[r].spec.project \in Names
  BY <1>j, <1>0, AppType, ZenonT(40) DEF UpdateApp, CopyOK, AppCopy
<1>1. StoreOK'
  BY <1>0, <1>a, <1>i, Zenon DEF UpdateApp, Return, StoreOK
<1>2. HandlersOK'
  BY <1>i, ReturnType, Zenon DEF UpdateApp, Touch
<1>3. ASSUME NEW s \in Procs PROVE RequestOK(s)'
  BY <1>0, <1>i, <1>j, StepType DEF UpdateApp, Return, Touch, HandlersOK, RequestOK, OpsAt
<1>4. ASSUME NEW s \in Procs PROVE CopyOK(s)'
  BY <1>0, <1>i, <1>j, StepType DEF UpdateApp, Return, Touch, HandlersOK, StoreOK, CopyOK, ProjectCopy, AppCopy
<1>5. ASSUME NEW s \in Procs PROVE FreshOK(s)'
  BY <1>0, <1>i, <1>j, StepType DEF UpdateApp, Return, Touch, HandlersOK, StoreOK, FreshOK, ProjectCopy
<1>6. TokenInv'
  BY <1>0, <1>i DEF UpdateApp, Return, Touch, StoreOK, TokenInv
<1> QED
  BY <1>1, <1>2, <1>3, <1>4, <1>5, <1>6 DEF Inv, TypeOK, StoreOK, HandlersOK

LEMMA ConflictInv ==
  ASSUME Inv, NEW r \in Procs, Conflict(r)
  PROVE  Inv'
<1> USE DEF Op, Name
<1>i. StoreOK /\ HandlersOK /\ TokenInv
  BY TypeParts DEF Inv
<1>j. \A s \in Procs : RequestOK(s) /\ CopyOK(s) /\ FreshOK(s)
  BY DEF Inv
<1>1. StoreOK'
  BY <1>i, NoneType, Zenon DEF Conflict, Goto, StoreOK
<1>2. HandlersOK'
  BY <1>i, NoneType, StepType, Zenon DEF Conflict, Goto, HandlersOK, Outside, Inside
<1>3. ASSUME NEW s \in Procs PROVE RequestOK(s)'
  BY <1>i, <1>j, StepType DEF Conflict, Goto, HandlersOK, RequestOK, OpsAt
<1>4. ASSUME NEW s \in Procs PROVE CopyOK(s)'
  BY <1>i, <1>j, StepType, Zenon DEF Conflict, Goto, HandlersOK, StoreOK, CopyOK, ProjectCopy, AppCopy
<1>5. ASSUME NEW s \in Procs PROVE FreshOK(s)'
  BY <1>i, <1>j, StepType, Zenon DEF Conflict, Goto, HandlersOK, StoreOK, FreshOK, ProjectCopy
<1>6. TokenInv'
  BY <1>i, Zenon DEF Conflict, Goto, StoreOK, TokenInv
<1> QED
  BY <1>1, <1>2, <1>3, <1>4, <1>5, <1>6 DEF Inv, TypeOK, StoreOK, HandlersOK

\* What is stored for an application keeps a project's name.
LEMMA AppWritten ==
  ASSUME StoreOK, NEW n \in Apps, NEW v \in AppObjs \union {None},
         v # None => v.spec.project \in Names,
         apps' = [apps EXCEPT ![n] = v],
         UNCHANGED <<projects, obj, old, live, dropped>>
  PROVE  StoreOK'
BY Zenon DEF StoreOK

LEMMA PatchFinalizerInv ==
  ASSUME Inv, NEW r \in Procs, PatchFinalizer(r)
  PROVE  Inv'
<1> USE DEF Op, Name
<1>i. StoreOK /\ HandlersOK /\ TokenInv
  BY TypeParts DEF Inv
<1>j. \A s \in Procs : RequestOK(s) /\ CopyOK(s) /\ FreshOK(s)
  BY DEF Inv
<1>0. Op(r) = "AppDelete" /\ Name(r) \in Apps /\ call[r].flag \in BOOLEAN
  BY <1>j, RequestFacts, Zenon DEF PatchFinalizer, OpsAt, AppOps
<1>a. ASSUME apps[Name(r)] # None, NEW c \in BOOLEAN
      PROVE  LET new == Settled(App(apps[Name(r)].spec, c, apps[Name(r)].deleting))
             IN  /\ new \in AppObjs \union {None}
                 /\ new # None => new.spec = apps[Name(r)].spec
  <2>1. apps[Name(r)] \in AppObjs /\ apps[Name(r)].spec.project \in Names
    BY <1>0, <1>a, <1>i, Zenon DEF StoreOK
  <2>2. apps[Name(r)].deleting \in BOOLEAN
    BY <2>1 DEF AppObjs
  <2> QED
    BY <1>a, <2>1, <2>2, SettledType, Zenon
<1>b. UNCHANGED <<projects, obj, old, live, dropped>>
  BY Zenon DEF PatchFinalizer
<1>1. StoreOK'
  <2>1. CASE UNCHANGED apps
    BY <1>b, <1>i, <2>1, Zenon DEF StoreOK
  <2>2. CASE ~UNCHANGED apps
    <3> DEFINE a == apps[Name(r)]
               v == Settled(App(a.spec, call[r].flag, a.deleting))
    <3>1. a # None /\ apps' = [apps EXCEPT ![Name(r)] = v]
      BY <2>2, Zenon DEF PatchFinalizer
    <3>2. v \in AppObjs \union {None} /\ (v # None => v.spec = a.spec)
      BY <1>0, <1>a, <3>1, Zenon
    <3>3. a.spec.project \in Names
      BY <1>0, <1>i, <3>1, Zenon DEF StoreOK
    <3> HIDE DEF v
    <3>4. v # None => v.spec.project \in Names
      BY <3>2, <3>3, Zenon
    <3> QED
      BY <1>0, <1>b, <1>i, <3>1, <3>2, <3>4, AppWritten, Zenon
  <2> QED
    BY <2>1, <2>2, Zenon
<1>2. HandlersOK'
  BY <1>i, NoneType, StepType, Zenon DEF PatchFinalizer, Goto, Touch, HandlersOK, Outside, Inside
<1>3. ASSUME NEW s \in Procs PROVE RequestOK(s)'
  BY <1>0, <1>i, <1>j, StepType, SMTT(40) DEF PatchFinalizer, Goto, Touch, HandlersOK, RequestOK, OpsAt
<1>4. ASSUME NEW s \in Procs PROVE CopyOK(s)'
  BY <1>0, <1>i, <1>j, StepType, Zenon DEF PatchFinalizer, Goto, Touch, HandlersOK, StoreOK, CopyOK, ProjectCopy, AppCopy
<1>5. ASSUME NEW s \in Procs PROVE FreshOK(s)'
  BY <1>0, <1>i, <1>j, StepType, SMTT(40) DEF PatchFinalizer, Goto, Touch, HandlersOK, StoreOK, FreshOK, ProjectCopy
<1>6. TokenInv'
  BY <1>0, <1>i, Zenon DEF PatchFinalizer, Goto, Touch, StoreOK, TokenInv
<1> QED
  BY <1>1, <1>2, <1>3, <1>4, <1>5, <1>6 DEF Inv, TypeOK, StoreOK, HandlersOK

LEMMA DeleteAppInv ==
  ASSUME Inv, NEW r \in Procs, DeleteApp(r)
  PROVE  Inv'
<1> USE DEF Op, Name
<1>i. StoreOK /\ HandlersOK /\ TokenInv
  BY TypeParts DEF Inv
<1>j. \A s \in Procs : RequestOK(s) /\ CopyOK(s) /\ FreshOK(s)
  BY DEF Inv
<1>0. Op(r) = "AppDelete" /\ Name(r) \in Apps
  BY <1>j, RequestFacts, Zenon DEF DeleteApp, OpsAt, AppOps
<1>a. ASSUME apps[Name(r)] # None
      PROVE  LET new == Settled(App(apps[Name(r)].spec, apps[Name(r)].cascade, TRUE))
             IN  /\ new \in AppObjs \union {None}
                 /\ new # None => new.spec = apps[Name(r)].spec
  <2>1. apps[Name(r)] \in AppObjs /\ apps[Name(r)].spec.project \in Names
    BY <1>0, <1>a, <1>i, Zenon DEF StoreOK
  <2>2. apps[Name(r)].cascade \in BOOLEAN
    BY <2>1, Zenon DEF AppObjs
  <2> QED
    BY <2>1, <2>2, SettledType, ZenonT(40)
<1>1. StoreOK'
  BY <1>0, <1>a, <1>i, ZenonT(40) DEF DeleteApp, Return, StoreOK
<1>2. HandlersOK'
  BY <1>i, ReturnType, Zenon DEF DeleteApp, Touch
<1>3. ASSUME NEW s \in Procs PROVE RequestOK(s)'
  BY <1>0, <1>i, <1>j, StepType DEF DeleteApp, Return, Touch, HandlersOK, RequestOK, OpsAt
<1>4. ASSUME NEW s \in Procs PROVE CopyOK(s)'
  BY <1>0, <1>i, <1>j, StepType DEF DeleteApp, Return, Touch, HandlersOK, StoreOK, CopyOK, ProjectCopy, AppCopy
<1>5. ASSUME NEW s \in Procs PROVE FreshOK(s)'
  BY <1>0, <1>i, <1>j, StepType, Zenon DEF DeleteApp, Return, Touch, HandlersOK, StoreOK, FreshOK, ProjectCopy
<1>6. TokenInv'
  BY <1>0, <1>i, Zenon DEF DeleteApp, Return, Touch, StoreOK, TokenInv
<1> QED
  BY <1>1, <1>2, <1>3, <1>4, <1>5, <1>6 DEF Inv, TypeOK, StoreOK, HandlersOK

LEMMA ControllerInv ==
  ASSUME Inv, NEW a \in Apps, ControllerPatches(a)
  PROVE  Inv'
<1> USE DEF Op, Name
<1>i. StoreOK /\ HandlersOK /\ TokenInv
  BY TypeParts, Zenon DEF Inv
<1>j. \A s \in Procs : RequestOK(s) /\ CopyOK(s) /\ FreshOK(s)
  BY Zenon DEF Inv
<1>1. StoreOK'
  BY <1>i DEF ControllerPatches, StoreOK
<1>2. HandlersOK'
  BY <1>i, Zenon DEF ControllerPatches, Touch, HandlersOK
<1>3. ASSUME NEW s \in Procs PROVE RequestOK(s)'
  BY <1>j, Zenon DEF ControllerPatches, RequestOK
<1>4. ASSUME NEW s \in Procs PROVE CopyOK(s)'
  BY <1>j, Zenon DEF ControllerPatches, CopyOK, ProjectCopy, AppCopy
<1>5. ASSUME NEW s \in Procs PROVE FreshOK(s)'
  BY <1>j, Zenon DEF ControllerPatches, Touch, FreshOK, ProjectCopy
<1>6. TokenInv'
  BY <1>i DEF ControllerPatches, TokenInv
<1> QED
  BY <1>1, <1>2, <1>3, <1>4, <1>5, <1>6, Zenon DEF Inv, TypeOK, StoreOK, HandlersOK

\* The invariant does not look at the number of the current instance.
LEMMA RestartInv ==
  ASSUME Inv, RestartServer
  PROVE  Inv'
<1>1. StoreOK' /\ TokenInv'
  BY TypeParts, Zenon DEF Inv, RestartServer, StoreOK, TokenInv
<1>2. HandlersOK'
  <2>1. HandlersOK
    BY TypeParts, Zenon DEF Inv
  <2>2. instance' \in 1..MaxInstances
    BY <2>1, InstanceType, SMTT(40) DEF HandlersOK, RestartServer
  <2> QED
    BY <2>1, <2>2, Zenon DEF HandlersOK, RestartServer
<1>3. ASSUME NEW s \in Procs PROVE RequestOK(s)' /\ CopyOK(s)' /\ FreshOK(s)'
  BY Zenon DEF Inv, RestartServer, RequestOK, CopyOK, FreshOK, ProjectCopy, AppCopy, Op, Name
<1> QED
  BY <1>1, <1>2, <1>3, Zenon DEF Inv, TypeOK, StoreOK, HandlersOK

LEMMA StutterInv ==
  ASSUME Inv, UNCHANGED vars
  PROVE  Inv'
<1> USE DEF vars
<1>1. TypeOK'
  BY Zenon DEF Inv, TypeOK
<1>2. ASSUME NEW s \in Procs PROVE RequestOK(s)' /\ CopyOK(s)' /\ FreshOK(s)'
  BY Zenon DEF Inv, RequestOK, CopyOK, FreshOK, ProjectCopy, AppCopy, Op, Name
<1>3. TokenInv'
  BY Zenon DEF Inv, TokenInv
<1> QED
  BY <1>1, <1>2, <1>3 DEF Inv

\* The invariant holds in every state of every behaviour.
THEOREM InvHolds == Spec => []Inv
<1>1. ASSUME Inv, [Next]_vars PROVE Inv'
  <2>1. ASSUME NEW r \in Procs, Handler(r) PROVE Inv'
    BY <1>1, <2>1, ArriveInv, GiveUpInv, GetInv, LockInv, PostProjectInv,
       CheckProjectInv, ListAppsInv, ReplaceProjectInv, RemoveProjectInv,
       WriteTokenInv, validateAppInv, CreateAppInv, AlreadyExistsInv, GetAppInv,
       UpdateAppInv, ConflictInv, PatchFinalizerInv, DeleteAppInv, Zenon DEF Handler
  <2> QED
    BY <1>1, <2>1, ControllerInv, RestartInv, StutterInv, Zenon DEF Next
<1> QED
  BY <1>1, InitInv, PTL DEF Spec

\* The handlers of the project and application services keep what they store
\* and what they hold well-typed; every stored application names a project.
THEOREM ProjectsTypeCorrect == Spec => []TypeOK
<1>1. Inv => TypeOK
  BY Zenon DEF Inv
<1> QED
  BY <1>1, InvHolds, PTL

\* No call of CreateToken, DeleteToken or project Update, on any instance of
\* the server and however they overlap, loses a token that was added to the
\* project or brings back one that was deleted.
THEOREM TokensNeverLost == Spec => []TokensKept
<1>1. Inv => TokensKept
  BY Zenon DEF Inv, TokenInv, TokensKept
<1> QED
  BY <1>1, InvHolds, PTL
-----------------------------------------------------------------------------
(* What projectLock ensures: as long as the handlers in flight run on one  *)
(* server instance, every application has a project that exists, and uses  *)
(* only what it grants.                                                    *)
(*                                                                         *)
(* The argument: the handlers inside their lock exclude each other per key *)
(* (Exclusive).  So while a handler holds a project, nobody else changes   *)
(* that project or puts an application into it (Rely), and what the        *)
(* handler has checked before its write still holds at its write.          *)

Exclusive ==
  \A r, s \in Procs :
     pc[r] \in Inside /\ pc[s] \in Inside /\ inst[r] = inst[s] /\ LockKey(r) = LockKey(s)
       => r = s

OneInstance ==
  ~mixed => \A r, s \in Procs : pc[r] # "idle" /\ pc[s] # "idle" => inst[r] = inst[s]

DefaultExists == projects[DefaultAppProjectName] # None

LockOK == Exclusive /\ OneInstance /\ DefaultExists

\* The grant of a project that AppWithinGrants speaks of.
Within(proj, spec) ==
  /\ IsDestinationPermitted(proj, spec.dest) \/ "" \in {spec.dest[1], spec.dest[2]}
  /\ NormalizeGitURL[spec.source] = spec.source => IsSourcePermitted(proj, spec.source)

\* This spec may be written for an application of project n.
Proper(n, spec) ==
  /\ projects[n] # None
  /\ n # DefaultAppProjectName => Within(projects[n], spec)

\* An application is as it should be.
AppProper(a) ==
  /\ projects[apps[a].spec.project] # None
  /\ a \notin dropped => Proper(apps[a].spec.project, apps[a].spec)

AppsProper == \A a \in Apps : apps[a] # None => AppProper(a)

\* What a handler has checked under its lock and will rely on at its write.
StageOK(r) ==
  /\ pc[r] \in {"create", "existing", "reload", "write"}
       => Proper(GetProject(call[r].spec), call[r].spec)
  /\ pc[r] = "list" /\ Op(r) = "ProjectUpdate" => old[r] = projects[Name(r)]
  /\ pc[r] = "replace" =>
       /\ projects[Name(r)] # None
       /\ Name(r) # DefaultAppProjectName
            => ~RemovedUsed(Name(r), projects[Name(r)], obj[r])
  /\ pc[r] = "remove" => FilterByProjects(Name(r)) = {}

\* What a copy of a project holds, whatever the locks: Update's has the grants
\* of the request, a token handler's, if fresh, those of the stored project.
GrantsOK(r) ==
  ProjectCopy(r) =>
    IF Op(r) = "ProjectUpdate"
    THEN /\ obj[r].dests = ValidateProject(call[r].spec).dests
         /\ obj[r].sources = ValidateProject(call[r].spec).sources
    ELSE r \in fresh => /\ obj[r].dests = projects[Name(r)].dests
                        /\ obj[r].sources = projects[Name(r)].sources

\* ValidateProject has normalised the sources of every stored project.
Normal(proj) == \A s \in proj.sources \ {"*"} : NormalizeGitURL[s] = s
StoredNormal == \A n \in Names : projects[n] # None => Normal(projects[n])

\* The inductive invariant, beside Inv: what holds whatever the locks, and what
\* holds as long as one instance serves all handlers in flight.
CopyInv == StoredNormal /\ \A r \in Procs : GrantsOK(r)
LockedInv ==
  /\ LockOK
  /\ ~mixed => AppsProper /\ \A r \in Procs : StageOK(r)

-----------------------------------------------------------------------------
\* Handlers exclude each other.

\* A step of one handler leaves the others where they are.
LEMMA OtherSame ==
  ASSUME Inv, NEW s \in Procs, Handler(s), NEW r \in Procs, r # s
  PROVE  UNCHANGED <<pc[r], call[r], obj[r], old[r], inst[r]>>
<1>i. StoreOK /\ HandlersOK
  BY TypeParts, Zenon DEF Inv
<1> QED
  BY <1>i, ZenonT(40) DEF Handler, Arrive, GiveUp, Get, Lock, PostProject, CheckProject,
     ListApps, ReplaceProject, RemoveProject, WriteToken, validateApp, CreateApp,
     AlreadyExists, GetApp, UpdateApp, Conflict, PatchFinalizer, DeleteApp,
     Goto, Return, Read, StoreOK, HandlersOK

\* A handler keeps its key and its instance while it is inside its lock.
LEMMA KeyStable ==
  ASSUME Inv, NEW s \in Procs, Handler(s), NEW r \in Procs,
         pc[r] \in Inside, pc'[r] \in Inside
  PROVE  LockKey(r)' = LockKey(r) /\ inst'[r] = inst[r]
<1> USE DEF Op, Name
<1>i. StoreOK /\ HandlersOK
  BY TypeParts, Zenon DEF Inv
<1>1. CASE r # s
  <2>1. UNCHANGED <<pc[r], call[r], obj[r], inst[r]>>
    BY <1>1, OtherSame, Zenon
  <2> QED
    BY <2>1, Zenon DEF LockKey
<1>2. CASE r = s /\ GetApp(s)
  <2>1. Op(r) # "AppDelete"
    BY <1>2, RequestFacts, Zenon DEF Inv, GetApp, OpsAt
  <2>2. UNCHANGED <<call, inst>>
    BY <1>2, Zenon DEF GetApp, Goto
  <2> QED
    BY <2>1, <2>2, Zenon DEF LockKey
<1>3. CASE r = s /\ ~GetApp(s)
  <2>1. pc[s] \in Inside /\ pc'[s] \in Inside
    BY <1>3, Zenon
  <2>2. UNCHANGED <<call, obj, inst>>
    <3>1. ~Arrive(s) /\ ~Get(s) /\ ~PostProject(s)
      BY <2>1, Zenon DEF Arrive, Get, PostProject, Inside
    <3>2. ~Return(s)
      BY <2>1, <1>i, SMTT(40) DEF Return, Inside, HandlersOK
    <3>3. \/ Lock(s) \/ CheckProject(s) \/ ListApps(s) \/ validateApp(s)
          \/ AlreadyExists(s) \/ Conflict(s) \/ PatchFinalizer(s)
      BY <1>3, <3>1, <3>2, ZenonT(40) DEF Handler, GiveUp, ReplaceProject, RemoveProject, WriteToken,
         CreateApp, UpdateApp, DeleteApp
    <3> QED
      BY <3>3, Zenon DEF Lock, CheckProject, ListApps, validateApp, AlreadyExists, Conflict,
         PatchFinalizer, Goto
  <2> QED
    BY <1>3, <2>2, Zenon DEF LockKey
<1> QED
  BY <1>1, <1>2, <1>3, Zenon

\* A handler gets inside by taking its lock.
LEMMA EnterByLock ==
  ASSUME Inv, NEW s \in Procs, Handler(s), NEW r \in Procs,
         pc[r] \notin Inside, pc'[r] \in Inside
  PROVE  r = s /\ Lock(s)
<1>i. HandlersOK
  BY TypeParts, Zenon DEF Inv
<1>1. r = s
  BY <1>i, ZenonT(40) DEF Handler, Arrive, GiveUp, Get, Lock, PostProject, CheckProject,
     ListApps, ReplaceProject, RemoveProject, WriteToken, validateApp, CreateApp,
     AlreadyExists, GetApp, UpdateApp, Conflict, PatchFinalizer, DeleteApp,
     Goto, Return, HandlersOK
<1>2. ~Return(s)
  BY <1>1, <1>i DEF Return, Inside, HandlersOK
<1>3. ~Arrive(s) /\ ~Get(s)
  BY <1>1, <1>i, StepType, SMTT(40) DEF Arrive, Get, Goto, Inside, HandlersOK
<1>4. ~CheckProject(s) /\ ~ListApps(s) /\ ~validateApp(s) /\ ~AlreadyExists(s)
      /\ ~GetApp(s) /\ ~Conflict(s) /\ ~PatchFinalizer(s)
  BY <1>1, Zenon DEF CheckProject, ListApps, validateApp, AlreadyExists, GetApp, Conflict,
     PatchFinalizer, Inside
<1> QED
  BY <1>1, <1>2, <1>3, <1>4, ZenonT(40) DEF Handler, GiveUp, PostProject, ReplaceProject,
     RemoveProject, WriteToken, CreateApp, UpdateApp, DeleteApp

LEMMA HandlerExclusive ==
  ASSUME Inv, Exclusive, NEW s \in Procs, Handler(s)
  PROVE  Exclusive'
<1> SUFFICES ASSUME NEW r \in Procs, NEW q \in Procs, pc'[r] \in Inside, pc'[q] \in Inside,
                    inst'[r] = inst'[q], LockKey(r)' = LockKey(q)'
             PROVE  r = q
  BY Zenon DEF Exclusive
<1>1. CASE pc[r] \in Inside /\ pc[q] \in Inside
  BY <1>1, KeyStable, Zenon DEF Exclusive
<1>2. CASE pc[r] \notin Inside /\ pc[q] \notin Inside
  BY <1>2, EnterByLock, Zenon
<1>3. ASSUME NEW u \in Procs, NEW v \in Procs, pc[u] \notin Inside, pc[v] \in Inside,
             pc'[u] \in Inside, pc'[v] \in Inside
      PROVE  ~(inst'[u] = inst'[v] /\ LockKey(u)' = LockKey(v)')
  <2>1. u = s /\ Lock(s)
    BY <1>3, EnterByLock, Zenon
  <2>2. LockKey(v)' = LockKey(v) /\ inst'[v] = inst[v]
    BY <1>3, KeyStable, Zenon
  <2>3. LockKey(u)' = LockKey(u) /\ inst'[u] = inst[u]
    BY <2>1, ZenonT(40) DEF Lock, Goto, LockKey, Op, Name
  <2>4. inst[v] = inst[u] => LockKey(v) # LockKey(u)
    BY <1>3, <2>1, Zenon DEF Lock
  <2> QED
    BY <2>2, <2>3, <2>4, Zenon
<1> QED
  BY <1>1, <1>2, <1>3, Zenon

\* What the writes of a project put there.
LEMMA ReplaceEffect ==
  ASSUME Inv, NEW s \in Procs, ReplaceProject(s)
  PROVE  /\ Op(s) = "ProjectUpdate" /\ ProjectCopy(s) /\ Name(s) \in Names
         /\ obj[s] \in ProjectObjs /\ call[s].spec \in ProjectSpecs
<1>1. RequestOK(s) /\ CopyOK(s) /\ pc[s] = "replace"
  BY Zenon DEF Inv, ReplaceProject
<1>2. Op(s) = "ProjectUpdate"
  BY <1>1, RequestFacts, Zenon DEF OpsAt
<1> QED
  BY <1>1, <1>2, RequestFacts, Zenon DEF CopyOK, ProjectCopy, ProjectOps

LEMMA WriteTokenEffect ==
  ASSUME Inv, NEW s \in Procs, WriteToken(s)
  PROVE  /\ Op(s) \in {"CreateToken", "DeleteToken"} /\ ProjectCopy(s) /\ s \in fresh
         /\ Name(s) \in Names /\ obj[s] \in ProjectObjs
         /\ \E tokens \in SUBSET Tokens :
               projects' = [projects EXCEPT ![Name(s)] = Project(obj[s], tokens)]
<1>1. RequestOK(s) /\ CopyOK(s) /\ pc[s] = "token" /\ s \in fresh
  BY Zenon DEF Inv, WriteToken, UpdateAccepted
<1>2. Op(s) \in {"CreateToken", "DeleteToken"}
  BY <1>1, RequestFacts, Zenon DEF OpsAt
<1>3. ProjectCopy(s) /\ Name(s) \in Names /\ obj[s] \in ProjectObjs
  BY <1>1, <1>2, RequestFacts, Zenon DEF CopyOK, ProjectCopy, ProjectOps
<1>4. obj[s].tokens \in SUBSET Tokens
  BY <1>3, Zenon DEF ProjectObjs
<1>5. CASE Op(s) = "CreateToken"
  <2>1. PICK t \in Tokens \ live[Name(s)] :
           projects' = [projects EXCEPT ![Name(s)] = Project(obj[s], obj[s].tokens \union {t})]
    BY <1>5, Zenon DEF WriteToken
  <2> QED
    BY <1>1, <1>2, <1>3, <1>4, <2>1, ZenonT(40)
<1>6. CASE Op(s) = "DeleteToken"
  <2>1. projects' = [projects EXCEPT
                       ![Name(s)] = Project(obj[s], obj[s].tokens \ {call[s].token})]
    BY <1>6, Zenon DEF WriteToken
  <2> QED
    BY <1>1, <1>2, <1>3, <1>4, <2>1, ZenonT(40)
<1> QED
  BY <1>2, <1>5, <1>6, Zenon

LEMMA HandlerLockOK ==
  ASSUME Inv, LockOK, NEW s \in Procs, Handler(s)
  PROVE  LockOK'
<1>i. StoreOK /\ HandlersOK
  BY TypeParts, Zenon DEF Inv
<1>1. Exclusive'
  BY HandlerExclusive, Zenon DEF LockOK
<1>2. OneInstance'
  <2> SUFFICES ASSUME ~mixed', NEW r \in Procs, NEW q \in Procs, pc'[r] # "idle",
                      pc'[q] # "idle"
               PROVE  inst'[r] = inst'[q]
    BY Zenon DEF OneInstance
  <2>1. CASE Arrive(s)
    <3>1. PICK i \in 1..instance :
             /\ pc' = [pc EXCEPT ![s] = pc'[s]]
             /\ inst' = [inst EXCEPT ![s] = i]
             /\ mixed' = (mixed \/ \E u \in Procs : pc[u] # "idle" /\ inst[u] # i)
      BY <2>1, <1>i, ZenonT(40) DEF Arrive, HandlersOK
    <3>2. \A u \in Procs : pc'[u] # "idle" => inst'[u] = i
      BY <3>1, <1>i, ZenonT(40) DEF HandlersOK
    <3> QED
      BY <3>2, Zenon
  <2>2. CASE ~Arrive(s)
    <3>1. mixed' = mixed
      BY <2>2, ZenonT(40) DEF Handler, GiveUp, Get, Lock, PostProject, CheckProject,
         ListApps, ReplaceProject, RemoveProject, WriteToken, validateApp, CreateApp,
         AlreadyExists, GetApp, UpdateApp, Conflict, PatchFinalizer, DeleteApp
    <3>2. \A u \in Procs : pc'[u] # "idle" => pc[u] # "idle" /\ inst'[u] = inst[u]
      BY <2>2, <1>i, ZenonT(40) DEF Handler, GiveUp, Get, Lock, PostProject, CheckProject,
         ListApps, ReplaceProject, RemoveProject, WriteToken, validateApp, CreateApp,
         AlreadyExists, GetApp, UpdateApp, Conflict, PatchFinalizer, DeleteApp,
         Goto, Return, HandlersOK
    <3> QED
      BY <3>1, <3>2, Zenon DEF LockOK, OneInstance
  <2> QED
    BY <2>1, <2>2, Zenon
<1>3. DefaultExists'
  <2>0. projects[DefaultAppProjectName] # None /\ DefaultAppProjectName \in Names
    BY ProjectsAssumption, ZenonT(40) DEF LockOK, DefaultExists
  <2>1. CASE UNCHANGED projects
    BY <2>1, <2>0, Zenon DEF DefaultExists
  <2>2. CASE PostProject(s)
    BY <2>2, <2>0, <1>i, Zenon DEF PostProject, DefaultExists, StoreOK
  <2>3. CASE ReplaceProject(s)
    <3>1. obj[s] \in ProjectObjs
      BY <2>3, ReplaceEffect, Zenon
    <3>2. projects' = [projects EXCEPT ![Name(s)] = obj[s]]
      BY <2>3, Zenon DEF ReplaceProject
    <3> QED
      BY <3>1, <3>2, <2>0, <1>i, NoneType, Zenon DEF DefaultExists, StoreOK
  <2>4. CASE RemoveProject(s)
    <3>1. Name(s) # DefaultAppProjectName
      BY <2>4, RequestFacts, Zenon DEF Inv, RemoveProject, OpsAt, RequestOK
    <3> QED
      BY <3>1, <2>4, <2>0, <1>i, Zenon DEF RemoveProject, DefaultExists, StoreOK
  <2>5. CASE WriteToken(s)
    <3>1. PICK tokens \in SUBSET Tokens :
             projects' = [projects EXCEPT ![Name(s)] = Project(obj[s], tokens)]
      BY <2>5, WriteTokenEffect, Zenon
    <3>2. Project(obj[s], tokens) \in ProjectObjs
      BY <2>5, WriteTokenEffect, RetokenType, Zenon
    <3> QED
      BY <3>1, <3>2, <2>0, <1>i, NoneType, Zenon DEF DefaultExists, StoreOK
  <2> QED
    BY <2>1, <2>2, <2>3, <2>4, <2>5, ZenonT(40) DEF Handler, Arrive, GiveUp, Get, Lock, CheckProject,
       ListApps, validateApp, CreateApp, AlreadyExists, GetApp, UpdateApp, Conflict,
       PatchFinalizer, DeleteApp
<1> QED
  BY <1>1, <1>2, <1>3, Zenon DEF LockOK

-----------------------------------------------------------------------------
\* What holds of the copies whatever the locks.

LEMMA NormalForm ==
  ASSUME NEW spec \in ProjectSpecs
  PROVE  Normal(ValidateProject(spec))
<1> SUFFICES ASSUME NEW u \in ValidateProject(spec).sources, u # "*"
             PROVE  NormalizeGitURL[u] = u
  BY Zenon DEF Normal
<1>1. PICK t \in spec.sources : u = IF t = "*" THEN t ELSE NormalizeGitURL[t]
  BY Zenon DEF ValidateProject
<1>2. t \in URLs /\ u = NormalizeGitURL[t]
  BY <1>1, Zenon DEF ProjectSpecs
<1> QED
  BY <1>2, ProjectsAssumption, ZenonT(40)

\* A copy that is still fresh after another handler's step is a copy of a
\* project that the step left alone.
LEMMA FreshStable ==
  ASSUME Inv, NEW s \in Procs, Handler(s), NEW q \in Procs, q # s, q \in fresh',
         Name(q) \in Names
  PROVE  q \in fresh /\ projects'[Name(q)] = projects[Name(q)]
<1>i. StoreOK
  BY TypeParts, Zenon DEF Inv
<1>1. CASE UNCHANGED projects
  <2>1. fresh' \subseteq fresh \union {s}
    BY <1>1, ZenonT(40) DEF Handler, Arrive, GiveUp, Get, Lock, PostProject, CheckProject,
       ListApps, ReplaceProject, RemoveProject, WriteToken, validateApp, CreateApp,
       AlreadyExists, GetApp, UpdateApp, Conflict, PatchFinalizer, DeleteApp, Touch, Read
  <2> QED
    BY <1>1, <2>1, Zenon
<1>2. CASE PostProject(s) \/ ReplaceProject(s) \/ RemoveProject(s)
  BY <1>2, <1>i, ZenonT(40) DEF PostProject, ReplaceProject, RemoveProject, Touch, StoreOK
<1>3. CASE WriteToken(s)
  <2>1. PICK tokens \in SUBSET Tokens :
           projects' = [projects EXCEPT ![Name(s)] = Project(obj[s], tokens)]
    BY <1>3, WriteTokenEffect, Zenon
  <2>2. q \in fresh /\ Name(q) # Name(s)
    BY <1>3, Zenon DEF WriteToken, Touch
  <2> QED
    BY <2>1, <2>2, <1>i, Zenon DEF StoreOK
<1> QED
  BY <1>1, <1>2, <1>3, ZenonT(40) DEF Handler, Arrive, GiveUp, Get, Lock, CheckProject,
     ListApps, validateApp, CreateApp, AlreadyExists, GetApp, UpdateApp, Conflict,
     PatchFinalizer, DeleteApp

LEMMA HandlerStoredNormal ==
  ASSUME Inv, CopyInv, NEW s \in Procs, Handler(s)
  PROVE  StoredNormal'
<1>i. StoreOK
  BY TypeParts, Zenon DEF Inv
<1>1. CASE UNCHANGED projects
  BY <1>1, Zenon DEF CopyInv, StoredNormal
<1>2. ASSUME NEW p, Normal(p), projects' = [projects EXCEPT ![Name(s)] = p]
      PROVE  StoredNormal'
  BY <1>2, <1>i, Zenon DEF CopyInv, StoredNormal, StoreOK
<1>3. CASE PostProject(s)
  <2>1. RequestOK(s) /\ pc[s] = "post"
    BY <1>3, Zenon DEF Inv, PostProject
  <2>2. call[s].spec \in ProjectSpecs
    BY <2>1, RequestFacts, Zenon DEF OpsAt
  <2>3. Normal(Project(ValidateProject(call[s].spec), {}))
    BY <2>2, NormalForm, Zenon DEF Normal, Project
  <2> QED
    BY <1>3, <1>2, <2>3, ZenonT(40) DEF PostProject
<1>4. CASE ReplaceProject(s)
  <2>1. obj[s].sources = ValidateProject(call[s].spec).sources
    BY <1>4, ReplaceEffect, Zenon DEF CopyInv, GrantsOK
  <2>2. Normal(obj[s])
    BY <1>4, <2>1, ReplaceEffect, NormalForm, Zenon DEF Normal
  <2> QED
    BY <1>4, <1>2, <2>2, ZenonT(40) DEF ReplaceProject
<1>5. CASE RemoveProject(s)
  BY <1>5, <1>i, Zenon DEF CopyInv, StoredNormal, StoreOK, RemoveProject
<1>6. CASE WriteToken(s)
  <2>1. PICK tokens \in SUBSET Tokens :
           projects' = [projects EXCEPT ![Name(s)] = Project(obj[s], tokens)]
    BY <1>6, WriteTokenEffect
  <2>2. obj[s].sources = projects[Name(s)].sources /\ Name(s) \in Names
    BY <1>6, WriteTokenEffect, Zenon DEF CopyInv, GrantsOK
  <2>3. projects[Name(s)] # None
    BY <1>6, <2>2, Zenon DEF WriteToken, UpdateAccepted, Stored
  <2>4. Normal(Project(obj[s], tokens))
    BY <2>2, <2>3, Zenon DEF CopyInv, StoredNormal, Normal, Project
  <2> QED
    BY <1>2, <2>1, <2>4, ZenonT(40)
<1> QED
  BY <1>1, <1>3, <1>4, <1>5, <1>6, ZenonT(40) DEF Handler, Arrive, GiveUp, Get, Lock, CheckProject,
     ListApps, validateApp, CreateApp, AlreadyExists, GetApp, UpdateApp, Conflict,
     PatchFinalizer, DeleteApp

LEMMA HandlerCopyInv ==
  ASSUME Inv, CopyInv, NEW s \in Procs, Handler(s)
  PROVE  CopyInv'
<1>i. StoreOK /\ HandlersOK
  BY TypeParts DEF Inv
<1> SUFFICES ASSUME NEW q \in Procs, ProjectCopy(q)'
             PROVE  GrantsOK(q)'
  BY HandlerStoredNormal, Zenon DEF CopyInv, GrantsOK
<1>1. CASE q # s
  <2>1. UNCHANGED <<pc[q], call[q], obj[q]>>
    BY <1>1, OtherSame, Zenon
  <2>2. ProjectCopy(q) /\ UNCHANGED <<Op(q), Name(q)>>
    BY <2>1, Zenon DEF ProjectCopy, Op, Name
  <2>3. RequestOK(q) /\ pc[q] # "idle"
    BY <2>2, Zenon DEF Inv, ProjectCopy
  <2>4. Name(q) \in Names
    BY <2>2, <2>3, RequestFacts, Zenon DEF ProjectCopy, ProjectOps
  <2>5. q \in fresh' => q \in fresh /\ projects'[Name(q)] = projects[Name(q)]
    BY <1>1, <2>4, FreshStable, Zenon
  <2> QED
    BY <2>1, <2>2, <2>5, Zenon DEF CopyInv, GrantsOK
<1>2. CASE q = s /\ Get(s)
  <2>1. RequestOK(s) /\ pc[s] # "idle"
    BY <1>2, Zenon DEF Inv, Get
  <2>2. UNCHANGED <<Op(s), Name(s), call, projects>> /\ obj'[s] = Edited(s)
    BY <1>2, <1>i, Zenon DEF Get, Goto, Read, Op, Name, StoreOK
  <2>3. Op(s) \in {"ProjectUpdate", "CreateToken", "DeleteToken"}
    BY <1>2, <2>2, Zenon DEF ProjectCopy
  <2>4. Name(s) \in Names
    BY <2>1, <2>3, RequestFacts, Zenon DEF ProjectOps
  <2> QED
    BY <1>2, <2>2, <2>3, <2>4 DEF GrantsOK, Edited, Stored, Project, ValidateProject
<1>3. CASE q = s /\ ~Get(s)
  <2>0. pc'[s] \in {"lock", "check", "list", "replace", "token"}
    BY <1>3, Zenon DEF ProjectCopy
  <2>1. ~Return(s)
    BY <2>0, <1>i, Zenon DEF Return, HandlersOK
  <2>2. ~Arrive(s)
    BY <2>0, <1>3, <1>i, SMTT(40) DEF Arrive, ProjectCopy, FirstStep, Op, HandlersOK
  <2>3. Lock(s) \/ CheckProject(s) \/ ListApps(s)
    BY <1>3, <2>0, <2>1, <2>2, <1>i, ZenonT(40) DEF Handler, GiveUp, PostProject, ReplaceProject,
       RemoveProject, WriteToken, validateApp, CreateApp, AlreadyExists, GetApp, UpdateApp,
       Conflict, PatchFinalizer, DeleteApp, Goto, HandlersOK
  <2>4. UNCHANGED <<call, obj, projects, fresh>> /\ pc[s] \in {"lock", "check", "list"}
    BY <2>3, ZenonT(40) DEF Lock, CheckProject, ListApps, Goto
  <2> QED
    BY <1>3, <2>4, Zenon DEF CopyInv, GrantsOK, ProjectCopy, Op, Name
<1> QED
  BY <1>1, <1>2, <1>3, Zenon

-----------------------------------------------------------------------------
\* What a handler may rely on while it holds the lock of project n.

Rely(n) ==
  /\ projects[n] # None => projects'[n] = projects[n]
  /\ n # DefaultAppProjectName =>
       \A a \in Apps : apps'[a] # None /\ apps'[a].spec.project = n
                         => apps[a] # None /\ apps'[a].spec = apps[a].spec

\* The steps that write applications: each leaves the spec of an application
\* alone, removes it, or puts in the spec of the request.
LEMMA AppStep ==
  ASSUME Inv, NEW s \in Procs, Handler(s), NEW a \in Apps, apps'[a] # None
  PROVE  \/ /\ apps[a] # None /\ apps'[a].spec = apps[a].spec
            /\ a \in dropped => a \in dropped'
         \/ /\ CreateApp(s) \/ UpdateApp(s)
            /\ Op(s) \in {"AppCreate", "AppUpdate", "AppUpdateSpec"}
            /\ call[s].spec \in AppSpecs
            /\ apps'[a].spec = Defaulted(call[s].spec)
<1>i. StoreOK
  BY TypeParts, Zenon DEF Inv
<1>j. RequestOK(s) /\ CopyOK(s)
  BY DEF Inv
<1>k. CreateApp(s) \/ UpdateApp(s) \/ dropped \subseteq dropped'
  <2>1. ReplaceProject(s) => dropped \subseteq dropped'
    BY Zenon DEF ReplaceProject
  <2> QED
    BY <2>1, ZenonT(40) DEF Handler, Arrive, GiveUp, Get, Lock, PostProject, CheckProject,
       ListApps, RemoveProject, WriteToken, validateApp, AlreadyExists, GetApp, Conflict,
       PatchFinalizer, DeleteApp
<1>1. CASE UNCHANGED apps /\ ~CreateApp(s) /\ ~UpdateApp(s)
  BY <1>1, <1>k, Zenon
<1>2. CASE CreateApp(s)
  <2>1. Op(s) = "AppCreate" /\ call[s].spec \in AppSpecs
    BY <1>2, <1>j, RequestFacts, Zenon DEF CreateApp, OpsAt
  <2>2. /\ apps' = [apps EXCEPT ![Name(s)] = App(Defaulted(call[s].spec), FALSE, FALSE)]
        /\ dropped' = dropped \ {Name(s)}
    BY <1>2, ZenonT(40) DEF CreateApp
  <2>3. App(Defaulted(call[s].spec), FALSE, FALSE).spec = Defaulted(call[s].spec)
    BY Zenon DEF App
  <2> QED
    BY <1>2, <2>1, <2>2, <2>3, <1>i, ZenonT(40) DEF StoreOK
<1>3. CASE UpdateApp(s)
  <2>1. /\ Op(s) \in {"AppCreate", "AppUpdate", "AppUpdateSpec"}
        /\ call[s].spec \in AppSpecs
    BY <1>3, <1>j, RequestFacts, Zenon DEF UpdateApp, OpsAt
  <2>2. /\ apps' = [apps EXCEPT ![Name(s)] = obj[s]] /\ obj[s].spec = Defaulted(call[s].spec)
        /\ dropped' = dropped \ {Name(s)}
    BY <1>3, <1>j, Zenon DEF UpdateApp, CopyOK, AppCopy
  <2> QED
    BY <1>3, <2>1, <2>2, <1>i DEF StoreOK
<1>4. ASSUME NEW n, NEW c \in BOOLEAN, NEW d \in BOOLEAN, apps[n] # None, n \in Apps,
             apps' = [apps EXCEPT ![n] = Settled(App(@.spec, c, d))]
      PROVE  apps[a] # None /\ apps'[a].spec = apps[a].spec
  <2>1. apps[n] \in AppObjs /\ apps[n].spec.project \in Names
    BY <1>4, <1>i, Zenon DEF StoreOK
  <2>2. Settled(App(apps[n].spec, c, d)) # None
          => Settled(App(apps[n].spec, c, d)).spec = apps[n].spec
    BY <2>1, <1>4, SettledType, SMTT(40)
  <2> QED
    BY <1>4, <2>2, <1>i DEF StoreOK
<1>5. CASE PatchFinalizer(s)
  <2>0. UNCHANGED dropped
    BY <1>5 DEF PatchFinalizer
  <2>1. Name(s) \in Apps /\ call[s].flag \in BOOLEAN
    BY <1>5, <1>j, RequestFacts, Zenon DEF PatchFinalizer, OpsAt, AppOps
  <2>2. CASE apps[Name(s)] # None
             /\ apps' = [apps EXCEPT ![Name(s)] =
                           Settled(App(@.spec, call[s].flag, @.deleting))]
    <3>1. apps[Name(s)].deleting \in BOOLEAN
      BY <2>1, <2>2, <1>i, Zenon DEF StoreOK, AppObjs
    <3> QED
      BY <1>4, <2>0, <2>1, <2>2, <3>1, <1>i, ZenonT(40) DEF StoreOK
  <2>3. CASE UNCHANGED apps
    BY <2>0, <2>3, Zenon
  <2> QED
    BY <1>5, <2>2, <2>3, Zenon DEF PatchFinalizer
<1>6. CASE DeleteApp(s)
  <2>0. UNCHANGED dropped
    BY <1>6 DEF DeleteApp
  <2>1. Name(s) \in Apps
    BY <1>6, <1>j, RequestFacts, Zenon DEF DeleteApp, OpsAt, AppOps
  <2>2. CASE apps[Name(s)] = None
    BY <1>6, <2>1, <2>2, <1>i, Zenon DEF DeleteApp, StoreOK
  <2>3. CASE apps[Name(s)] # None
    <3>1. apps[Name(s)].cascade \in BOOLEAN
      BY <2>1, <2>3, <1>i, Zenon DEF StoreOK, AppObjs
    <3>2. apps' = [apps EXCEPT ![Name(s)] =
                     Settled(App(@.spec, apps[Name(s)].cascade, TRUE))]
      BY <1>6, <2>1, <2>3, <1>i, Zenon DEF DeleteApp, StoreOK
    <3> QED
      BY <1>4, <2>0, <2>1, <2>3, <3>1, <3>2, ZenonT(40)
  <2> QED
    BY <2>2, <2>3, Zenon
<1> QED
  BY <1>1, <1>2, <1>3, <1>5, <1>6, ZenonT(40) DEF Handler, Arrive, GiveUp, Get, Lock, PostProject,
     CheckProject, ListApps, ReplaceProject, RemoveProject, WriteToken, validateApp,
     AlreadyExists, GetApp, Conflict

LEMMA HandlerRely ==
  ASSUME Inv, LockOK, ~mixed, NEW s \in Procs, Handler(s), NEW r \in Procs, r # s,
         pc[r] \in Inside, LockKey(r) \in Names
  PROVE  Rely(LockKey(r))
<1>i. StoreOK
  BY TypeParts, Zenon DEF Inv
<1>j. RequestOK(s)
  BY Zenon DEF Inv
<1>1. pc[s] \in Inside => LockKey(s) # LockKey(r)
  BY SMTT(40) DEF LockOK, Exclusive, OneInstance, Inside
<1>2. \/ UNCHANGED projects
      \/ PostProject(s) \/ ReplaceProject(s) \/ RemoveProject(s) \/ WriteToken(s)
  BY ZenonT(40) DEF Handler, Arrive, GiveUp, Get, Lock, CheckProject, ListApps, validateApp, CreateApp,
     AlreadyExists, GetApp, UpdateApp, Conflict, PatchFinalizer, DeleteApp
<1>3. projects[LockKey(r)] # None => projects'[LockKey(r)] = projects[LockKey(r)]
  <2>1. CASE PostProject(s)
    BY <2>1, <1>i, Zenon DEF PostProject, StoreOK
  <2>2. CASE ReplaceProject(s) \/ RemoveProject(s) \/ WriteToken(s)
    <3>1. pc[s] \in {"replace", "remove", "token"}
      BY <2>2, Zenon DEF ReplaceProject, RemoveProject, WriteToken
    <3>2. LockKey(s) = Name(s)
      BY <3>1, <1>j, RequestFacts, ZenonT(40) DEF OpsAt, LockKey, ProjectOps
    <3>3. Name(s) # LockKey(r)
      BY <1>1, <3>1, <3>2, Zenon DEF Inside
    <3>4. CASE ReplaceProject(s) \/ RemoveProject(s)
      BY <3>3, <3>4, <1>i, Zenon DEF ReplaceProject, RemoveProject, StoreOK
    <3>5. CASE WriteToken(s)
      <4>1. PICK tokens \in SUBSET Tokens :
               projects' = [projects EXCEPT ![Name(s)] = Project(obj[s], tokens)]
        BY <3>5, WriteTokenEffect, Zenon
      <4> QED
        BY <3>3, <4>1, <1>i, Zenon DEF StoreOK
    <3> QED
      BY <2>2, <3>4, <3>5, Zenon
  <2> QED
    BY <1>2, <2>1, <2>2, Zenon
<1>4. ASSUME LockKey(r) # DefaultAppProjectName, NEW a \in Apps, apps'[a] # None,
             apps'[a].spec.project = LockKey(r)
      PROVE  apps[a] # None /\ apps'[a].spec = apps[a].spec
  <2> SUFFICES ASSUME CreateApp(s) \/ UpdateApp(s),
                      Op(s) \in {"AppCreate", "AppUpdate", "AppUpdateSpec"},
                      apps'[a].spec = Defaulted(call[s].spec)
               PROVE  FALSE
    BY <1>4, AppStep, Zenon
  <2>0. Defaulted(call[s].spec).project = GetProject(call[s].spec)
    BY Zenon DEF Defaulted
  <2>1. call[s].spec.project = LockKey(r)
    BY <1>4, <2>0, ZenonT(40) DEF GetProject
  <2>2. pc[s] \in Inside
    BY ZenonT(40) DEF CreateApp, UpdateApp, Inside
  <2>3. LockKey(s) = call[s].spec.project
    BY ZenonT(40) DEF LockKey, ProjectOps
  <2> QED
    BY <1>1, <2>1, <2>2, <2>3, Zenon
<1> QED
  BY <1>3, <1>4, Zenon DEF Rely

-----------------------------------------------------------------------------

\* The invariant is kept.

\* The stages of a handler that does not move.
LEMMA OtherStage ==
  ASSUME Inv, LockedInv, ~mixed, LockOK', NEW s \in Procs, Handler(s),
         NEW r \in Procs, r # s
  PROVE  StageOK(r)'
<1>i. LockOK /\ StageOK(r) /\ RequestOK(r) /\ CopyOK(r)
  BY Zenon DEF LockedInv, Inv
<1>1. UNCHANGED <<pc[r], call[r], obj[r], old[r]>>
  BY OtherSame, Zenon
<1>2. UNCHANGED <<Op(r), Name(r)>>
  BY <1>1, Zenon DEF Op, Name
<1>3. CASE pc[r] \in {"create", "existing", "reload", "write"}
  <2> DEFINE n == GetProject(call[r].spec)
  <2>1. Op(r) \in {"AppCreate", "AppUpdate", "AppUpdateSpec"} /\ call[r].spec \in AppSpecs
    BY <1>3, <1>i, RequestFacts, Zenon DEF OpsAt
  <2>2. Proper(n, call[r].spec)
    BY <1>3, <1>i, Zenon DEF StageOK
  <2>3. CASE n = DefaultAppProjectName
    <3>1. Proper(n, call[r].spec)'
      BY <2>3, <1>1, Zenon DEF LockOK, DefaultExists, Proper
    <3> QED
      BY <1>3, <1>1, <3>1, Zenon DEF StageOK
  <2>4. CASE n # DefaultAppProjectName
    <3>1. LockKey(r) = n /\ n \in Names
      BY <2>1, <2>4, ZenonT(40) DEF GetProject, LockKey, ProjectOps, AppSpecs
    <3>2. Rely(n)
      BY <1>3, <1>i, <3>1, HandlerRely, Zenon DEF Inside
    <3>3. Proper(n, call[r].spec)'
      BY <1>1, <2>2, <3>2, ZenonT(40) DEF Rely, Proper, Within, IsDestinationPermitted, IsSourcePermitted
    <3> QED
      BY <1>3, <1>1, <3>3, Zenon DEF StageOK
  <2> QED
    BY <2>3, <2>4
<1>4. CASE pc[r] \in {"list", "replace", "remove"}
  <2>1. /\ Op(r) \in ProjectOps /\ Name(r) \in Names
        /\ pc[r] = "remove" => Name(r) # DefaultAppProjectName
        /\ pc[r] = "remove" => Op(r) = "ProjectDelete"
    BY <1>4, <1>i, RequestFacts DEF OpsAt, ProjectOps, RequestOK
  <2>2. LockKey(r) = Name(r)
    BY <2>1, ZenonT(40) DEF LockKey, ProjectOps
  <2>3. Rely(Name(r))
    BY <1>4, <1>i, <2>1, <2>2, HandlerRely, Zenon DEF Inside
  <2>4. FilterByProjects(Name(r))' \subseteq FilterByProjects(Name(r))
        \/ Name(r) = DefaultAppProjectName
    <3>1. ASSUME NEW a \in FilterByProjects(Name(r))', Name(r) # DefaultAppProjectName
          PROVE  a \in FilterByProjects(Name(r))
      <4>1. a \in Apps /\ apps'[a] # None /\ apps'[a].spec.project = Name(r)
        BY <1>2, <3>1, ZenonT(40) DEF FilterByProjects, GetProject
      <4>2. apps[a] # None /\ apps'[a].spec = apps[a].spec
        BY <2>3, <3>1, <4>1, Zenon DEF Rely
      <4> QED
        BY <1>2, <3>1, <4>1, <4>2, ZenonT(40) DEF FilterByProjects
    <3> QED
      BY <3>1, Zenon
  <2>5. CASE pc[r] = "remove"
    BY <2>5, <1>i, <1>1, <1>2, <2>1, <2>4, ZenonT(40) DEF StageOK
  <2>6. CASE pc[r] = "list"
    <3>1. CASE Op(r) = "ProjectUpdate"
      <4>0. old[r] \in ProjectObjs
        BY <2>6, <3>1, <1>i DEF CopyOK
      <4>1. old[r] = projects[Name(r)] /\ old[r] # None
        BY <2>6, <3>1, <4>0, <1>i, NoneType DEF StageOK
      <4>2. projects'[Name(r)] = projects[Name(r)]
        BY <4>1, <2>3, Zenon DEF Rely
      <4> QED
        BY <2>6, <1>1, <1>2, <4>1, <4>2, ZenonT(40) DEF StageOK
    <3>2. CASE Op(r) # "ProjectUpdate"
      BY <2>6, <3>2, <1>1, <1>2 DEF StageOK
    <3> QED
      BY <3>1, <3>2, Zenon
  <2>7. CASE pc[r] = "replace"
    <3>1. projects'[Name(r)] = projects[Name(r)] /\ projects[Name(r)] # None
      BY <2>7, <1>i, <2>3, Zenon DEF StageOK, Rely
    <3>2. CASE Name(r) = DefaultAppProjectName
      BY <2>7, <3>1, <3>2, <1>1, <1>2, Zenon DEF StageOK
    <3>3. CASE Name(r) # DefaultAppProjectName
      <4>1. ~RemovedUsed(Name(r), projects[Name(r)], obj[r])
        BY <2>7, <3>3, <1>i, Zenon DEF StageOK
      <4>2. \A a \in FilterByProjects(Name(r))' :
               a \in FilterByProjects(Name(r)) /\ apps'[a].spec = apps[a].spec
        <5> SUFFICES ASSUME NEW a \in FilterByProjects(Name(r))'
                     PROVE  a \in FilterByProjects(Name(r)) /\ apps'[a].spec = apps[a].spec
          OBVIOUS
        <5>1. a \in Apps /\ apps'[a] # None /\ apps'[a].spec.project = Name(r)
          BY <1>2, <3>3, ZenonT(40) DEF FilterByProjects, GetProject
        <5>2. apps'[a].spec = apps[a].spec
          BY <2>3, <3>3, <5>1, Zenon DEF Rely
        <5> QED
          BY <2>4, <3>3, <5>2
      <4>3. ~RemovedUsed(Name(r), projects[Name(r)], obj[r])'
        BY <4>1, <4>2, <3>1, <1>1, <1>2, ZenonT(40) DEF RemovedUsed, getRemovedDestination,
           getRemovedSources
      <4> QED
        BY <2>7, <3>1, <4>3, <1>1, <1>2, Zenon DEF StageOK
    <3> QED
      BY <3>2, <3>3, Zenon
  <2> QED
    BY <1>4, <2>5, <2>6, <2>7, Zenon
<1>5. CASE pc[r] \notin {"create", "existing", "reload", "write", "list", "replace", "remove"}
  BY <1>5, <1>1, ZenonT(40) DEF StageOK
<1> QED
  BY <1>3, <1>4, <1>5

\* An application is among those of the project it names.
LEMMA InItsProject ==
  ASSUME NEW a \in Apps, apps[a] # None, apps[a].spec.project \in Names
  PROVE  a \in FilterByProjects(apps[a].spec.project)
<1>1. apps[a].spec.project # ""
  BY ProjectsAssumption, ZenonT(40)
<1> QED
  BY <1>1, ZenonT(40) DEF FilterByProjects, GetProject

\* The stages of the handler that moves.
LEMMA OwnStage ==
  ASSUME Inv, CopyInv, LockedInv, ~mixed, NEW s \in Procs, Handler(s)
  PROVE  StageOK(s)'
<1>i. StoreOK /\ HandlersOK
  BY TypeParts, Zenon DEF Inv
<1>j. StageOK(s) /\ RequestOK(s) /\ CopyOK(s) /\ GrantsOK(s)
  BY Zenon DEF LockedInv, Inv, CopyInv
<1>k. ASSUME pc'[s] \in {"idle", "get", "post", "lock", "check", "token", "validate", "load",
                         "patch", "delete"}
      PROVE  StageOK(s)'
  BY <1>k, Zenon DEF StageOK
<1>1. CASE Return(s) \/ Arrive(s) \/ Get(s) \/ Lock(s) \/ PatchFinalizer(s)
  <2>1. pc'[s] \in {"idle", "get", "post", "lock", "check", "token", "validate", "load",
                    "patch", "delete"}
    BY <1>1, <1>i, StepType, SMTT(40) DEF Return, Arrive, Get, Lock, PatchFinalizer, Goto, HandlersOK
  <2> QED
    BY <1>k, <2>1, Zenon
<1>2. CASE CheckProject(s)
  <2>1. Op(s) \in {"ProjectUpdate", "ProjectDelete"}
    BY <1>2, <1>j, RequestFacts, Zenon DEF CheckProject, OpsAt
  <2>2. /\ pc'[s] = "list" /\ UNCHANGED <<Op(s), Name(s), projects>>
        /\ Op(s) = "ProjectUpdate" => old'[s] = projects[Name(s)]
    BY <1>2, <1>i, ZenonT(40) DEF CheckProject, Goto, Op, Name, HandlersOK, StoreOK
  <2> QED
    BY <2>2, ZenonT(40) DEF StageOK
<1>3. CASE ListApps(s)
  <2>0. UNCHANGED <<call, projects, apps, obj>> /\ pc[s] = "list"
    BY <1>3, Zenon DEF ListApps, Goto
  <2>1. CASE Op(s) = "ProjectUpdate"
    <3>1. /\ pc'[s] = "replace"
          /\ ~RemovedUsed(Name(s), old[s], ValidateProject(call[s].spec))
      BY <1>3, <2>1, <1>i, Zenon DEF ListApps, Goto, HandlersOK
    <3>2. old[s] = projects[Name(s)] /\ old[s] # None /\ ProjectCopy(s)
      BY <2>0, <2>1, <1>j, NoneType, Zenon DEF StageOK, CopyOK, ProjectCopy
    <3>3. /\ obj[s].dests = ValidateProject(call[s].spec).dests
          /\ obj[s].sources = ValidateProject(call[s].spec).sources
      BY <2>1, <3>2, <1>j, Zenon DEF GrantsOK
    <3>4. ~RemovedUsed(Name(s), projects[Name(s)], obj[s])
      BY <3>1, <3>2, <3>3, ZenonT(40) DEF RemovedUsed, getRemovedDestination, getRemovedSources
    <3>5. ~RemovedUsed(Name(s), projects[Name(s)], obj[s])'
      BY <3>4, <2>0, Zenon DEF RemovedUsed, FilterByProjects, Name
    <3> QED
      BY <3>1, <3>2, <3>5, <2>0, Zenon DEF StageOK, Name
  <2>2. CASE Op(s) = "ProjectDelete"
    <3>1. pc'[s] = "remove" /\ FilterByProjects(Name(s)) = {}
      BY <1>3, <2>2, <1>i, Zenon DEF ListApps, Goto, HandlersOK
    <3>2. FilterByProjects(Name(s))' = {}
      BY <3>1, <2>0, Zenon DEF FilterByProjects, Name
    <3> QED
      BY <3>1, <3>2, Zenon DEF StageOK
  <2> QED
    BY <1>3, <2>1, <2>2 DEF ListApps
<1>4. CASE validateApp(s) \/ AlreadyExists(s) \/ GetApp(s) \/ Conflict(s)
  <2>1. UNCHANGED <<call, projects>>
    BY <1>4, Zenon DEF validateApp, AlreadyExists, GetApp, Conflict, Goto
  <2>2. \/ pc[s] \in {"validate", "create", "existing", "reload", "write"}
        \/ pc'[s] = "validate"
    BY <1>4, <1>i, Zenon DEF validateApp, AlreadyExists, GetApp, Conflict, Goto, HandlersOK
  <2>3. pc'[s] \in {"validate", "create", "existing", "reload", "write"}
    BY <1>4, <1>i DEF validateApp, AlreadyExists, GetApp, Conflict, Goto, HandlersOK
  <2>4. CASE pc'[s] = "validate"
    BY <1>k, <2>4, Zenon
  <2>5. CASE pc'[s] # "validate"
    <3>1. Proper(GetProject(call[s].spec), call[s].spec)
      <4>1. CASE pc[s] = "validate"
        <5>1. validateApp(s)
          BY <1>4, <4>1, Zenon DEF AlreadyExists, GetApp, Conflict
        <5> QED
          BY <5>1, ZenonT(40) DEF validateApp, Permitted, Proper, Within
      <4>2. CASE pc[s] \in {"create", "existing", "reload", "write"}
        BY <4>2, <1>j, Zenon DEF StageOK
      <4> QED
        BY <2>2, <2>5, <4>1, <4>2, Zenon
    <3>2. Proper(GetProject(call[s].spec), call[s].spec)'
      BY <3>1, <2>1, Zenon DEF Proper
    <3> QED
      BY <3>2, <2>3, <2>5, Zenon DEF StageOK
  <2> QED
    BY <2>4, <2>5, Zenon
<1> QED
  BY <1>1, <1>2, <1>3, <1>4, ZenonT(40) DEF Handler, GiveUp, PostProject, ReplaceProject, RemoveProject,
     WriteToken, CreateApp, UpdateApp, DeleteApp

\* AppsProper: by the kind of write.
LEMMA HandlerApps ==
  ASSUME Inv, CopyInv, LockedInv, ~mixed, NEW s \in Procs, Handler(s), LockOK'
  PROVE  AppsProper'
<1>i. StoreOK
  BY TypeParts, Zenon DEF Inv
<1>j. AppsProper /\ StageOK(s) /\ RequestOK(s) /\ CopyOK(s) /\ GrantsOK(s)
  BY Zenon DEF LockedInv, Inv, CopyInv
<1> SUFFICES ASSUME NEW a \in Apps, apps'[a] # None
             PROVE  AppProper(a)'
  BY Zenon DEF AppsProper
<1>1. CASE (CreateApp(s) \/ UpdateApp(s)) /\ apps'[a].spec = Defaulted(call[s].spec)
  <2> DEFINE spec == call[s].spec
  <2>1. Proper(GetProject(spec), spec)
    BY <1>1, <1>j, ZenonT(40) DEF StageOK, CreateApp, UpdateApp
  <2>2. /\ Defaulted(spec).project = GetProject(spec)
        /\ Defaulted(spec).dest = spec.dest /\ Defaulted(spec).source = spec.source
    BY Zenon DEF Defaulted
  <2>3. Proper(Defaulted(spec).project, Defaulted(spec))
    BY <2>1, <2>2, ZenonT(40) DEF Proper, Within
  <2>4. UNCHANGED projects
    BY <1>1, ZenonT(40) DEF CreateApp, UpdateApp
  <2> QED
    BY <1>1, <2>3, <2>4, Zenon DEF AppProper, Proper
<1>2. CASE /\ apps[a] # None /\ apps'[a].spec = apps[a].spec
           /\ a \in dropped => a \in dropped'
  <2> DEFINE spec == apps[a].spec
             n == apps[a].spec.project
  <2>0. /\ n \in Names /\ projects[n] # None
        /\ a \notin dropped /\ n # DefaultAppProjectName => Within(projects[n], spec)
    BY <1>2, <1>i, <1>j, Zenon DEF AppsProper, AppProper, Proper, StoreOK
  <2>1. SUFFICES /\ projects'[n] # None
                 /\ a \notin dropped' /\ n # DefaultAppProjectName
                      => Within(projects'[n], spec)
    BY <1>2 DEF AppProper, Proper
  <2>2. CASE UNCHANGED projects
    BY <1>2, <2>0, <2>2, Zenon
  <2>3. CASE PostProject(s)
    BY <2>0, <2>3, <1>i, Zenon DEF PostProject, StoreOK
  <2>4. CASE RemoveProject(s)
    <3>1. FilterByProjects(Name(s)) = {} /\ Name(s) # n
      <4>1. FilterByProjects(Name(s)) = {}
        BY <2>4, <1>j, Zenon DEF RemoveProject, StageOK
      <4> QED
        BY <4>1, <2>0, <1>2, InItsProject
    <3> QED
      BY <2>0, <2>4, <3>1, <1>i, Zenon DEF RemoveProject, StoreOK
  <2>5. CASE WriteToken(s)
    <3>1. PICK tokens \in SUBSET Tokens :
             projects' = [projects EXCEPT ![Name(s)] = Project(obj[s], tokens)]
      BY <2>5, WriteTokenEffect, Zenon
    <3>2. dropped' = dropped
      BY <2>5, Zenon DEF WriteToken
    <3>3. CASE Name(s) # n
      BY <2>0, <3>1, <3>2, <3>3, <1>i, Zenon DEF StoreOK
    <3>4. CASE Name(s) = n
      <4>1. projects'[n] = Project(obj[s], tokens)
        BY <2>0, <3>1, <3>4, <1>i, Zenon DEF StoreOK
      <4>2. projects'[n] # None
        BY <2>5, <4>1, WriteTokenEffect, RetokenType, NoneType, SMTT(40)
      <4>3. obj[s].dests = projects[n].dests /\ obj[s].sources = projects[n].sources
        BY <2>5, <3>4, <1>j, WriteTokenEffect, Zenon DEF GrantsOK
      <4>4. /\ projects'[n].dests = projects[n].dests
            /\ projects'[n].sources = projects[n].sources
        BY <4>1, <4>3, SMTT(40) DEF Project
      <4> QED
        BY <2>0, <3>2, <4>2, <4>4, ZenonT(40) DEF Within, IsDestinationPermitted,
           IsSourcePermitted
    <3> QED
      BY <3>3, <3>4
  <2>6. CASE ReplaceProject(s)
    <3>1. /\ projects' = [projects EXCEPT ![Name(s)] = obj[s]]
          /\ dropped' = IF DropsWildcard(projects[Name(s)], obj[s])
                       THEN dropped \union FilterByProjects(Name(s)) ELSE dropped
      BY <2>6, Zenon DEF ReplaceProject
    <3>2. CASE Name(s) # n
      BY <2>0, <3>1, <3>2, <1>i, Zenon DEF StoreOK
    <3>3. CASE Name(s) = n
      <4>1. projects'[n] = obj[s] /\ obj[s] # None
        BY <2>0, <2>6, <3>1, <3>3, <1>i, ReplaceEffect, NoneType, Zenon DEF StoreOK
      <4> SUFFICES ASSUME a \notin dropped', n # DefaultAppProjectName
                   PROVE  Within(obj[s], spec)
        BY <4>1, Zenon
      <4>a. a \in FilterByProjects(n)
        BY <2>0, <1>2, InItsProject
      <4>2. ~DropsWildcard(projects[n], obj[s]) /\ a \notin dropped
        BY <3>1, <3>3, <4>a, Zenon
      <4>3. Within(projects[n], spec)
        BY <2>0, <4>2, Zenon
      <4>4. ~RemovedUsed(n, projects[n], obj[s]) /\ a \in FilterByProjects(n)
        BY <2>6, <3>3, <1>j, <4>a, ZenonT(40) DEF ReplaceProject, StageOK
      <4>5. /\ spec.dest \in projects[n].dests => spec.dest \in obj[s].dests
            /\ spec.source \in projects[n].sources => spec.source \in obj[s].sources
        BY <4>4, ZenonT(40) DEF RemovedUsed, getRemovedDestination, getRemovedSources
      <4>6. /\ "*" \in projects[n].sources => "*" \in obj[s].sources
            /\ \A e \in projects[n].dests :
                  e[1] = "*" \/ e[2] = "*" => e \in obj[s].dests
        BY <4>2, Zenon DEF DropsWildcard, HasWildcard, getRemovedDestination, getRemovedSources
      <4>7. spec.dest \in Dests /\ spec.source \in URLs /\ projects[n] \in ProjectObjs
        BY <1>2, <2>0, <1>i, ZenonT(40) DEF StoreOK, AppObjs, AppSpecs
      <4>8. ASSUME IsDestinationPermitted(projects[n], spec.dest)
            PROVE  IsDestinationPermitted(obj[s], spec.dest)
        <5>1. PICK e \in projects[n].dests : /\ e[1] \in {spec.dest[1], "*"}
                                             /\ e[2] \in {spec.dest[2], "*"}
          BY <4>8, Zenon DEF IsDestinationPermitted
        <5>2. e \in STRING \X STRING /\ spec.dest \in STRING \X STRING
          BY <4>7, ProjectsAssumption, ZenonT(40) DEF ProjectObjs
        <5>3. e = spec.dest \/ e[1] = "*" \/ e[2] = "*"
          BY <5>1, <5>2, SMTT(40)
        <5>4. e \in obj[s].dests
          BY <5>1, <5>3, <4>5, <4>6, Zenon
        <5> QED
          BY <5>1, <5>4, Zenon DEF IsDestinationPermitted
      <4>9. ASSUME NormalizeGitURL[spec.source] = spec.source,
                   IsSourcePermitted(projects[n], spec.source)
            PROVE  IsSourcePermitted(obj[s], spec.source)
        <5>1. PICK u \in projects[n].sources :
                 u = "*" \/ NormalizeGitURL[u] = NormalizeGitURL[spec.source]
          BY <4>9, Zenon DEF IsSourcePermitted
        <5>2. Normal(projects[n])
          BY <2>0, Zenon DEF CopyInv, StoredNormal
        <5>3. u = "*" \/ u = spec.source
          BY <5>1, <5>2, <4>9, SMTT(40) DEF Normal
        <5>4. u \in obj[s].sources
          BY <5>1, <5>3, <4>5, <4>6
        <5> QED
          BY <5>1, <5>4, Zenon DEF IsSourcePermitted
      <4> QED
        BY <4>3, <4>8, <4>9, ZenonT(40) DEF Within
    <3> QED
      BY <3>2, <3>3, Zenon
  <2> QED
    BY <2>2, <2>3, <2>4, <2>5, <2>6, ZenonT(40) DEF Handler, Arrive, GiveUp, Get, Lock, CheckProject,
       ListApps, validateApp, CreateApp, AlreadyExists, GetApp, UpdateApp, Conflict,
       PatchFinalizer, DeleteApp
<1> QED
  BY <1>1, <1>2, AppStep, Zenon

LEMMA HandlerLockedInv ==
  ASSUME Inv, CopyInv, LockedInv, NEW s \in Procs, Handler(s)
  PROVE  LockedInv'
<1>1. LockOK'
  BY HandlerLockOK DEF LockedInv
<1>2. ASSUME ~mixed'
      PROVE  AppsProper' /\ \A r \in Procs : StageOK(r)'
  <2>1. ~mixed
    BY <1>2, ZenonT(40) DEF Handler, Arrive, GiveUp, Get, Lock, PostProject, CheckProject,
       ListApps, ReplaceProject, RemoveProject, WriteToken, validateApp, CreateApp,
       AlreadyExists, GetApp, UpdateApp, Conflict, PatchFinalizer, DeleteApp
  <2> QED
    BY <1>1, <2>1, HandlerApps, OwnStage, OtherStage, Zenon
<1> QED
  BY <1>1, <1>2, Zenon DEF LockedInv

LEMMA ControllerLockedInv ==
  ASSUME Inv, CopyInv, LockedInv, NEW b \in Apps, ControllerPatches(b)
  PROVE  CopyInv' /\ LockedInv'
<1> USE DEF Op, Name
<1>i. StoreOK
  BY TypeParts, Zenon DEF Inv
<1>1. UNCHANGED <<projects, call, pc, obj, old, inst, mixed, dropped>> /\ fresh' \subseteq fresh
  BY DEF ControllerPatches, Touch
<1>2. \A a \in Apps : apps'[a] # None => apps'[a] = apps[a]
  BY <1>i, Zenon DEF ControllerPatches, StoreOK
<1>3. CopyInv'
  BY <1>1 DEF CopyInv, StoredNormal, Normal, GrantsOK, ProjectCopy
<1>4. LockOK'
  <2>1. \A r \in Procs : LockKey(r)' = LockKey(r)
    BY <1>1 DEF LockKey
  <2>2. Exclusive'
    BY <1>1, <2>1, Zenon DEF LockedInv, LockOK, Exclusive
  <2> QED
    BY <1>1, <2>2, Zenon DEF LockedInv, LockOK, OneInstance, DefaultExists
<1>5. ASSUME ~mixed
      PROVE  AppsProper'
  BY <1>1, <1>2, <1>5, Zenon DEF LockedInv, AppsProper, AppProper, Proper
<1>6. ASSUME ~mixed, NEW r \in Procs
      PROVE  StageOK(r)'
  <2>1. StageOK(r)
    BY <1>6, Zenon DEF LockedInv
  <2>2. \A n : /\ FilterByProjects(n)' \subseteq FilterByProjects(n)
              /\ \A a \in FilterByProjects(n)' : apps'[a] = apps[a]
    BY <1>2, Zenon DEF FilterByProjects
  <2>3. ~RemovedUsed(Name(r), projects[Name(r)], obj[r])
          => ~RemovedUsed(Name(r), projects[Name(r)], obj[r])'
    BY <1>1, <2>2, Zenon DEF RemovedUsed
  <2>4. FilterByProjects(Name(r)) = {} => FilterByProjects(Name(r))' = {}
    BY <1>1, <2>2
  <2> QED
    BY <1>1, <2>1, <2>3, <2>4, Zenon DEF StageOK, Proper
<1> QED
  BY <1>1, <1>3, <1>4, <1>5, <1>6 DEF LockedInv

LEMMA StillLockedInv ==
  ASSUME CopyInv, LockedInv, UNCHANGED <<projects, apps, call, pc, obj, old, fresh, inst,
                                         mixed, dropped>>
  PROVE  CopyInv' /\ LockedInv'
<1>1. CopyInv'
  BY DEF CopyInv, StoredNormal, GrantsOK, ProjectCopy, Op, Name
<1>2. LockOK'
  <2>1. \A r \in Procs : LockKey(r)' = LockKey(r)
    BY Zenon DEF LockKey, Op, Name
  <2>2. Exclusive'
    BY <2>1, Zenon DEF LockedInv, LockOK, Exclusive
  <2> QED
    BY <2>2, Zenon DEF LockedInv, LockOK, OneInstance, DefaultExists
<1>3. AppsProper => AppsProper'
  BY Zenon DEF AppsProper, AppProper, Proper
<1>4. \A r \in Procs : StageOK(r) => StageOK(r)'
  BY ZenonT(40) DEF StageOK, Proper, RemovedUsed, FilterByProjects, Op, Name
<1> QED
  BY <1>1, <1>2, <1>3, <1>4, Zenon DEF LockedInv

LEMMA LockedInit == Init => CopyInv /\ LockedInv
<1> SUFFICES ASSUME Init
             PROVE  CopyInv /\ LockedInv
  OBVIOUS
<1>1. /\ \A r \in Procs : pc[r] = "idle"
      /\ \A a \in Apps : apps[a] = None
  BY Zenon DEF Init
<1>2. DefaultExists
  <2>1. projects[DefaultAppProjectName]
          = [dests |-> {<<"*", "*">>}, sources |-> {"*"}, tokens |-> {}]
    BY ProjectsAssumption, ZenonT(40) DEF Init, initializeDefaultProject
  <2>2. <<"*", "*">> \in Dests
    BY ProjectsAssumption, ZenonT(40)
  <2>3. projects[DefaultAppProjectName] \in ProjectObjs
    BY <2>1, <2>2 DEF ProjectObjs
  <2> QED
    BY <2>3, NoneType, Zenon DEF DefaultExists
<1>3. StoredNormal
  BY Zenon DEF Init, initializeDefaultProject, StoredNormal, Normal
<1> QED
  BY <1>1, <1>2, <1>3, ZenonT(40) DEF CopyInv, GrantsOK, ProjectCopy, LockedInv, LockOK, Exclusive,
     OneInstance, Inside, AppsProper, StageOK

\* The invariant holds of every reachable state.
THEOREM LockedInvHolds == Spec => [](CopyInv /\ LockedInv)
<1>1. Inv /\ CopyInv /\ LockedInv /\ [Next]_vars => (CopyInv /\ LockedInv)'
  <2> SUFFICES ASSUME Inv, CopyInv, LockedInv, [Next]_vars
               PROVE  CopyInv' /\ LockedInv'
    OBVIOUS
  <2>1. CASE \E s \in Procs : Handler(s)
    BY <2>1, HandlerCopyInv, HandlerLockedInv, Zenon
  <2>2. CASE \E a \in Apps : ControllerPatches(a)
    BY <2>2, ControllerLockedInv, Zenon
  <2>3. CASE RestartServer \/ UNCHANGED vars
    BY <2>3, StillLockedInv, Zenon DEF RestartServer, vars
  <2> QED
    BY <2>1, <2>2, <2>3, Zenon DEF Next
<1> QED
  BY <1>1, LockedInit, InvHolds, PTL DEF Spec

\* AppHasProject, for any number of handlers, projects and applications: with
\* one server instance at a time, projectLock keeps project Delete and the
\* handlers that put an application into a project apart.
THEOREM AppsHaveProjects == Spec => []AppHasProject
<1>1. LockedInv => AppHasProject
  BY Zenon DEF LockedInv, AppsProper, AppProper, AppHasProject
<1> QED
  BY <1>1, LockedInvHolds, PTL

\* AppWithinGrants likewise: what project Update removes is not what an
\* application uses, although the check and the write are three requests apart.
THEOREM GrantsCoverApps == Spec => []AppWithinGrants
<1>1. LockedInv => AppWithinGrants
  BY ZenonT(40) DEF LockedInv, AppsProper, AppProper, Proper, Within, AppWithinGrants
<1> QED
  BY <1>1, LockedInvHolds, PTL
=============================================================================
