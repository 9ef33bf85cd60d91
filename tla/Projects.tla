------------------------------- MODULE Projects -------------------------------
(***************************************************************************)
(* Projects (src/calm/dsl/cli/projects.py), the users of their access       *)
(* control policies (src/calm/dsl/cli/acps.py), their quotas                *)
(* (src/calm/dsl/builtins/models/helper/quotas.py) and the environments     *)
(* they list (src/calm/dsl/cli/environments.py).  There is one project      *)
(* name, as no command touches two, and the policy engine is on.           *)
(*                                                                         *)
(* The server is external: a change of a project is a task, one at a time,  *)
(* and is refused when it was not made from the version the server holds.   *)
(***************************************************************************)
EXTENDS Administrators

CONSTANTS
    User, Role, Quota, NoQuota,
    ProjectRequest   \* what an administrator may ask for

ProjectOp == {"createProject", "deleteProject", "updateProject", "switches", "createAcp", "updateAcp",
              "deleteAcp", "createEnv", "deleteEnv"}

ASSUME ProjectsAssumption ==
    /\ NoQuota \notin Quota
    /\ ProjectRequest \subseteq
         [op : ProjectOp, users : SUBSET User, quota : Quota \cup {NoQuota},
          force : BOOLEAN, env : BOOLEAN, append : BOOLEAN,
          role : Role, add : SUBSET User, remove : SUBSET User]
    \* the quotas of a project are in its file, and no switch sets them
    /\ \A r \in ProjectRequest : r.quota # NoQuota => r.op \in {"createProject", "updateProject"}

VARIABLES
    projects,   \* the project of the name: at most one
    task,       \* its pending task: at most one
    result,     \* how the task each administrator started last has ended
    copy,       \* the project as each command has read it: at most one
    made,       \* the environment each command has created or deleted
    quotas,     \* the policy engine: the quota of each project
    envs,       \* the environments, each of a project
    projectRows,       \* the projects the local cache lists
    projectIds,        \* identities handed out
    unnoticed   \* history: the task of a clean-up failed, which no command reports

projectServer == <<projects, task, result, quotas, envs, projectIds>>
projectOwn == <<projectServer, copy, made, projectRows, unnoticed>>
projectVars == <<projectOwn, admins>>

AcpOp == {"createAcp", "updateAcp", "deleteAcp"}

(* Start with no project, or with one of all users that has an environment *)
(* and perhaps an access control policy for them all.                      *)
ProjectsStart ==
    /\ \/ projects = {} /\ envs = {} /\ projectIds = 0
       \/ /\ \E acps \in SUBSET [role : Role, users : {User}] :
                 projects = {[id |-> 1, version |-> 0, users |-> User, quota |-> NoQuota,
                              envs |-> {2}, acps |-> acps]}
          /\ envs = {[id |-> 2, project |-> 1]}
          /\ projectIds = 2
    /\ task = {}
    /\ result = [a \in Admin |-> "none"]
    /\ copy = [a \in Admin |-> {}]
    /\ made = [a \in Admin |-> {}]
    /\ quotas = {}
    /\ projectRows = {p.id : p \in projects}
    /\ unnoticed = FALSE

ProjectsInit == AdminsInit /\ ProjectsStart

-----------------------------------------------------------------------------
ProjectType ==
    [id : Nat, version : Nat, users : SUBSET User, quota : Quota \cup {NoQuota},
     envs : SUBSET Nat, acps : SUBSET [role : Role, users : SUBSET User]]

ProjectStage ==
    {"idle", "lookup", "usage", "delete", "pollDelete", "post", "pollCreate", "read", "put",
     "pollPut", "cleanUp", "pollCleanUp", "enable", "setQuota", "makeEnv", "dropEnv",
     "join", "pollJoin", "fetchRow", "writeRow"}

ProjectsTypeOK ==
    /\ projects \subseteq ProjectType
    /\ task \subseteq [by : Admin, good : SUBSET ProjectType, bad : SUBSET ProjectType]
    /\ result \in [Admin -> {"none", "pending", "succeeded", "failed"}]
    /\ copy \in [Admin -> SUBSET ProjectType]
    /\ made \in [Admin -> SUBSET Nat]
    /\ quotas \subseteq [project : Nat, limit : Quota]
    /\ envs \subseteq [id : Nat, project : Nat]
    /\ projectRows \subseteq Nat
    /\ projectIds \in Nat
    /\ unnoticed \in BOOLEAN

(* A task: what its success makes of the project, and what its failure.    *)
Submit(a, good, bad) ==
    /\ task = {}
    /\ task' = {[by |-> a, good |-> good, bad |-> bad]}
    /\ result' = [result EXCEPT ![a] = "pending"]

NextVersion(ps) == {[p EXCEPT !.version = @ + 1] : p \in ps}

TaskEnds ==
    \E t \in task :
        /\ task' = {}
        /\ \/ /\ projects' = NextVersion(t.good)
              /\ result' = [result EXCEPT ![t.by] = "succeeded"]
           \/ /\ projects' = NextVersion(t.bad)
              /\ result' = [result EXCEPT ![t.by] = "failed"]
        /\ UNCHANGED <<quotas, envs, projectIds, copy, made, projectRows, unnoticed, admins>>

(* The end of a call that changes something: its effect, and where the      *)
(* command goes when it is told so.                                        *)
Carried(a, s) == Proceed(a, s) \/ Fail(a)

Refused(a) == Fail(a) /\ UNCHANGED <<projectServer, copy, made, projectRows, unnoticed>>

(* Commands that are not meant to run at the same time: one that creates or *)
(* deletes the project with any other, two that create and delete            *)
(* environments.                                                           *)
ProjectClash(r, q) ==
    \/ {r.op, q.op} \cap {"createProject", "deleteProject"} # {}
    \/ {r.op, q.op} = {"createEnv", "deleteEnv"}

FirstStage(r) ==
    CASE r.op = "createProject" -> IF r.force THEN "lookup" ELSE "post"
      [] r.op = "deleteProject" -> "delete"
      [] r.op = "createEnv" -> "makeEnv"
      [] r.op = "deleteEnv" -> "dropEnv"
      [] OTHER -> "read"

(* Bound: what follows a command that has ended with an error, of which no  *)
(* property below says anything, is not explored.                          *)
ProjectBegin(a) ==
    /\ complained = {}
    /\ \E r \in ProjectRequest : Start(a, r, FirstStage(r), ProjectClash)
    /\ copy' = [copy EXCEPT ![a] = {}]
    /\ made' = [made EXCEPT ![a] = {}]
    /\ UNCHANGED <<projectServer, projectRows, unnoticed>>

-----------------------------------------------------------------------------
(* create project: with --force, an unused project of the name is deleted. *)
Lookup(a) ==
    /\ stage[a] = "lookup"
    /\ Proceed(a, IF projects = {} THEN "post" ELSE "usage")
    /\ UNCHANGED <<projectServer, copy, made, projectRows, unnoticed>>

(* What still uses the project, or what an update takes from it, stops the  *)
(* command; usage is the server's to know.                                 *)
Usage(a) ==
    /\ stage[a] = "usage"
    /\ \/ Proceed(a, IF request[a].op = "createProject" THEN "delete"
                     ELSE IF request[a].quota # NoQuota THEN "enable" ELSE "put")
       \/ Fail(a)
    /\ UNCHANGED <<projectServer, copy, made, projectRows, unnoticed>>

AfterDelete(a) == IF request[a].op = "createProject" THEN "post" ELSE "idle"

(* A project that is not there is a warning, one that cannot be deleted an  *)
(* error, and neither stops delete_project.  (Between the lookup of the     *)
(* name and the call the project may have gone: the call is refused.)       *)
Delete(a) ==
    /\ stage[a] = "delete"
    /\ \/ /\ projects = {}
          /\ Proceed(a, AfterDelete(a))
          /\ UNCHANGED <<projectServer, copy>>
       \/ /\ projects # {}
          /\ Complain(a, AfterDelete(a))
          /\ UNCHANGED <<projectServer, copy>>
       \/ /\ projects # {}
          /\ Submit(a, {}, projects)
          /\ copy' = [copy EXCEPT ![a] = projects]
          /\ Proceed(a, "pollDelete") \/ Complain(a, AfterDelete(a))
          /\ UNCHANGED <<projects, quotas, envs, projectIds>>
    /\ UNCHANGED <<made, projectRows, unnoticed>>

PollDelete_RowStays(a) == \* Mutant: the row is left to the next update of the cache
    /\ stage[a] = "pollDelete"
    /\ \/ result[a] = "succeeded" /\ Proceed(a, AfterDelete(a))
       \/ result[a] \in {"pending", "failed"} /\ Fail(a)
       \/ result[a] = "pending" /\ GiveUp(a, AfterDelete(a))
    /\ UNCHANGED <<projectServer, copy, made, projectRows, unnoticed>>

(* A poll that gives up is no failure: the row goes all the same.          *)
PollDelete(a) ==
    /\ stage[a] = "pollDelete"
    /\ \/ /\ \/ result[a] = "succeeded" /\ Proceed(a, AfterDelete(a))
             \/ result[a] = "pending" /\ GiveUp(a, AfterDelete(a))
          /\ projectRows' = projectRows \ {p.id : p \in copy[a]}
       \/ /\ result[a] \in {"pending", "failed"}
          /\ Fail(a)
          /\ UNCHANGED projectRows
    /\ UNCHANGED <<projectServer, copy, made, unnoticed>>

(* The name of a project is taken once.  The project is listed at once; its *)
(* creation is a task.                                                     *)
Post(a) ==
    /\ stage[a] = "post"
    /\ \/ /\ projects = {}
          /\ projects' = {[id |-> projectIds + 1, version |-> 0, users |-> request[a].users,
                           quota |-> request[a].quota, envs |-> {}, acps |-> {}]}
          /\ projectIds' = projectIds + 1
          /\ copy' = [copy EXCEPT ![a] = projects']
          /\ Submit(a, projects', {})
          /\ Carried(a, "pollCreate")
          /\ UNCHANGED <<quotas, envs, made, projectRows, unnoticed>>
       \/ Refused(a)

-----------------------------------------------------------------------------
(* update, from a file or by switches, and the commands on access control  *)
(* policies: read the project, and put it back changed.                    *)

HasAcp(p, role) == \E acp \in p.acps : acp.role = role

(* What the command itself refuses, on the project it has read.            *)
Rejects(r, p) ==
    CASE r.op = "switches" -> ~ r.remove \subseteq p.users
      [] r.op = "createAcp" -> r.add = {} \/ ~ r.add \subseteq p.users \/ HasAcp(p, r.role)
      [] r.op = "updateAcp" ->
            \/ r.add \cup r.remove = {} \/ r.add \cap r.remove # {}
            \/ ~ r.add \subseteq p.users
            \/ ~ \E acp \in p.acps : acp.role = r.role /\ r.remove \subseteq acp.users
      [] r.op = "deleteAcp" -> ~ HasAcp(p, r.role)
      [] OTHER -> FALSE

AfterRead_Policies(r) == \* Mutant: a command on policies goes on to a step it does not have
    IF r.op \in AcpOp THEN "putPolicies" ELSE "usage"

AfterRead(r) ==
    IF r.op \in AcpOp THEN "put"
    ELSE IF ~ r.append THEN "usage"
    ELSE IF r.quota # NoQuota THEN "enable" ELSE "put"

Read(a) ==
    /\ stage[a] = "read"
    /\ \/ \E p \in projects :
            /\ ~ Rejects(request[a], p)
            /\ copy' = [copy EXCEPT ![a] = {p}]
            /\ Proceed(a, AfterRead(request[a]))
            /\ UNCHANGED <<projectServer, made, projectRows, unnoticed>>
       \/ Refused(a)

Changed(acps, r) ==
    {IF acp.role = r.role THEN [acp EXCEPT !.users = (@ \ r.remove) \cup r.add] ELSE acp :
        acp \in acps}

(* The project the command puts; the quota in the file, none included,      *)
(* replaces the one in the project.                                        *)
Wanted(r, p) ==
    CASE r.op = "updateProject" ->
            [p EXCEPT !.users = IF r.append THEN @ \cup r.users ELSE r.users,
                      !.quota = r.quota]
      [] r.op = "switches" -> [p EXCEPT !.users = (@ \ r.remove) \cup r.add]
      [] r.op = "createAcp" -> [p EXCEPT !.acps = @ \cup {[role |-> r.role, users |-> r.add]}]
      [] r.op = "updateAcp" -> [p EXCEPT !.acps = Changed(@, r)]
      [] r.op = "deleteAcp" -> [p EXCEPT !.acps = {acp \in @ : acp.role # r.role}]
      [] OTHER -> p

Put(a) ==
    /\ stage[a] = "put"
    /\ \/ /\ copy[a] \subseteq projects
          /\ Submit(a, {Wanted(request[a], p) : p \in copy[a]}, copy[a])
          /\ Carried(a, "pollPut")
          /\ UNCHANGED <<projects, quotas, envs, projectIds, copy, made, projectRows, unnoticed>>
       \/ Refused(a)

Dropped_None(r, p) == \* Mutant: an update from a file leaves the policies alone
    IF r.op = "switches" THEN r.remove ELSE {}

(* The users to take out of the project's access control policies.         *)
Dropped(r, p) ==
    CASE r.op = "updateProject" -> p.users \ Wanted(r, p).users
      [] r.op = "switches" -> r.remove
      [] OTHER -> {}

(* remove_users_from_project_acps reads the project again and puts it back *)
(* at once, with the version it has just read.                             *)
CleanUp(a) ==
    /\ stage[a] = "cleanUp"
    /\ \/ \E p \in projects, q \in copy[a] :
            /\ p.id = q.id
            /\ LET gone == Dropped(request[a], q)
                   acps == {[acp EXCEPT !.users = @ \ gone] : acp \in p.acps}
               IN  Submit(a, {[p EXCEPT !.acps = acps]}, {p})
            /\ Carried(a, "pollCleanUp")
            /\ UNCHANGED <<projects, quotas, envs, projectIds, copy, made, projectRows, unnoticed>>
       \/ Refused(a)

(* Nobody looks at how that task ended.                                    *)
PollCleanUp(a) ==
    /\ stage[a] = "pollCleanUp"
    /\ \/ result[a] \in {"succeeded", "failed"} /\ Proceed(a, "fetchRow")
       \/ result[a] = "pending" /\ (GiveUp(a, "fetchRow") \/ Fail(a))
    /\ unnoticed' = (unnoticed \/ result[a] = "failed")
    /\ UNCHANGED <<projectServer, copy, made, projectRows>>

-----------------------------------------------------------------------------
(* Quotas: enabled, then set, before the project itself is put.            *)
Enable(a) ==
    /\ stage[a] = "enable"
    /\ Carried(a, "setQuota")
    /\ UNCHANGED <<projectServer, copy, made, projectRows, unnoticed>>

SetQuota_OnlyNew(a) == \* Mutant: a quota that is there already is not replaced
    /\ stage[a] = "setQuota"
    /\ \E p \in copy[a] :
         quotas' = IF \E q \in quotas : q.project = p.id THEN quotas
                   ELSE quotas \cup {[project |-> p.id, limit |-> request[a].quota]}
    /\ Carried(a, IF request[a].op = "createProject" THEN "fetchRow" ELSE "put")
    /\ UNCHANGED <<projects, task, result, envs, projectIds, copy, made, projectRows, unnoticed>>

(* A listing of the quotas that fails is logged, and then taken for one      *)
(* that has none: another quota is created beside the one there is.        *)
SetQuota(a) ==
    /\ stage[a] = "setQuota"
    /\ LET next == IF request[a].op = "createProject" THEN "fetchRow" ELSE "put"
       IN  \/ /\ \E p \in copy[a] :
                   quotas' = {q \in quotas : q.project # p.id}
                                \cup {[project |-> p.id, limit |-> request[a].quota]}
              /\ Carried(a, next)
              /\ UNCHANGED <<projects, task, result, envs, projectIds, copy, made, projectRows, unnoticed>>
           \/ /\ \E p \in copy[a] :
                   quotas' = quotas \cup {[project |-> p.id, limit |-> request[a].quota]}
              /\ Complain(a, next) \/ Fail(a)
              /\ UNCHANGED <<projects, task, result, envs, projectIds, copy, made, projectRows, unnoticed>>
           \/ Refused(a)

-----------------------------------------------------------------------------
(* Environments: created or deleted first, then joined to the project.     *)
MakeEnv(a) ==
    /\ stage[a] = "makeEnv"
    /\ \/ \E p \in projects :
            /\ projectIds' = projectIds + 1
            /\ envs' = envs \cup {[id |-> projectIds + 1, project |-> p.id]}
            /\ made' = [made EXCEPT ![a] = {projectIds + 1}]
            /\ copy' = [copy EXCEPT ![a] = {p}]
            /\ Carried(a, "join")
            /\ UNCHANGED <<projects, task, result, quotas, projectRows, unnoticed>>
       \/ Refused(a)

DropEnv(a) ==
    /\ stage[a] = "dropEnv"
    /\ \/ \E e \in envs, p \in projects :
            /\ e.project = p.id
            /\ envs' = envs \ {e}
            /\ made' = [made EXCEPT ![a] = {e.id}]
            /\ copy' = [copy EXCEPT ![a] = {p}]
            /\ Carried(a, "join")
            /\ UNCHANGED <<projects, task, result, quotas, projectIds, projectRows, unnoticed>>
       \/ Refused(a)

Joined_Replaced(r, es, new) == \* Mutant: an environment replaces those there are
    IF r.op = "deleteEnv" THEN es \ new ELSE new

(* create project lists the environments it has made, and no other.        *)
Joined(r, es, new) ==
    CASE r.op = "createProject" -> new
      [] r.op = "createEnv" -> es \cup new
      [] r.op = "deleteEnv" -> es \ new

(* The project is read again and put back at once.                         *)
Join(a) ==
    /\ stage[a] = "join"
    /\ \/ \E p \in projects, q \in copy[a] :
            /\ p.id = q.id
            /\ Submit(a, {[p EXCEPT !.envs = Joined(request[a], @, made[a])]}, {p})
            /\ Carried(a, "pollJoin")
            /\ UNCHANGED <<projects, quotas, envs, projectIds, copy, made, projectRows, unnoticed>>
       \/ Refused(a)

-----------------------------------------------------------------------------
AfterPoll(a) ==
    LET r == request[a]
    IN  CASE stage[a] = "pollCreate" -> IF r.quota # NoQuota THEN "enable" ELSE "fetchRow"
          [] stage[a] = "pollJoin" \/ r.op \in AcpOp -> "idle"
          [] \E p \in copy[a] : Dropped(r, p) # {} -> "cleanUp"
          [] OTHER -> "fetchRow"

Poll_AnyEnd(a) == \* Mutant: a task that has ended is taken for one that has succeeded
    /\ stage[a] \in {"pollCreate", "pollPut", "pollJoin"}
    /\ \/ result[a] \in {"succeeded", "failed"} /\ Proceed(a, AfterPoll(a))
       \/ result[a] = "pending" /\ (Fail(a) \/ GiveUp(a, AfterPoll(a)))
    /\ UNCHANGED <<projectServer, copy, made, projectRows, unnoticed>>

Poll_Endless(a) == \* Mutant: the poll waits for the end of the task
    /\ stage[a] \in {"pollCreate", "pollPut", "pollJoin"}
    /\ result[a] # "pending"
    /\ IF result[a] = "succeeded" THEN Proceed(a, AfterPoll(a)) ELSE Fail(a)
    /\ UNCHANGED <<projectServer, copy, made, projectRows, unnoticed>>

(* watch_project_task reads the task ten times; an error raises, and after *)
(* the tenth read it returns nothing, which no caller takes for a failure. *)
Poll(a) ==
    /\ stage[a] \in {"pollCreate", "pollPut", "pollJoin"}
    /\ \/ result[a] = "succeeded" /\ Proceed(a, AfterPoll(a))
       \/ result[a] = "failed" /\ Fail(a)
       \/ result[a] = "pending" /\ (Fail(a) \/ GiveUp(a, AfterPoll(a)))
    /\ UNCHANGED <<projectServer, copy, made, projectRows, unnoticed>>

(* The row of the cache is made from a project read by its identity.       *)
FetchRow(a) ==
    /\ stage[a] = "fetchRow"
    /\ IF \E p \in projects, q \in copy[a] : p.id = q.id
         THEN Proceed(a, "writeRow") ELSE Fail(a)
    /\ UNCHANGED <<projectServer, copy, made, projectRows, unnoticed>>

(* add_one makes a row, update_one changes the one there is.               *)
WriteRow(a) ==
    /\ stage[a] = "writeRow"
    /\ projectRows' =
         IF request[a].op = "createProject" THEN projectRows \cup {p.id : p \in copy[a]} ELSE projectRows
    /\ Proceed(a, IF request[a].op = "createProject" /\ request[a].env THEN "makeEnv" ELSE "idle")
    /\ UNCHANGED <<projectServer, copy, made, unnoticed>>

ProjectWork(a) ==
    \/ Lookup(a) \/ Usage(a) \/ Delete(a) \/ PollDelete(a) \/ Post(a) \/ Read(a) \/ Put(a)
    \/ CleanUp(a) \/ PollCleanUp(a) \/ Enable(a) \/ SetQuota(a) \/ MakeEnv(a) \/ DropEnv(a)
    \/ Join(a) \/ Poll(a) \/ FetchRow(a) \/ WriteRow(a)

ProjectsFinished == Quiet /\ (Exhausted \/ complained # {}) /\ UNCHANGED projectVars

ProjectsNext ==
    \/ \E a \in Admin : ProjectBegin(a) \/ ProjectWork(a)
    \/ TaskEnds
    \/ ProjectsFinished

ProjectsSpec == ProjectsInit /\ [][ProjectsNext]_projectVars

-----------------------------------------------------------------------------
(* Nothing is under way, and nobody was told of an error.                  *)
ProjectsSettled == Quiet /\ task = {} /\ complained = {}

(* Whatever the order in which administrators change the users of the       *)
(* project and those of its policies, once all is done without an error     *)
(* nobody has a role in a project he is not a user of - unless the task     *)
(* that was to see to it failed or was still pending when its poll gave up, *)
(* which no command notices.                                               *)
MembersOnly ==
    ProjectsSettled /\ patient /\ ~ unnoticed =>
        \A p \in projects : \A acp \in p.acps : acp.users \subseteq p.users

(* A quota of the project's specification is the one the policy engine      *)
(* enforces, although the two are set by calls of different commands: they  *)
(* may only part when an update slips between creation and its quota.       *)
QuotaAgrees ==
    ProjectsSettled /\ patient /\ ~ overlapped =>
        \A p \in projects : p.quota # NoQuota =>
            {q \in quotas : q.project = p.id} = {[project |-> p.id, limit |-> p.quota]}

(* The cache lists the project exactly as long as the server has it, and    *)
(* the project lists its environments and no others, whoever created or     *)
(* deleted them - unless commands overlap: creation lists its own           *)
(* environments only.                                                      *)
ListsAgree ==
    ProjectsSettled /\ patient /\ ~ overlapped =>
        /\ projectRows = {p.id : p \in projects}
        /\ \A p \in projects : p.envs = {e.id : e \in {e \in envs : e.project = p.id}}

(* A creation that ends without an error leaves the whole project it was    *)
(* asked for, and a deletion leaves none.                                  *)
ProjectEndsAsAsked ==
    [][\A a \in Admin : EndsSilently(a) /\ complained' = {} /\ patient' /\ ~ overlapped' =>
         LET r == request[a]
         IN  /\ r.op = "createProject" =>
                    \E p \in projects' :
                       /\ p.users = r.users /\ p.quota = r.quota /\ p.id \in projectRows'
                       /\ r.env => \E e \in envs' : e.project = p.id /\ e.id \in p.envs
             /\ r.op = "deleteProject" => projects' = {}]_projectVars
=============================================================================
