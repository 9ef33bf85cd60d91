---------------------------- MODULE ProjectsProofs ----------------------------
(* Theorems about Projects, for every set of administrators, users, roles   *)
(* and quotas, any number of commands and every request: nobody keeps a     *)
(* role in a project he is not a user of, the quota of a project is the one *)
(* the policy engine enforces, and the lists of projects and environments   *)
(* name what there is.                                                     *)
EXTENDS Projects, TLAPS

(* What is known of a project, and what a change of one of its parts does.  *)
LEMMA ProjectParts ==
    ASSUME NEW p \in ProjectType
    PROVE  /\ p.id \in Nat /\ p.version \in Nat /\ p.users \subseteq User /\ p.envs \subseteq Nat
           /\ p.quota \in Quota \cup {NoQuota}
           /\ p.acps \subseteq [role : Role, users : SUBSET User]
BY DEF ProjectType

LEMMA Variants ==
    ASSUME NEW p \in ProjectType
    PROVE  /\ LET q == [p EXCEPT !.version = @ + 1]
              IN  q \in ProjectType /\ q.users = p.users /\ q.acps = p.acps /\ q.id = p.id
           /\ \A es \in SUBSET Nat :
                 LET q == [p EXCEPT !.envs = es]
                 IN  q \in ProjectType /\ q.users = p.users /\ q.acps = p.acps
           /\ \A acps \in SUBSET [role : Role, users : SUBSET User] :
                 LET q == [p EXCEPT !.acps = acps]
                 IN  q \in ProjectType /\ q.users = p.users /\ q.acps = acps
           /\ \A us \in SUBSET User :
                 LET q == [p EXCEPT !.users = us]
                 IN  q \in ProjectType /\ q.users = us /\ q.acps = p.acps
           /\ \A us \in SUBSET User, k \in Quota \cup {NoQuota} :
                 LET q == [p EXCEPT !.users = us, !.quota = k]
                 IN  q \in ProjectType /\ q.users = us /\ q.acps = p.acps
<1> USE DEF ProjectType
<1>1. LET q == [p EXCEPT !.version = @ + 1]
      IN  q \in ProjectType /\ q.users = p.users /\ q.acps = p.acps /\ q.id = p.id
  OBVIOUS
<1>2. ASSUME NEW es \in SUBSET Nat
      PROVE  LET q == [p EXCEPT !.envs = es]
             IN  q \in ProjectType /\ q.users = p.users /\ q.acps = p.acps
  OBVIOUS
<1>3. ASSUME NEW acps \in SUBSET [role : Role, users : SUBSET User]
      PROVE  LET q == [p EXCEPT !.acps = acps]
             IN  q \in ProjectType /\ q.users = p.users /\ q.acps = acps
  OBVIOUS
<1>4. ASSUME NEW us \in SUBSET User
      PROVE  LET q == [p EXCEPT !.users = us]
             IN  q \in ProjectType /\ q.users = us /\ q.acps = p.acps
  OBVIOUS
<1>5. ASSUME NEW us \in SUBSET User, NEW k \in Quota \cup {NoQuota}
      PROVE  LET q == [p EXCEPT !.users = us, !.quota = k]
             IN  q \in ProjectType /\ q.users = us /\ q.acps = p.acps
  OBVIOUS
<1> HIDE DEF ProjectType
<1> QED
  BY <1>1, <1>2, <1>3, <1>4, <1>5

LEMMA RequestOf ==
    ASSUME NEW r \in ProjectRequest
    PROVE  /\ r.op \in ProjectOp /\ r.users \subseteq User /\ r.quota \in Quota \cup {NoQuota}
           /\ r.force \in BOOLEAN /\ r.env \in BOOLEAN /\ r.append \in BOOLEAN
           /\ r.role \in Role /\ r.add \subseteq User /\ r.remove \subseteq User
BY ProjectsAssumption

(* What a command puts is a project.                                       *)
LEMMA WantedIs ==
    ASSUME NEW r \in ProjectRequest, NEW p \in ProjectType
    PROVE  Wanted(r, p) \in ProjectType
<1>1. p.users \subseteq User /\ p.acps \subseteq [role : Role, users : SUBSET User]
  BY ProjectParts
<1>2. CASE r.op = "updateProject"
  <2>1. (IF r.append THEN p.users \cup r.users ELSE r.users) \in SUBSET User
    BY <1>1, RequestOf
  <2> QED
    BY <1>2, <2>1, RequestOf, Variants DEF Wanted
<1>3. CASE r.op = "switches"
  BY <1>1, <1>3, RequestOf, Variants DEF Wanted
<1>4. CASE r.op = "createAcp"
  <2>1. [role |-> r.role, users |-> r.add] \in [role : Role, users : SUBSET User]
    BY RequestOf
  <2> QED
    BY <1>1, <1>4, <2>1, Variants DEF Wanted
<1>5. CASE r.op = "updateAcp"
  <2>1. \A acp \in p.acps :
          [acp EXCEPT !.users = (@ \ r.remove) \cup r.add] \in [role : Role, users : SUBSET User]
    BY <1>1, RequestOf
  <2>2. Changed(p.acps, r) \in SUBSET [role : Role, users : SUBSET User]
    BY <1>1, <2>1 DEF Changed
  <2> QED
    BY <1>5, <2>2, Variants DEF Wanted
<1>6. CASE r.op = "deleteAcp"
  BY <1>1, <1>6, Variants DEF Wanted
<1>7. CASE r.op \notin {"updateProject", "switches", "createAcp", "updateAcp", "deleteAcp"}
  BY <1>7 DEF Wanted
<1> QED
  BY <1>2, <1>3, <1>4, <1>5, <1>6, <1>7

(* A command at work was asked for something.                              *)
ProjectAsked == \A a \in Admin : ~ Idle(a) => request[a] \in ProjectRequest

(* The stages of a command are those of what it was asked for: creation,    *)
(* deletion, update, change of policies, of environments.                  *)
StagesOf(op) ==
    CASE op = "createProject" -> {"lookup", "usage", "delete", "pollDelete", "post", "pollCreate", "enable",
                                  "setQuota", "fetchRow", "writeRow", "makeEnv", "join", "pollJoin"}
      [] op = "deleteProject" -> {"delete", "pollDelete"}
      [] op \in {"updateProject", "switches"} ->
            {"read", "usage", "enable", "setQuota", "put", "pollPut", "cleanUp", "pollCleanUp", "fetchRow",
             "writeRow"}
      [] op \in AcpOp -> {"read", "put", "pollPut"}
      [] OTHER -> {"makeEnv", "dropEnv", "join", "pollJoin"}

InItsStages ==
    \A a \in Admin : ~ Idle(a) =>
        /\ stage[a] \in StagesOf(request[a].op)
        /\ stage[a] \in {"enable", "setQuota"} => request[a].quota # NoQuota

ProjectStateOK ==
    AdminsTypeOK(ProjectStage, ProjectRequest) /\ ProjectAsked /\ InItsStages /\ ProjectsTypeOK

LEMMA ProjectsInitOK == ProjectsInit => ProjectStateOK
<1> SUFFICES ASSUME ProjectsInit PROVE ProjectStateOK
  OBVIOUS
<1> USE DEF ProjectsInit, AdminsInit, ProjectsStart
<1>1. AdminsTypeOK(ProjectStage, ProjectRequest)
  BY AdministratorsAssumption DEF AdminsTypeOK, ProjectStage
<1>2. projects \subseteq ProjectType
  BY DEF ProjectType
<1>3. projectRows \subseteq Nat
  BY <1>2, ProjectParts
<1>4. envs \subseteq [id : Nat, project : Nat] /\ projectIds \in Nat
  OBVIOUS
<1>5. /\ task = {} /\ quotas = {} /\ unnoticed = FALSE
      /\ result = [a \in Admin |-> "none"]
      /\ copy = [a \in Admin |-> {}] /\ made = [a \in Admin |-> {}]
  OBVIOUS
<1>6. ProjectsTypeOK
  BY ONLY <1>2, <1>3, <1>4, <1>5 DEF ProjectsTypeOK
<1> QED
  BY <1>1, <1>6 DEF ProjectStateOK, ProjectAsked, InItsStages, Idle

(* A step of a command at work is its own, and leaves the requests alone;   *)
(* what went wrong once is not forgotten.                                  *)
LEMMA ProjectWorkFrame ==
    ASSUME ProjectStateOK, NEW a \in Admin, ProjectWork(a)
    PROVE  /\ AdminsTypeOK(ProjectStage, ProjectRequest)'
           /\ ProjectAsked' /\ request[a] \in ProjectRequest
           /\ \A b \in Admin \ {a} : stage'[b] = stage[b]
           /\ request' = request
           /\ complained \subseteq complained'
           /\ patient' => patient
<1> DEFINE Frame ==
        /\ \E s \in ProjectStage : stage' = [stage EXCEPT ![a] = s]
        /\ complained' \in SUBSET (complained \cup {a}) /\ complained \subseteq complained'
        /\ patient' \in {patient, FALSE}
        /\ UNCHANGED <<request, started, overlapped>>
<1> USE DEF Proceed, Fail, Complain, GiveUp, Goto, Carried, Refused, ProjectStage
<1>1. ASSUME Lookup(a) \/ Usage(a) \/ Delete(a) \/ PollDelete(a) PROVE Frame
  BY <1>1 DEF Lookup, Usage, Delete, PollDelete, AfterDelete, ProjectStateOK, AdminsTypeOK
<1>2. ASSUME Post(a) \/ Read(a) \/ Put(a) \/ CleanUp(a) \/ PollCleanUp(a) PROVE Frame
  BY <1>2 DEF Post, Read, AfterRead, Put, CleanUp, PollCleanUp, ProjectStateOK, AdminsTypeOK
<1>3. ASSUME Enable(a) \/ SetQuota(a) \/ MakeEnv(a) \/ DropEnv(a) PROVE Frame
  BY <1>3 DEF Enable, SetQuota, MakeEnv, DropEnv, ProjectStateOK, AdminsTypeOK
<1>4. ASSUME Join(a) \/ Poll(a) \/ FetchRow(a) \/ WriteRow(a) PROVE Frame
  <2>1. AfterPoll(a) \in ProjectStage
    BY DEF AfterPoll
  <2> QED
    BY <1>4, <2>1 DEF Join, Poll, FetchRow, WriteRow, ProjectStateOK, AdminsTypeOK
<1>5. Frame
  BY <1>1, <1>2, <1>3, <1>4 DEF ProjectWork
<1>6. patient' \in BOOLEAN /\ (patient' => patient)
  <2>1. patient \in BOOLEAN
    BY DEF ProjectStateOK, AdminsTypeOK
  <2>2. patient' = patient \/ patient' = FALSE
    BY <1>5
  <2>3. CASE patient' = patient
    <3>1. patient' \in BOOLEAN
      BY ONLY <2>1, <2>3
    <3> QED
      BY ONLY <2>3, <3>1
  <2>4. CASE patient' = FALSE
    BY ONLY <2>4
  <2> QED
    BY <2>2, <2>3, <2>4
<1>7. PICK s \in ProjectStage : stage' = [stage EXCEPT ![a] = s]
  BY <1>5
<1>8. AdminsTypeOK(ProjectStage, ProjectRequest)'
  BY <1>5, <1>6, <1>7 DEF ProjectStateOK, AdminsTypeOK
<1>9. \A b \in Admin \ {a} : stage'[b] = stage[b]
  BY <1>7 DEF ProjectStateOK, AdminsTypeOK
<1>10. ~ Idle(a)
  BY DEF ProjectWork, Idle, Lookup, Usage, Delete, PollDelete, Post, Read, Put, CleanUp, PollCleanUp,
     Enable, SetQuota, MakeEnv, DropEnv, Join, Poll, FetchRow, WriteRow
<1>11. request[a] \in ProjectRequest /\ ProjectAsked'
  BY <1>5, <1>9, <1>10 DEF ProjectStateOK, ProjectAsked, Idle
<1> QED
  BY <1>5, <1>6, <1>8, <1>9, <1>11

-----------------------------------------------------------------------------
LEMMA SubmitTypes ==
    ASSUME ProjectsTypeOK, NEW a \in Admin, NEW good \in SUBSET ProjectType, NEW bad \in SUBSET ProjectType,
           Submit(a, good, bad)
    PROVE  /\ (task \subseteq [by : Admin, good : SUBSET ProjectType, bad : SUBSET ProjectType])'
           /\ (result \in [Admin -> {"none", "pending", "succeeded", "failed"}])'
BY DEF ProjectsTypeOK, Submit

LEMMA NextVersionIs ==
    ASSUME NEW ps \in SUBSET ProjectType PROVE NextVersion(ps) \in SUBSET ProjectType
BY Variants DEF NextVersion

LEMMA ProjectWorkTypes ==
    ASSUME ProjectStateOK, NEW a \in Admin, ProjectWork(a) PROVE ProjectsTypeOK'
<1> USE DEF ProjectStateOK
<1>1. CASE Lookup(a) \/ Usage(a) \/ PollDelete(a) \/ Read(a)
  <2>1. UNCHANGED <<projectServer, made, unnoticed>> /\ projectRows' \subseteq projectRows
        /\ (copy' = copy \/ \E p \in projects : copy' = [copy EXCEPT ![a] = {p}])
    BY <1>1 DEF Lookup, Usage, PollDelete, Read, Refused
  <2> QED
    BY <2>1 DEF projectServer, ProjectsTypeOK
<1>2. CASE PollCleanUp(a) \/ Enable(a) \/ Poll(a) \/ FetchRow(a)
  <2>1. UNCHANGED <<projectServer, copy, made, projectRows>>
    BY <1>2 DEF PollCleanUp, Enable, Poll, FetchRow
  <2>2. unnoticed' \in BOOLEAN
    <3>1. unnoticed \in BOOLEAN
      BY DEF ProjectsTypeOK
    <3>2. CASE PollCleanUp(a)
      <4>1. unnoticed' = (unnoticed \/ result[a] = "failed")
        BY <3>2 DEF PollCleanUp
      <4> QED
        BY ONLY <4>1
    <3>3. CASE ~ PollCleanUp(a)
      <4>1. unnoticed' = unnoticed
        BY <1>2, <3>3 DEF Enable, Poll, FetchRow
      <4> QED
        BY ONLY <3>1, <4>1
    <3> QED
      BY <3>2, <3>3
  <2> QED
    BY <2>1, <2>2 DEF projectServer, ProjectsTypeOK
<1>3. CASE WriteRow(a)
  <2>1. UNCHANGED <<projectServer, copy, made, unnoticed>>
        /\ projectRows' \subseteq projectRows \cup {p.id : p \in copy[a]}
    BY <1>3 DEF WriteRow
  <2>2. {p.id : p \in copy[a]} \subseteq Nat
    BY ProjectParts DEF ProjectsTypeOK
  <2> QED
    BY <2>1, <2>2 DEF projectServer, ProjectsTypeOK
<1>4. CASE Delete(a)
  <2>1. UNCHANGED <<projects, quotas, envs, projectIds, made, projectRows, unnoticed>>
        /\ \/ UNCHANGED <<task, result, copy>>
           \/ Submit(a, {}, projects) /\ copy' = [copy EXCEPT ![a] = projects]
    BY <1>4 DEF Delete, projectServer
  <2> QED
    BY <2>1, SubmitTypes DEF ProjectsTypeOK
<1>5. CASE Post(a)
  <2>1. CASE Refused(a)
    BY <2>1 DEF Refused, projectServer, ProjectsTypeOK
  <2>2. CASE ~ Refused(a)
    <3>1. /\ stage[a] = "post"
          /\ projects' = {[id |-> projectIds + 1, version |-> 0, users |-> request[a].users,
                           quota |-> request[a].quota, envs |-> {}, acps |-> {}]}
          /\ projectIds' = projectIds + 1
          /\ copy' = [copy EXCEPT ![a] = projects']
          /\ Submit(a, projects', {})
          /\ UNCHANGED <<quotas, envs, made, projectRows, unnoticed>>
      BY <1>5, <2>2 DEF Post
    <3>2. request[a] \in ProjectRequest
      BY ProjectWorkFrame
    <3>3. projects' \in SUBSET ProjectType
      <4>1. request[a].users \subseteq User /\ request[a].quota \in Quota \cup {NoQuota}
        BY <3>2, RequestOf
      <4>2. projectIds + 1 \in Nat
        BY DEF ProjectsTypeOK
      <4> QED
        BY <3>1, <4>1, <4>2 DEF ProjectType
    <3>4. /\ (task \subseteq [by : Admin, good : SUBSET ProjectType, bad : SUBSET ProjectType])'
          /\ (result \in [Admin -> {"none", "pending", "succeeded", "failed"}])'
      <4>1. {} \in SUBSET ProjectType
        OBVIOUS
      <4> QED
        BY <3>1, <3>3, <4>1, SubmitTypes
    <3>5. (copy \in [Admin -> SUBSET ProjectType])' /\ (projectIds \in Nat)'
      BY <3>1, <3>3 DEF ProjectsTypeOK
    <3> QED
      BY <3>1, <3>3, <3>4, <3>5 DEF ProjectsTypeOK
  <2> QED
    BY <2>1, <2>2
<1>6. CASE Put(a)
  <2>1. UNCHANGED <<projects, quotas, envs, projectIds, copy, made, projectRows, unnoticed>>
        /\ \/ UNCHANGED <<task, result>>
           \/ Submit(a, {Wanted(request[a], p) : p \in copy[a]}, copy[a])
    BY <1>6 DEF Put, Refused, projectServer
  <2>2. copy[a] \in SUBSET ProjectType /\ request[a] \in ProjectRequest
    BY ProjectWorkFrame DEF ProjectsTypeOK
  <2>3. {Wanted(request[a], p) : p \in copy[a]} \in SUBSET ProjectType
    BY <2>2, WantedIs
  <2> QED
    BY <2>1, <2>2, <2>3, SubmitTypes DEF ProjectsTypeOK
<1>7. CASE CleanUp(a)
  <2> DEFINE Spared(p, q) == {[acp EXCEPT !.users = @ \ Dropped(request[a], q)] : acp \in p.acps}
  <2>1. CASE Refused(a)
    BY <2>1 DEF Refused, projectServer, ProjectsTypeOK
  <2>2. CASE ~ Refused(a)
    <3>1. PICK p \in projects, q \in copy[a] :
            /\ Submit(a, {[p EXCEPT !.acps = Spared(p, q)]}, {p})
            /\ UNCHANGED <<projects, quotas, envs, projectIds, copy, made, projectRows, unnoticed>>
      BY <1>7, <2>2 DEF CleanUp
    <3>2. p \in ProjectType
      BY DEF ProjectsTypeOK
    <3>3. Spared(p, q) \in SUBSET [role : Role, users : SUBSET User]
      BY <3>2, ProjectParts
    <3> HIDE DEF Spared
    <3>4. [p EXCEPT !.acps = Spared(p, q)] \in ProjectType
      BY <3>2, <3>3, Variants
    <3>5. {[p EXCEPT !.acps = Spared(p, q)]} \in SUBSET ProjectType /\ {p} \in SUBSET ProjectType
      BY ONLY <3>2, <3>4
    <3>6. /\ (task \subseteq [by : Admin, good : SUBSET ProjectType, bad : SUBSET ProjectType])'
          /\ (result \in [Admin -> {"none", "pending", "succeeded", "failed"}])'
      BY <3>1, <3>5, SubmitTypes
    <3> QED
      BY <3>1, <3>6 DEF ProjectsTypeOK
  <2> QED
    BY <2>1, <2>2
<1>8. CASE SetQuota(a)
  <2>1. CASE Refused(a)
    BY <2>1 DEF Refused, projectServer, ProjectsTypeOK
  <2>2. CASE ~ Refused(a)
    <3>1. PICK p \in copy[a] :
            /\ quotas' \subseteq quotas \cup {[project |-> p.id, limit |-> request[a].quota]}
            /\ stage[a] = "setQuota"
            /\ UNCHANGED <<projects, task, result, envs, projectIds, copy, made, projectRows, unnoticed>>
      BY <1>8, <2>2 DEF SetQuota
    <3>2. p.id \in Nat /\ request[a].quota \in Quota
      <4>1. p.id \in Nat
        BY ProjectParts DEF ProjectsTypeOK
      <4>2. request[a].quota # NoQuota
        BY <3>1 DEF InItsStages, Idle
      <4>3. request[a].quota \in Quota \cup {NoQuota}
        BY ProjectWorkFrame, RequestOf
      <4> QED
        BY <4>1, <4>2, <4>3
    <3> QED
      BY <3>1, <3>2 DEF ProjectsTypeOK
  <2> QED
    BY <2>1, <2>2
<1>9. CASE MakeEnv(a) \/ DropEnv(a)
  <2>1. CASE Refused(a)
    BY <2>1 DEF Refused, projectServer, ProjectsTypeOK
  <2>2. CASE MakeEnv(a) /\ ~ Refused(a)
    <3>1. PICK p \in projects :
            /\ projectIds' = projectIds + 1
            /\ envs' = envs \cup {[id |-> projectIds + 1, project |-> p.id]}
            /\ made' = [made EXCEPT ![a] = {projectIds + 1}]
            /\ copy' = [copy EXCEPT ![a] = {p}]
            /\ UNCHANGED <<projects, task, result, quotas, projectRows, unnoticed>>
      BY <2>2 DEF MakeEnv
    <3>2. p \in ProjectType /\ p.id \in Nat
      BY ProjectParts DEF ProjectsTypeOK
    <3> QED
      BY <3>1, <3>2 DEF ProjectsTypeOK
  <2>3. CASE DropEnv(a) /\ ~ Refused(a)
    <3>1. PICK e \in envs, p \in projects :
            /\ envs' = envs \ {e}
            /\ made' = [made EXCEPT ![a] = {e.id}]
            /\ copy' = [copy EXCEPT ![a] = {p}]
            /\ UNCHANGED <<projects, task, result, quotas, projectIds, projectRows, unnoticed>>
      BY <2>3 DEF DropEnv
    <3>2. p \in ProjectType /\ e.id \in Nat
      BY DEF ProjectsTypeOK
    <3> QED
      BY <3>1, <3>2 DEF ProjectsTypeOK
  <2> QED
    BY <1>9, <2>1, <2>2, <2>3
<1>10. CASE Join(a)
  <2>1. CASE Refused(a)
    BY <2>1 DEF Refused, projectServer, ProjectsTypeOK
  <2>2. CASE ~ Refused(a)
    <3>1. PICK p \in projects :
            /\ Submit(a, {[p EXCEPT !.envs = Joined(request[a], @, made[a])]}, {p})
            /\ stage[a] = "join"
            /\ UNCHANGED <<projects, quotas, envs, projectIds, copy, made, projectRows, unnoticed>>
      BY <1>10, <2>2 DEF Join
    <3>2. p \in ProjectType /\ p.envs \subseteq Nat /\ made[a] \subseteq Nat
      BY ProjectParts DEF ProjectsTypeOK
    <3>3. Joined(request[a], p.envs, made[a]) \in SUBSET Nat
      <4>1. request[a].op \in {"createProject", "createEnv", "deleteEnv"}
        <5>1. request[a].op \in ProjectOp /\ "join" \in StagesOf(request[a].op)
          BY <3>1, ProjectWorkFrame, RequestOf DEF InItsStages, Idle
        <5> QED
          BY <5>1 DEF ProjectOp, StagesOf, AcpOp
      <4> QED
        BY <3>2, <4>1 DEF Joined
    <3>4. [p EXCEPT !.envs = Joined(request[a], @, made[a])] \in ProjectType
      BY <3>2, <3>3, Variants
    <3>5. {[p EXCEPT !.envs = Joined(request[a], @, made[a])]} \in SUBSET ProjectType /\ {p} \in SUBSET ProjectType
      BY ONLY <3>2, <3>4
    <3>6. /\ (task \subseteq [by : Admin, good : SUBSET ProjectType, bad : SUBSET ProjectType])'
          /\ (result \in [Admin -> {"none", "pending", "succeeded", "failed"}])'
      BY <3>1, <3>5, SubmitTypes
    <3> QED
      BY <3>1, <3>6 DEF ProjectsTypeOK
  <2> QED
    BY <2>1, <2>2
<1> QED
  BY <1>1, <1>2, <1>3, <1>4, <1>5, <1>6, <1>7, <1>8, <1>9, <1>10 DEF ProjectWork

LEMMA ProjectWorkStages ==
    ASSUME ProjectStateOK, NEW a \in Admin, ProjectWork(a) PROVE InItsStages'
<1>1. /\ \A b \in Admin \ {a} : stage'[b] = stage[b]
      /\ request' = request /\ request[a] \in ProjectRequest
      /\ \A s : stage' = [stage EXCEPT ![a] = s] => stage'[a] = s
      /\ request[a].op \in ProjectOp
  BY ProjectWorkFrame, RequestOf DEF ProjectStateOK, AdminsTypeOK
<1>2. stage[a] # "idle" /\ stage[a] \in StagesOf(request[a].op)
      /\ (stage[a] \in {"enable", "setQuota"} => request[a].quota # NoQuota)
  BY DEF ProjectStateOK, InItsStages, ProjectWork, Idle, Lookup, Usage, Delete, PollDelete, Post, Read, Put,
     CleanUp, PollCleanUp, Enable, SetQuota, MakeEnv, DropEnv, Join, Poll, FetchRow, WriteRow
<1>3. SUFFICES /\ stage'[a] = "idle" \/ stage'[a] \in StagesOf(request[a].op)
               /\ stage'[a] \in {"enable", "setQuota"} => request[a].quota # NoQuota
  BY <1>1 DEF ProjectStateOK, InItsStages, Idle
<1> USE <1>1, <1>2 DEF StagesOf, AcpOp, ProjectOp, Proceed, Fail, Complain, GiveUp, Goto, Carried, Refused
<1>4. CASE Lookup(a) \/ Usage(a) \/ Delete(a) \/ PollDelete(a)
  BY <1>4 DEF Lookup, Usage, Delete, PollDelete, AfterDelete
<1>5. CASE Post(a) \/ Read(a) \/ Put(a) \/ CleanUp(a) \/ PollCleanUp(a)
  BY <1>5 DEF Post, Read, AfterRead, Put, CleanUp, PollCleanUp
<1>6. CASE Enable(a) \/ SetQuota(a) \/ MakeEnv(a) \/ DropEnv(a)
  BY <1>6 DEF Enable, SetQuota, MakeEnv, DropEnv
<1>7. CASE Join(a) \/ Poll(a) \/ FetchRow(a) \/ WriteRow(a)
  <2>1. CASE Poll(a)
    <3>1. (\E p \in copy[a] : Dropped(request[a], p) # {}) => request[a].op \in {"updateProject", "switches"}
      BY DEF Dropped
    <3>2. stage'[a] \in {"idle", AfterPoll(a)}
      BY <2>1 DEF Poll
    <3>3. stage[a] \in {"pollCreate", "pollPut", "pollJoin"}
      BY <2>1 DEF Poll
    <3> QED
      BY <3>1, <3>2, <3>3 DEF AfterPoll
  <2> QED
    BY <1>7, <2>1 DEF Join, FetchRow, WriteRow
<1> QED
  BY <1>4, <1>5, <1>6, <1>7 DEF ProjectWork

LEMMA ProjectBeginState ==
    ASSUME ProjectStateOK, NEW a \in Admin, ProjectBegin(a) PROVE ProjectStateOK'
<1> USE DEF ProjectStateOK
<1>1. PICK r \in ProjectRequest :
        /\ stage' = [stage EXCEPT ![a] = FirstStage(r)]
        /\ request' = [request EXCEPT ![a] = r]
        /\ started' = started + 1 /\ complained' = complained \ {a} /\ UNCHANGED patient
        /\ overlapped' \in BOOLEAN
  BY DEF ProjectBegin, Start, Goto
<1>2. r.op \in ProjectOp
  BY RequestOf
<1>3. FirstStage(r) \in ProjectStage /\ FirstStage(r) \in StagesOf(r.op)
      /\ FirstStage(r) \notin {"enable", "setQuota"}
  BY <1>2 DEF FirstStage, StagesOf, ProjectOp, AcpOp, ProjectStage
<1>4. AdminsTypeOK(ProjectStage, ProjectRequest)'
  BY <1>1, <1>3 DEF AdminsTypeOK
<1>5. ProjectAsked' /\ InItsStages'
  BY <1>1, <1>3 DEF ProjectAsked, InItsStages, Idle, AdminsTypeOK
<1>6. ProjectsTypeOK'
  BY DEF ProjectBegin, projectServer, ProjectsTypeOK
<1> QED
  BY <1>4, <1>5, <1>6

LEMMA TaskEndsState == ASSUME ProjectStateOK, TaskEnds PROVE ProjectStateOK'
<1> USE DEF ProjectStateOK
<1>1. PICK t \in task :
        /\ task' = {} /\ projects' \in {NextVersion(t.good), NextVersion(t.bad)}
        /\ \E r \in {"succeeded", "failed"} : result' = [result EXCEPT ![t.by] = r]
        /\ UNCHANGED <<quotas, envs, projectIds, copy, made, projectRows, unnoticed, admins>>
  BY DEF TaskEnds
<1>2. t.good \in SUBSET ProjectType /\ t.bad \in SUBSET ProjectType
  BY DEF ProjectsTypeOK
<1>3. projects' \in SUBSET ProjectType
  BY <1>1, <1>2, NextVersionIs
<1>4. ProjectsTypeOK'
  BY <1>1, <1>3 DEF ProjectsTypeOK
<1> QED
  BY <1>1, <1>4 DEF admins, AdminsTypeOK, ProjectAsked, InItsStages, Idle

LEMMA ProjectStateStep == ProjectStateOK /\ [ProjectsNext]_projectVars => ProjectStateOK'
<1> SUFFICES ASSUME ProjectStateOK, [ProjectsNext]_projectVars PROVE ProjectStateOK'
  OBVIOUS
<1>1. CASE UNCHANGED projectVars
  BY <1>1 DEF projectVars, projectOwn, projectServer, admins, ProjectStateOK, AdminsTypeOK, ProjectAsked,
     InItsStages, Idle, ProjectsTypeOK
<1>2. ASSUME NEW a \in Admin, ProjectWork(a) PROVE ProjectStateOK'
  BY <1>2, ProjectWorkFrame, ProjectWorkTypes, ProjectWorkStages DEF ProjectStateOK
<1>3. ASSUME NEW a \in Admin, ProjectBegin(a) PROVE ProjectStateOK'
  BY <1>3, ProjectBeginState
<1> QED
  BY <1>1, <1>2, <1>3, TaskEndsState DEF ProjectsNext, ProjectsFinished

-----------------------------------------------------------------------------
(* There is one project at most, to everybody; a failed task leaves it as   *)
(* it is, and who started a task has not seen its end while it is there.    *)
OneProject ==
    /\ \A p, q \in projects : p = q
    /\ \A a \in Admin : \A p, q \in copy[a] : p = q
    /\ \A t \in task :
         /\ \A p, q \in t.good : p = q
         /\ t.bad \subseteq projects
         /\ result[t.by] = "pending"

(* Who gives users a role has seen that they are users of the project.     *)
GivesToUsers ==
    \A a \in Admin : stage[a] = "put" /\ request[a].op \in {"createAcp", "updateAcp"} =>
        \A p \in copy[a] : request[a].add \subseteq p.users

ProjectShape == ProjectStateOK /\ OneProject /\ GivesToUsers

LEMMA ProjectShapeInit == ProjectsInit => ProjectShape
<1> SUFFICES ASSUME ProjectsInit PROVE OneProject /\ GivesToUsers
  BY ProjectsInitOK DEF ProjectShape
<1>1. (\A p, q \in projects : p = q) /\ task = {} /\ \A a \in Admin : copy[a] = {}
  BY DEF ProjectsInit, ProjectsStart
<1> QED
  BY <1>1 DEF OneProject, GivesToUsers

(* What a step of a command may do to what others rely on.                 *)
LEMMA ProjectWorkCopies ==
    ASSUME ProjectShape, NEW a \in Admin, ProjectWork(a)
    PROVE  /\ \A b \in Admin \ {a} : copy'[b] = copy[b]
           /\ \A p, q \in copy'[a] : p = q
<1>1. \/ copy' = copy \/ copy' = [copy EXCEPT ![a] = projects]
      \/ \E p : copy' = [copy EXCEPT ![a] = {p}]
  <2>1. CASE Lookup(a) \/ Usage(a) \/ Delete(a) \/ PollDelete(a) \/ Read(a) \/ Put(a)
    BY <2>1 DEF Lookup, Usage, Delete, PollDelete, Read, Put, Refused
  <2>2. CASE Post(a)
    BY <2>2 DEF Post, Refused
  <2>3. CASE CleanUp(a) \/ PollCleanUp(a) \/ Enable(a) \/ SetQuota(a) \/ Join(a)
    BY <2>3 DEF CleanUp, PollCleanUp, Enable, SetQuota, Join, Refused
  <2>4. CASE Poll(a) \/ FetchRow(a) \/ WriteRow(a) \/ MakeEnv(a) \/ DropEnv(a)
    BY <2>4 DEF Poll, FetchRow, WriteRow, MakeEnv, DropEnv, Refused
  <2> QED
    BY <2>1, <2>2, <2>3, <2>4 DEF ProjectWork
<1> QED
  BY <1>1 DEF ProjectShape, OneProject, ProjectStateOK, ProjectsTypeOK

LEMMA OneProjectKeeps ==
    ASSUME ProjectShape, NEW a \in Admin, ProjectWork(a) PROVE OneProject'
<1> USE DEF ProjectShape, OneProject
<1>1. (\A b \in Admin : \A p, q \in copy[b] : p = q)'
  BY ProjectWorkCopies
<1>2. SUFFICES \/ UNCHANGED <<projects, task, result>>
               \/ /\ \A p, q \in projects' : p = q
                  /\ \E good, bad : /\ Submit(a, good, bad)
                                    /\ \A p, q \in good : p = q
                                    /\ bad \subseteq projects'
  <2>1. CASE UNCHANGED <<projects, task, result>>
    BY <1>1, <2>1
  <2>2. ASSUME NEW good, NEW bad, Submit(a, good, bad), \A p, q \in good : p = q, bad \subseteq projects',
               \A p, q \in projects' : p = q
        PROVE  OneProject'
    BY <1>1, <2>2 DEF Submit, ProjectStateOK, ProjectsTypeOK
  <2> QED
    BY <2>1, <2>2
<1>3. CASE Lookup(a) \/ Usage(a) \/ PollDelete(a) \/ Read(a) \/ PollCleanUp(a) \/ Enable(a)
  BY <1>3 DEF Lookup, Usage, PollDelete, Read, PollCleanUp, Enable, Refused, projectServer
<1>4. CASE SetQuota(a) \/ MakeEnv(a) \/ DropEnv(a) \/ Poll(a) \/ FetchRow(a) \/ WriteRow(a)
  BY <1>4 DEF SetQuota, MakeEnv, DropEnv, Poll, FetchRow, WriteRow, Refused, projectServer
<1>5. CASE Delete(a)
  BY <1>5 DEF Delete, projectServer
<1>6. CASE Post(a)
  <2>1. CASE Refused(a)
    BY <2>1 DEF Refused, projectServer
  <2>2. CASE ~ Refused(a)
    <3>1. (\E p : projects' = {p}) /\ Submit(a, projects', {})
      BY <1>6, <2>2 DEF Post
    <3> QED
      BY <3>1
  <2> QED
    BY <2>1, <2>2
<1>7. CASE Put(a)
  <2>1. CASE Refused(a)
    BY <2>1 DEF Refused, projectServer
  <2>2. CASE ~ Refused(a)
    <3>1. /\ Submit(a, {Wanted(request[a], p) : p \in copy[a]}, copy[a])
          /\ projects' = projects /\ copy[a] \subseteq projects
      BY <1>7, <2>2 DEF Put
    <3>2. \A p, q \in {Wanted(request[a], p) : p \in copy[a]} : p = q
      OBVIOUS
    <3> QED
      BY <3>1, <3>2
  <2> QED
    BY <2>1, <2>2
<1>8. CASE CleanUp(a) \/ Join(a)
  <2>1. CASE Refused(a)
    BY <2>1 DEF Refused, projectServer
  <2>2. CASE ~ Refused(a)
    <3>1. projects' = projects /\ \E p \in projects : \E q : Submit(a, {q}, {p})
      BY <1>8, <2>2 DEF CleanUp, Join
    <3> QED
      BY <3>1
  <2> QED
    BY <2>1, <2>2
<1> QED
  BY <1>3, <1>4, <1>5, <1>6, <1>7, <1>8 DEF ProjectWork

LEMMA GivesToUsersKeeps ==
    ASSUME ProjectShape, NEW a \in Admin, ProjectWork(a) PROVE GivesToUsers'
<1> USE DEF ProjectShape, GivesToUsers
<1>1. /\ \A b \in Admin \ {a} : stage'[b] = stage[b] /\ copy'[b] = copy[b]
      /\ request' = request
  BY ProjectWorkFrame, ProjectWorkCopies
<1>2. SUFFICES ASSUME stage'[a] = "put", request[a].op \in {"createAcp", "updateAcp"}
               PROVE  \A p \in copy'[a] : request[a].add \subseteq p.users
  BY <1>1
<1>3. stage[a] \in {"read", "put", "pollPut"}
  <2>1. ~ Idle(a)
    BY DEF ProjectWork, Idle, Lookup, Usage, Delete, PollDelete, Post, Read, Put, CleanUp, PollCleanUp,
       Enable, SetQuota, MakeEnv, DropEnv, Join, Poll, FetchRow, WriteRow
  <2> QED
    BY <1>2, <2>1 DEF ProjectStateOK, InItsStages, StagesOf, AcpOp
<1>4. Read(a) \/ Put(a) \/ Poll(a)
  BY <1>3 DEF ProjectWork, Lookup, Usage, Delete, PollDelete, Post, CleanUp, PollCleanUp,
     Enable, SetQuota, MakeEnv, DropEnv, Join, FetchRow, WriteRow
<1>5. \A s : stage' = [stage EXCEPT ![a] = s] => stage'[a] = s
  BY DEF ProjectStateOK, AdminsTypeOK
<1>6. CASE Read(a)
  <2>1. CASE Refused(a)
    BY <1>2, <1>5, <2>1 DEF Refused, Fail, Complain, Goto
  <2>2. CASE ~ Refused(a)
    <3>1. PICK p \in projects : ~ Rejects(request[a], p) /\ copy' = [copy EXCEPT ![a] = {p}]
      BY <1>6, <2>2 DEF Read
    <3>2. request[a].add \subseteq p.users
      BY <1>2, <3>1 DEF Rejects
    <3> QED
      BY <3>1, <3>2 DEF ProjectStateOK, ProjectsTypeOK
  <2> QED
    BY <2>1, <2>2
<1>7. CASE Put(a)
  BY <1>2, <1>5, <1>7 DEF Put, Carried, Refused, Proceed, Fail, Complain, Goto
<1>8. CASE Poll(a)
  <2>1. stage'[a] = "idle" \/ stage'[a] = AfterPoll(a)
    BY <1>5, <1>8 DEF Poll, Proceed, Fail, GiveUp, Complain, Goto
  <2>2. AfterPoll(a) # "put"
    BY DEF AfterPoll
  <2> QED
    BY <1>2, <2>1, <2>2
<1> QED
  BY <1>4, <1>6, <1>7, <1>8

LEMMA ProjectShapeStep == ProjectShape /\ [ProjectsNext]_projectVars => ProjectShape'
<1> SUFFICES ASSUME ProjectShape, [ProjectsNext]_projectVars PROVE OneProject' /\ GivesToUsers'
  BY ProjectStateStep DEF ProjectShape
<1> USE DEF ProjectShape
<1>1. CASE UNCHANGED projectVars
  BY <1>1 DEF projectVars, projectOwn, projectServer, admins, OneProject, GivesToUsers
<1>2. ASSUME NEW a \in Admin, ProjectWork(a) PROVE OneProject' /\ GivesToUsers'
  BY <1>2, OneProjectKeeps, GivesToUsersKeeps
<1>3. ASSUME NEW a \in Admin, ProjectBegin(a) PROVE OneProject' /\ GivesToUsers'
  <2>1. /\ \A b \in Admin \ {a} : stage'[b] = stage[b] /\ copy'[b] = copy[b] /\ request'[b] = request[b]
        /\ copy'[a] = {}
        /\ UNCHANGED <<projects, task, result>>
    BY <1>3 DEF ProjectBegin, Start, Goto, projectServer, ProjectStateOK, AdminsTypeOK, ProjectsTypeOK
  <2>2. OneProject'
    BY <2>1 DEF OneProject
  <2>3. GivesToUsers'
    BY <2>1 DEF GivesToUsers
  <2> QED
    BY <2>2, <2>3
<1>4. CASE TaskEnds
  <2>1. PICK t \in task : task' = {} /\ projects' \in {NextVersion(t.good), NextVersion(t.bad)}
                          /\ UNCHANGED <<copy, admins>>
    BY <1>4 DEF TaskEnds
  <2>2. (\A p, q \in t.good : p = q) /\ \A p, q \in t.bad : p = q
    BY DEF OneProject
  <2>3. \A p, q \in projects' : p = q
    BY <2>1, <2>2 DEF NextVersion
  <2> QED
    BY <2>1, <2>3 DEF OneProject, GivesToUsers, admins
<1> QED
  BY <1>1, <1>2, <1>3, <1>4 DEF ProjectsNext, ProjectsFinished

-----------------------------------------------------------------------------
(* Who has a role in a project that is not one of its users.               *)
Strangers(p) == {u \in User : u \notin p.users /\ \E acp \in p.acps : u \in acp.users}

(* The command of b is still to take u out of the policies, or its task to  *)
(* do so has not succeeded.                                                *)
SeesTo(b, u) ==
    /\ stage[b] \in {"pollPut", "cleanUp", "pollCleanUp"}
    /\ stage[b] = "pollCleanUp" => result[b] # "succeeded"
    /\ \E q \in copy[b] : u \in Dropped(request[b], q)

(* Somebody sees to every stranger there is, and to those a task will make, *)
(* other than by that task.                                                *)
StrangersGo ==
    /\ \A p \in projects : \A u \in Strangers(p) : \E b \in Admin : SeesTo(b, u)
    /\ \A t \in task : \A p \in t.good : \A u \in Strangers(p) :
         \E b \in Admin : SeesTo(b, u) /\ ~ (b = t.by /\ stage[b] = "pollCleanUp")

NothingWrong == patient /\ ~ unnoticed /\ complained = {}

ProjectIInv == ProjectShape /\ (NothingWrong => StrangersGo)

LEMMA ProjectInitOK == ProjectsInit => ProjectIInv
<1> SUFFICES ASSUME ProjectsInit PROVE StrangersGo
  BY ProjectShapeInit DEF ProjectIInv
<1>1. task = {} /\ \A p \in projects : p.users = User
  BY DEF ProjectsInit, ProjectsStart
<1> QED
  BY <1>1 DEF StrangersGo, Strangers

LEMMA NothingWasWrong ==
    ASSUME ProjectShape, NEW a \in Admin, ProjectWork(a), NothingWrong'
    PROVE  /\ NothingWrong
           /\ ~ (Fail(a) \/ Refused(a) \/ \E s : Complain(a, s) \/ GiveUp(a, s))
<1>1. complained \subseteq complained' /\ (patient' => patient)
  BY ProjectWorkFrame DEF ProjectShape
<1>2. unnoticed => unnoticed'
  BY DEF ProjectWork, Lookup, Usage, Delete, PollDelete, Post, Read, Put, CleanUp, PollCleanUp,
     Enable, SetQuota, MakeEnv, DropEnv, Join, Poll, FetchRow, WriteRow, Refused
<1>3. ~ \E s : Complain(a, s) \/ GiveUp(a, s)
  BY DEF NothingWrong, Complain, GiveUp
<1> QED
  BY <1>1, <1>2, <1>3 DEF NothingWrong, Fail, Refused

(* A step of a command that does not see to anybody, and starts no task.    *)
LEMMA QuietStepKeeps ==
    ASSUME ProjectShape, StrangersGo, NEW a \in Admin, ProjectWork(a),
           stage[a] \notin {"pollPut", "cleanUp", "pollCleanUp"},
           UNCHANGED <<projects, task, result>>
    PROVE  StrangersGo'
<1>1. \A b \in Admin : \A u : SeesTo(b, u) => b # a
  BY DEF SeesTo
<1>2. \A b \in Admin \ {a} : \A u : SeesTo(b, u) => SeesTo(b, u)' /\ stage'[b] = stage[b]
  BY ProjectWorkFrame, ProjectWorkCopies DEF SeesTo, ProjectShape
<1>3. \A b \in Admin : \A u : SeesTo(b, u) => SeesTo(b, u)' /\ stage'[b] = stage[b]
  BY <1>1, <1>2
<1> QED
  BY <1>3 DEF StrangersGo

(* A task is started by a command that does not see to anybody before.      *)
LEMMA SubmitKeeps ==
    ASSUME ProjectShape, StrangersGo, NEW a \in Admin, ProjectWork(a),
           stage[a] \notin {"pollPut", "cleanUp", "pollCleanUp"}, stage'[a] # "pollCleanUp",
           UNCHANGED projects, NEW good, NEW bad, Submit(a, good, bad),
           \A p \in good : \A u \in Strangers(p) :
              \/ \E q \in projects : u \in Strangers(q)
              \/ SeesTo(a, u)'
    PROVE  StrangersGo'
<1>1. \A b \in Admin : \A u : SeesTo(b, u) => b # a
  BY DEF SeesTo
<1>2. \A b \in Admin \ {a} : result'[b] = result[b]
  BY DEF Submit, ProjectShape, ProjectStateOK, ProjectsTypeOK
<1>3. \A b \in Admin \ {a} : \A u : SeesTo(b, u) => SeesTo(b, u)'
  BY <1>2, ProjectWorkFrame, ProjectWorkCopies DEF SeesTo, ProjectShape
<1>4. \A b \in Admin : \A u : SeesTo(b, u) => SeesTo(b, u)'
  BY <1>1, <1>3
<1>5. task' = {[by |-> a, good |-> good, bad |-> bad]}
  BY DEF Submit
<1>6. \A p \in projects' : \A u \in Strangers(p) : \E b \in Admin : SeesTo(b, u)'
  BY <1>4 DEF StrangersGo
<1>7. \A p \in good : \A u \in Strangers(p) :
        \E b \in Admin : SeesTo(b, u)' /\ ~ (b = a /\ stage'[b] = "pollCleanUp")
  BY <1>1, <1>4 DEF StrangersGo
<1> QED
  BY <1>5, <1>6, <1>7 DEF StrangersGo, Strangers

(* Putting the project back makes strangers of those only whom the command  *)
(* sees to.                                                                *)
LEMMA WantedStrangers ==
    ASSUME NEW r \in ProjectRequest, NEW p \in ProjectType, NEW u \in Strangers(Wanted(r, p)),
           r.op \in {"createAcp", "updateAcp"} => r.add \subseteq p.users
    PROVE  u \in Strangers(p) \/ u \in Dropped(r, p)
<1>1. p.users \subseteq User /\ p.acps \subseteq [role : Role, users : SUBSET User]
  BY ProjectParts
<1>2. CASE r.op = "updateProject"
  <2>1. (IF r.append THEN p.users \cup r.users ELSE r.users) \in SUBSET User
    BY <1>1, RequestOf
  <2>2. PICK us \in SUBSET User : Wanted(r, p) = [p EXCEPT !.users = us, !.quota = r.quota]
    BY <1>2, <2>1 DEF Wanted
  <2>3. Wanted(r, p).acps = p.acps
    BY <2>2 DEF ProjectType
  <2> QED
    BY <1>2, <2>3 DEF Strangers, Dropped
<1>3. CASE r.op = "switches"
  <2>1. (p.users \ r.remove) \cup r.add \in SUBSET User
    BY <1>1, RequestOf
  <2>2. PICK us \in SUBSET User :
          Wanted(r, p) = [p EXCEPT !.users = us] /\ us = (p.users \ r.remove) \cup r.add
    BY <1>3, <2>1 DEF Wanted
  <2>3. Wanted(r, p).acps = p.acps /\ Wanted(r, p).users = (p.users \ r.remove) \cup r.add
    BY <2>2 DEF ProjectType
  <2> QED
    BY <1>3, <2>3 DEF Strangers, Dropped
<1>4. CASE r.op = "createAcp"
  <2>1. [role |-> r.role, users |-> r.add] \in [role : Role, users : SUBSET User]
    BY RequestOf
  <2>2. /\ Wanted(r, p).acps = p.acps \cup {[role |-> r.role, users |-> r.add]}
        /\ Wanted(r, p).users = p.users
    <3>1. PICK acps \in SUBSET [role : Role, users : SUBSET User] :
            Wanted(r, p) = [p EXCEPT !.acps = acps] /\ acps = p.acps \cup {[role |-> r.role, users |-> r.add]}
      BY <1>1, <1>4, <2>1 DEF Wanted
    <3> QED
      BY <3>1 DEF ProjectType
  <2> QED
    BY <1>4, <2>2 DEF Strangers
<1>5. CASE r.op = "updateAcp"
  <2>1. \A acp \in p.acps :
          [acp EXCEPT !.users = (@ \ r.remove) \cup r.add] \in [role : Role, users : SUBSET User]
    BY <1>1, RequestOf
  <2>2. Changed(p.acps, r) \in SUBSET [role : Role, users : SUBSET User]
    BY <1>1, <2>1 DEF Changed
  <2>3. Wanted(r, p).acps = Changed(p.acps, r) /\ Wanted(r, p).users = p.users
    BY <1>5, <2>2, Variants DEF Wanted
  <2>4. \A acp \in Changed(p.acps, r) : \E old \in p.acps : acp.users \subseteq old.users \cup r.add
    BY <1>1 DEF Changed
  <2>5. u \in User /\ u \notin p.users /\ \E acp \in Changed(p.acps, r) : u \in acp.users
    BY <2>3 DEF Strangers
  <2> QED
    BY <1>5, <2>4, <2>5 DEF Strangers
<1>6. CASE r.op = "deleteAcp"
  <2>1. Wanted(r, p).acps \subseteq p.acps /\ Wanted(r, p).users = p.users
    <3>1. PICK acps \in SUBSET [role : Role, users : SUBSET User] :
            Wanted(r, p) = [p EXCEPT !.acps = acps] /\ acps = {acp \in p.acps : acp.role # r.role}
      BY <1>1, <1>6 DEF Wanted
    <3> QED
      BY <3>1 DEF ProjectType
  <2> QED
    BY <2>1 DEF Strangers
<1>7. CASE r.op \notin {"updateProject", "switches", "createAcp", "updateAcp", "deleteAcp"}
  BY <1>7 DEF Wanted
<1> QED
  BY <1>2, <1>3, <1>4, <1>5, <1>6, <1>7

LEMMA ProjectWorkKeeps ==
    ASSUME ProjectIInv, NEW a \in Admin, ProjectWork(a), NothingWrong' PROVE StrangersGo'
<1> USE DEF ProjectIInv
<1>1. /\ NothingWrong /\ StrangersGo
      /\ ~ (Fail(a) \/ Refused(a) \/ \E s : Complain(a, s) \/ GiveUp(a, s))
  BY NothingWasWrong
<1>2. /\ request' = request /\ request[a] \in ProjectRequest
      /\ \A b \in Admin \ {a} : stage'[b] = stage[b] /\ copy'[b] = copy[b]
      /\ \A s : Proceed(a, s) => stage'[a] = s
  BY ProjectWorkFrame, ProjectWorkCopies DEF ProjectShape, ProjectStateOK, AdminsTypeOK, Proceed, Goto
<1>3. CASE Lookup(a) \/ Usage(a) \/ PollDelete(a) \/ Read(a) \/ Enable(a)
  <2>1. stage[a] \notin {"pollPut", "cleanUp", "pollCleanUp"} /\ UNCHANGED <<projects, task, result>>
    BY <1>1, <1>3 DEF Lookup, Usage, PollDelete, Read, Enable, projectServer
  <2> QED
    BY <1>1, <2>1, QuietStepKeeps
<1>4. CASE SetQuota(a) \/ MakeEnv(a) \/ DropEnv(a) \/ FetchRow(a) \/ WriteRow(a)
  <2>1. stage[a] \notin {"pollPut", "cleanUp", "pollCleanUp"} /\ UNCHANGED <<projects, task, result>>
    BY <1>1, <1>4 DEF SetQuota, MakeEnv, DropEnv, FetchRow, WriteRow, projectServer
  <2> QED
    BY <1>1, <2>1, QuietStepKeeps
<1>5. CASE PollCleanUp(a)
  <2>1. /\ stage[a] = "pollCleanUp" /\ result[a] = "succeeded"
        /\ UNCHANGED <<projects, task, result, copy>>
    BY <1>1, <1>5 DEF PollCleanUp, projectServer, NothingWrong
  <2>2. \A b \in Admin : \A u : SeesTo(b, u) => b # a
    BY <2>1 DEF SeesTo
  <2>3. \A b \in Admin \ {a} : \A u : SeesTo(b, u) => SeesTo(b, u)' /\ stage'[b] = stage[b]
    BY <1>2, <2>1 DEF SeesTo
  <2>4. \A b \in Admin : \A u : SeesTo(b, u) => SeesTo(b, u)' /\ stage'[b] = stage[b]
    BY <2>2, <2>3
  <2> QED
    BY <1>1, <2>1, <2>4 DEF StrangersGo
<1>6. CASE Poll(a)
  <2>1. result[a] = "succeeded" /\ Proceed(a, AfterPoll(a)) /\ UNCHANGED <<projects, task, result, copy>>
    BY <1>1, <1>6 DEF Poll, projectServer, Fail
  <2>2. \A b \in Admin \ {a} : \A u : SeesTo(b, u) => SeesTo(b, u)' /\ stage'[b] = stage[b]
    BY <1>2, <2>1 DEF SeesTo
  <2>3. ASSUME NEW u, SeesTo(a, u) PROVE SeesTo(a, u)' /\ stage'[a] = "cleanUp"
    <3>1. stage[a] = "pollPut"
      BY <1>6, <2>3 DEF Poll, SeesTo
    <3>2. request[a].op \notin AcpOp /\ \E q \in copy[a] : Dropped(request[a], q) # {}
      BY <2>3 DEF SeesTo, Dropped, AcpOp
    <3>3. AfterPoll(a) = "cleanUp"
      BY <3>1, <3>2 DEF AfterPoll
    <3> QED
      BY <1>2, <2>1, <2>3, <3>3 DEF SeesTo
  <2>4. \A t \in task : t.by \in Admin
    BY DEF ProjectShape, ProjectStateOK, ProjectsTypeOK
  <2>5. \A b \in Admin : \A u : SeesTo(b, u) =>
          SeesTo(b, u)' /\ (stage[b] # "pollCleanUp" => stage'[b] # "pollCleanUp")
    BY <2>2, <2>3
  <2> QED
    BY <1>1, <2>1, <2>5 DEF StrangersGo
<1>7. CASE Delete(a)
  <2>1. CASE UNCHANGED <<projects, task, result>>
    BY <1>1, <1>7, <2>1, QuietStepKeeps DEF Delete
  <2>2. CASE ~ UNCHANGED <<projects, task, result>>
    <3>1. stage[a] = "delete" /\ Submit(a, {}, projects) /\ projects' = projects /\ stage'[a] # "pollCleanUp"
      BY <1>1, <1>2, <1>7, <2>2 DEF Delete, projectServer
    <3> QED
      BY <1>1, <3>1, SubmitKeeps
  <2> QED
    BY <2>1, <2>2
<1>8. CASE Post(a)
  <2>1. Submit(a, projects', {}) /\ \A p \in projects' : p.acps = {}
    BY <1>1, <1>8 DEF Post
  <2>2. (\A p \in projects' : Strangers(p) = {}) /\ task' = {[by |-> a, good |-> projects', bad |-> {}]}
    BY <2>1 DEF Submit, Strangers
  <2> QED
    BY <2>2 DEF StrangersGo, Strangers
<1>9. CASE Put(a)
  <2>1. /\ stage[a] = "put" /\ copy[a] \subseteq projects
        /\ Submit(a, {Wanted(request[a], p) : p \in copy[a]}, copy[a])
        /\ stage'[a] = "pollPut"
        /\ UNCHANGED <<projects, copy>>
    BY <1>1, <1>2, <1>9 DEF Put, Carried
  <2>2. ASSUME NEW p \in copy[a], NEW u \in Strangers(Wanted(request[a], p))
        PROVE  (\E q \in projects : u \in Strangers(q)) \/ SeesTo(a, u)'
    <3>1. p \in ProjectType /\ p \in projects
      BY <2>1 DEF ProjectShape, ProjectStateOK, ProjectsTypeOK
    <3>2. request[a].op \in {"createAcp", "updateAcp"} => request[a].add \subseteq p.users
      BY <2>1 DEF ProjectShape, GivesToUsers
    <3>3. u \in Strangers(p) \/ u \in Dropped(request[a], p)
      BY <1>2, <3>1, <3>2, WantedStrangers
    <3> QED
      BY <1>2, <2>1, <3>1, <3>3 DEF SeesTo
  <2>3. \A p \in {Wanted(request[a], q) : q \in copy[a]} : \A u \in Strangers(p) :
          (\E q \in projects : u \in Strangers(q)) \/ SeesTo(a, u)'
    BY <2>2
  <2> QED
    BY <1>1, <2>1, <2>3, SubmitKeeps
<1>10. CASE Join(a)
  <2> DEFINE With(p) == [p EXCEPT !.envs = Joined(request[a], p.envs, made[a])]
  <2>1. PICK p \in projects :
          /\ Submit(a, {With(p)}, {p})
          /\ stage[a] = "join" /\ stage'[a] = "pollJoin" /\ projects' = projects
    BY <1>1, <1>2, <1>10 DEF Join, Carried
  <2>2. With(p).users = p.users /\ With(p).acps = p.acps
    BY DEF ProjectShape, ProjectStateOK, ProjectsTypeOK, ProjectType
  <2>3. \A q \in {With(p)} : \A u \in Strangers(q) : \E r \in projects : u \in Strangers(r)
    BY <2>2 DEF Strangers
  <2> HIDE DEF With
  <2> QED
    BY <1>1, <2>1, <2>3, SubmitKeeps
<1>11. CASE CleanUp(a)
  <2> DEFINE Gone(q) == Dropped(request[a], q)
             Acps(p, q) == {[acp EXCEPT !.users = @ \ Gone(q)] : acp \in p.acps}
  <2>1. PICK p \in projects, q \in copy[a] :
          /\ Submit(a, {[p EXCEPT !.acps = Acps(p, q)]}, {p})
          /\ stage[a] = "cleanUp" /\ stage'[a] = "pollCleanUp" /\ UNCHANGED <<projects, copy>>
    BY <1>1, <1>2, <1>11 DEF CleanUp, Carried
  <2> DEFINE gone == Gone(q)
             acps == Acps(p, q)
             good == [p EXCEPT !.acps = acps]
  <2>2. p \in ProjectType
    BY DEF ProjectShape, ProjectStateOK, ProjectsTypeOK
  <2>3. good.users = p.users /\ good.acps = acps
    <3>1. acps \in SUBSET [role : Role, users : SUBSET User]
      BY <2>2, ProjectParts
    <3> HIDE DEF acps
    <3> QED
      BY <2>2, <3>1, Variants
  <2>4. \A u \in Strangers(good) : u \in Strangers(p) /\ u \notin gone
    <3>1. \A acp \in acps : acp.users \cap gone = {} /\ \E old \in p.acps : acp.users \subseteq old.users
      BY <2>2, ProjectParts
    <3> HIDE DEF acps, gone
    <3> QED
      BY <2>3, <3>1 DEF Strangers
  <2>5. task' = {[by |-> a, good |-> {good}, bad |-> {p}]} /\ result' = [result EXCEPT ![a] = "pending"]
    BY <2>1 DEF Submit
  <2>6. \A b \in Admin : \A u : SeesTo(b, u) => SeesTo(b, u)'
    <3>1. \A b \in Admin \ {a} : result'[b] = result[b]
      BY <2>5 DEF ProjectShape, ProjectStateOK, ProjectsTypeOK
    <3>2. result'[a] = "pending"
      BY <2>5 DEF ProjectShape, ProjectStateOK, ProjectsTypeOK
    <3> QED
      BY <1>2, <2>1, <3>1, <3>2 DEF SeesTo
  <2>7. \A u : SeesTo(a, u) => u \in gone
    BY DEF SeesTo, ProjectShape, OneProject
  <2>8. \A u \in Strangers(good) : \E b \in Admin : SeesTo(b, u)' /\ b # a
    <3> HIDE DEF good, gone
    <3> QED
      BY <1>1, <2>4, <2>6, <2>7 DEF StrangersGo
  <2>9. \A r \in projects' : \A u \in Strangers(r) : \E b \in Admin : SeesTo(b, u)'
    BY <1>1, <2>1, <2>6 DEF StrangersGo
  <2> HIDE DEF good
  <2> QED
    BY <2>5, <2>8, <2>9 DEF StrangersGo, Strangers
<1> QED
  BY <1>3, <1>4, <1>5, <1>6, <1>7, <1>8, <1>9, <1>10, <1>11 DEF ProjectWork

(* The new version of a project has the strangers of the old one.          *)
LEMMA VersionStrangers ==
    ASSUME NEW ps \in SUBSET ProjectType, NEW q \in NextVersion(ps), NEW u \in Strangers(q)
    PROVE  \E p \in ps : u \in Strangers(p)
<1>1. PICK p \in ps : q = [p EXCEPT !.version = @ + 1]
  BY DEF NextVersion
<1>2. q.users = p.users /\ q.acps = p.acps
  BY <1>1, Variants
<1> QED
  BY <1>2 DEF Strangers

LEMMA TaskEndsKeeps == ASSUME ProjectIInv, TaskEnds, NothingWrong' PROVE StrangersGo'
<1> USE DEF ProjectIInv, ProjectShape
<1>1. PICK t \in task :
        /\ task' = {}
        /\ \/ projects' = NextVersion(t.good) /\ result' = [result EXCEPT ![t.by] = "succeeded"]
           \/ projects' = NextVersion(t.bad) /\ result' = [result EXCEPT ![t.by] = "failed"]
        /\ UNCHANGED <<copy, unnoticed, admins>>
  BY DEF TaskEnds
<1>2. StrangersGo
  BY <1>1 DEF NothingWrong, admins
<1>3. /\ t.good \in SUBSET ProjectType /\ t.bad \in SUBSET ProjectType /\ t.bad \subseteq projects
      /\ t.by \in Admin
  BY DEF ProjectStateOK, ProjectsTypeOK, OneProject
<1>4. \A b \in Admin \ {t.by} : \A u : SeesTo(b, u) => SeesTo(b, u)'
  BY <1>1, <1>3 DEF SeesTo, admins, ProjectStateOK, ProjectsTypeOK
<1>5. CASE projects' = NextVersion(t.good)
  <2>1. \A u : SeesTo(t.by, u) /\ stage[t.by] # "pollCleanUp" => SeesTo(t.by, u)'
    BY <1>1 DEF SeesTo, admins
  <2>2. \A p \in t.good : \A u \in Strangers(p) : \E b \in Admin : SeesTo(b, u)'
    BY <1>2, <1>4, <2>1 DEF StrangersGo
  <2>3. \A p \in projects' : \A u \in Strangers(p) : \E b \in Admin : SeesTo(b, u)'
    BY <1>3, <1>5, <2>2, VersionStrangers
  <2> QED
    BY <1>1, <2>3 DEF StrangersGo, Strangers
<1>6. CASE projects' = NextVersion(t.bad) /\ result' = [result EXCEPT ![t.by] = "failed"]
  <2>1. result'[t.by] = "failed"
    BY <1>3, <1>6 DEF ProjectStateOK, ProjectsTypeOK
  <2>2. \A u : SeesTo(t.by, u) => SeesTo(t.by, u)'
    BY <1>1, <2>1 DEF SeesTo, admins
  <2>3. \A p \in t.bad : \A u \in Strangers(p) : \E b \in Admin : SeesTo(b, u)'
    BY <1>2, <1>3, <1>4, <2>2 DEF StrangersGo
  <2>4. \A p \in projects' : \A u \in Strangers(p) : \E b \in Admin : SeesTo(b, u)'
    BY <1>3, <1>6, <2>3, VersionStrangers
  <2> QED
    BY <1>1, <2>4 DEF StrangersGo, Strangers
<1> QED
  BY <1>1, <1>5, <1>6

LEMMA ProjectBeginKeeps == ASSUME ProjectIInv, NEW a \in Admin, ProjectBegin(a), NothingWrong' PROVE StrangersGo'
<1> USE DEF ProjectIInv, ProjectShape
<1>1. /\ \A b \in Admin \ {a} : stage'[b] = stage[b] /\ copy'[b] = copy[b] /\ request'[b] = request[b]
      /\ stage[a] = "idle"
      /\ complained = {} /\ patient' = patient /\ unnoticed' = unnoticed
      /\ UNCHANGED <<projects, task, result>>
  BY DEF ProjectBegin, Start, Idle, Goto, projectServer, ProjectStateOK, AdminsTypeOK, ProjectsTypeOK
<1>2. StrangersGo
  BY <1>1 DEF NothingWrong
<1>3. \A b \in Admin : \A u : SeesTo(b, u) => b # a /\ SeesTo(b, u)' /\ stage'[b] = stage[b]
  BY <1>1 DEF SeesTo
<1> QED
  BY <1>1, <1>2, <1>3 DEF StrangersGo

LEMMA ProjectStep == ProjectIInv /\ [ProjectsNext]_projectVars => ProjectIInv'
<1> SUFFICES ASSUME ProjectIInv, [ProjectsNext]_projectVars, NothingWrong' PROVE StrangersGo'
  BY ProjectShapeStep DEF ProjectIInv
<1>1. CASE UNCHANGED projectVars
  <2>1. StrangersGo
    BY <1>1 DEF projectVars, projectOwn, projectServer, admins, ProjectIInv, NothingWrong
  <2>2. \A b, u : SeesTo(b, u)' <=> SeesTo(b, u)
    BY <1>1 DEF projectVars, projectOwn, projectServer, admins, SeesTo
  <2> QED
    BY <1>1, <2>1, <2>2 DEF projectVars, projectOwn, projectServer, admins, StrangersGo
<1>2. ASSUME NEW a \in Admin, ProjectWork(a) PROVE StrangersGo'
  BY <1>2, ProjectWorkKeeps
<1>3. ASSUME NEW a \in Admin, ProjectBegin(a) PROVE StrangersGo'
  BY <1>3, ProjectBeginKeeps
<1> QED
  BY <1>1, <1>2, <1>3, TaskEndsKeeps DEF ProjectsNext, ProjectsFinished

(* The invariant holds in every state of the projects.                     *)
THEOREM ProjectInvariant == ProjectsSpec => []ProjectIInv
BY ProjectInitOK, ProjectStep, PTL DEF ProjectsSpec

(* Once all is done nobody sees to anybody any more.                       *)
LEMMA MembersFollow == ProjectIInv => MembersOnly
<1> SUFFICES ASSUME ProjectIInv, Quiet, NothingWrong, NEW p \in projects, NEW acp \in p.acps, NEW u \in acp.users
             PROVE  u \in p.users
  BY DEF MembersOnly, ProjectsSettled, NothingWrong
<1>1. Strangers(p) = {}
  BY DEF ProjectIInv, StrangersGo, SeesTo, Quiet, Idle
<1>2. u \in User
  BY ProjectParts DEF ProjectIInv, ProjectShape, ProjectStateOK, ProjectsTypeOK
<1> QED
  BY <1>1, <1>2 DEF Strangers

(* Type correctness of the projects, of their tasks and of what commands    *)
(* keep of them.                                                           *)
THEOREM ProjectTypes == ProjectsSpec => []ProjectsTypeOK
<1>1. ProjectIInv => ProjectsTypeOK
  BY DEF ProjectIInv, ProjectShape, ProjectStateOK
<1> QED
  BY <1>1, ProjectInvariant, PTL

-----------------------------------------------------------------------------
-----------------------------------------------------------------------------
(* What the lists and the quotas agree on, as long as nobody complained, no  *)
(* poll gave up, and no two commands overlapped that must not.              *)
Orderly == complained = {} /\ patient /\ ~ overlapped

Ids(ps) == {p.id : p \in ps}
EnvsOf(id) == {e.id : e \in {e \in envs : e.project = id}}
Agrees(id, k) == {q \in quotas : q.project = id} = {[project |-> id, limit |-> k]}

(* Identities are handed out once.                                          *)
NumbersOK ==
    /\ \A p \in projects : p.id <= projectIds
    /\ \A a \in Admin : \A c \in copy[a] : c.id <= projectIds
    /\ \A a \in Admin : \A n \in made[a] : n <= projectIds
    /\ \A q \in quotas : q.project <= projectIds
    /\ \A e \in envs : e.id <= projectIds /\ e.project <= projectIds
    /\ \A e, f \in envs : e.id = f.id => e = f

(* What a command has read is no newer than the project, and a task works   *)
(* on the version that is there.                                            *)
VersionsOK ==
    /\ \A a \in Admin : \A c \in copy[a] : \A p \in projects :
         c.id = p.id => c.version <= p.version
    /\ \A t \in task : \A g \in t.good \cup t.bad : \E p \in projects :
         g.id = p.id /\ g.version = p.version

(* From some stage on a command has the project in hand.                     *)
HasCopy ==
    \A a \in Admin :
        stage[a] \in {"pollDelete", "pollCreate", "enable", "setQuota", "put", "pollPut", "cleanUp",
                      "pollCleanUp", "join", "pollJoin", "fetchRow", "writeRow"}
          \/ (stage[a] = "usage" /\ request[a].op # "createProject")
        => copy[a] # {}

Exclusive ==
    \A a, b \in Admin : a # b /\ ~ Idle(a) /\ ~ Idle(b) => ~ ProjectClash(request[a], request[b])

(* A task belongs to a command that waits for it; only a deletion makes the *)
(* project disappear, only a creation that fails leaves none.               *)
TasksOK ==
    \A t \in task :
        /\ stage[t.by] \in {"pollDelete", "pollCreate", "pollPut", "pollCleanUp", "pollJoin"}
        /\ IF stage[t.by] = "pollDelete"
             THEN t.good = {} /\ Ids(copy[t.by]) = Ids(projects)
             ELSE Ids(t.good) = Ids(projects)
        /\ stage[t.by] # "pollCreate" => Ids(t.bad) = Ids(projects)

DeletesOK ==
    \A a \in Admin : stage[a] = "pollDelete" /\ result[a] = "succeeded" => projects = {}

CreatingProject(a) ==
    /\ request[a].op = "createProject"
    /\ stage[a] \in {"pollCreate", "enable", "setQuota", "fetchRow", "writeRow", "makeEnv", "join", "pollJoin"}

(* A creation under way has the project it was asked for, without an         *)
(* environment until it makes one.                                          *)
CreatesOK ==
    \A a \in Admin : CreatingProject(a) =>
        /\ (stage[a] = "pollCreate" /\ result[a] = "failed")
             \/ (copy[a] # {} /\ Ids(projects) = Ids(copy[a]))
        /\ \A p \in projects : p.users = request[a].users /\ p.quota = request[a].quota
        /\ \A t \in task : \A g \in t.good : g.users = request[a].users /\ g.quota = request[a].quota
        /\ stage[a] \notin {"join", "pollJoin"} => \A c \in copy[a] : EnvsOf(c.id) = {}

(* The cache lists the project, or a command is about to see to it.          *)
RowPending(a) ==
    \/ stage[a] = "pollDelete" /\ result[a] = "succeeded" /\ projectRows = Ids(copy[a])
    \/ /\ request[a].op = "createProject"
       /\ stage[a] \in {"pollCreate", "enable", "setQuota", "fetchRow", "writeRow"}
       /\ projectRows = {}

RowsOK ==
    /\ projectRows = Ids(projects) \/ \E a \in Admin : RowPending(a)
    /\ \A a \in Admin : stage[a] = "pollCreate" => projectRows = {}

(* The command of a has set a quota, or will, that the project has not got. *)
Unsettled(a, id) ==
    /\ \E c \in copy[a] : c.id = id
    /\ request[a].quota # NoQuota
    /\ \/ request[a].op = "createProject" /\ stage[a] \in {"pollCreate", "enable", "setQuota"}
       \/ request[a].op = "updateProject" /\ stage[a] = "put"
       \/ request[a].op = "updateProject" /\ stage[a] = "pollPut" /\ result[a] # "succeeded"

QuotasOfProject ==
    \A p \in projects : p.quota # NoQuota =>
        Agrees(p.id, p.quota) \/ \E a \in Admin : Unsettled(a, p.id)

QuotasOfTask ==
    \A t \in task : \A g \in t.good : g.quota # NoQuota =>
        Agrees(g.id, g.quota) \/ \E a \in Admin : Unsettled(a, g.id) /\ ~ (a = t.by /\ stage[a] = "pollPut")

QuotasToPut ==
    \A a \in Admin :
        request[a].op = "updateProject" /\ request[a].quota # NoQuota /\ stage[a] = "put" =>
            \A c \in copy[a] \cap projects :
                Agrees(c.id, request[a].quota) \/ \E b \in Admin \ {a} : Unsettled(b, c.id)

QuotasOK == QuotasOfProject /\ QuotasOfTask /\ QuotasToPut

(* The command of a is about to join to the project, or to take from it,     *)
(* the environments it has made or deleted.                                 *)
Joins(a) == stage[a] = "join" \/ (stage[a] = "pollJoin" /\ result[a] # "succeeded")

EnvsOfProject ==
    \A p \in projects : \A n \in Nat :
        (n \in p.envs <=> n \in EnvsOf(p.id)) \/ \E a \in Admin : n \in made[a] /\ Joins(a)

EnvsOfTask ==
    \A t \in task : \A g \in t.good : \A n \in Nat :
        (n \in g.envs <=> n \in EnvsOf(g.id)) \/ \E a \in Admin \ {t.by} : n \in made[a] /\ Joins(a)

EnvsOK == EnvsOfProject /\ EnvsOfTask

MadeOK ==
    \A a \in Admin :
        /\ stage[a] = "makeEnv" => request[a].op # "deleteEnv"
        /\ stage[a] = "dropEnv" => request[a].op = "deleteEnv"
        /\ stage[a] \in {"join", "pollJoin"} =>
              /\ made[a] # {}
              /\ request[a].op = "createEnv" => \A c \in copy[a] : made[a] \subseteq EnvsOf(c.id)
              /\ request[a].op = "createProject" => \A c \in copy[a] : made[a] = EnvsOf(c.id)
              /\ request[a].op = "deleteEnv" => \A e \in envs : e.id \notin made[a]

OrderOK == /\ NumbersOK /\ VersionsOK /\ HasCopy /\ Exclusive /\ TasksOK /\ DeletesOK
           /\ CreatesOK /\ RowsOK /\ QuotasOK /\ EnvsOK /\ MadeOK

AgreeIInv == ProjectShape /\ (Orderly => OrderOK)

LEMMA AgreeInit == ProjectsInit => AgreeIInv
<1> SUFFICES ASSUME ProjectsInit PROVE OrderOK
  BY ProjectShapeInit DEF AgreeIInv
<1> USE DEF ProjectsInit, AdminsInit, ProjectsStart
<1>1. /\ task = {} /\ quotas = {} /\ projectRows = Ids(projects)
      /\ \A a \in Admin : stage[a] = "idle" /\ copy[a] = {} /\ made[a] = {} /\ result[a] = "none"
  BY DEF Ids
<1>2. \/ projects = {} /\ envs = {} /\ projectIds = 0
      \/ /\ projectIds = 2 /\ envs = {[id |-> 2, project |-> 1]}
         /\ \A p \in projects : p.id = 1 /\ p.envs = {2} /\ p.quota = NoQuota
  OBVIOUS
<1> HIDE DEF ProjectsInit, AdminsInit, ProjectsStart
<1>3. NumbersOK
  BY <1>1, <1>2 DEF NumbersOK
<1>4. VersionsOK /\ HasCopy /\ Exclusive /\ TasksOK /\ DeletesOK /\ CreatesOK /\ MadeOK
  BY <1>1 DEF VersionsOK, HasCopy, Exclusive, TasksOK, DeletesOK, CreatesOK, CreatingProject, MadeOK, Idle
<1>5. RowsOK /\ QuotasOK
  BY <1>1, <1>2 DEF RowsOK, QuotasOK, QuotasOfProject, QuotasOfTask, QuotasToPut
<1>6. EnvsOK
  <2>1. \A p \in projects : p.envs = EnvsOf(p.id)
    <3>1. CASE projects # {}
      <4>1. envs = {[id |-> 2, project |-> 1]} /\ \A p \in projects : p.id = 1 /\ p.envs = {2}
        BY <1>2, <3>1
      <4>2. {e \in envs : e.project = 1} = envs /\ {e.id : e \in envs} = {2}
        BY <4>1
      <4>3. EnvsOf(1) = {2}
        BY <4>2 DEF EnvsOf
      <4> QED
        BY <4>1, <4>3
    <3> QED
      BY <3>1
  <2> QED
    BY <1>1, <2>1 DEF EnvsOK, EnvsOfProject, EnvsOfTask
<1> QED
  BY <1>3, <1>4, <1>5, <1>6 DEF OrderOK

(* What commands are at which stage.                                        *)
LEMMA OpsAt ==
    ASSUME ProjectShape, NEW a \in Admin, ~ Idle(a)
    PROVE  /\ stage[a] \in {"lookup", "post", "pollCreate"} => request[a].op = "createProject"
           /\ stage[a] \in {"delete", "pollDelete"} => request[a].op \in {"createProject", "deleteProject"}
           /\ stage[a] \in {"makeEnv", "join", "pollJoin"} =>
                 request[a].op \in {"createProject", "createEnv", "deleteEnv"}
           /\ stage[a] = "dropEnv" => request[a].op \in {"createEnv", "deleteEnv"}
           /\ stage[a] \in {"read", "put", "pollPut"} => request[a].op \in {"updateProject", "switches"} \cup AcpOp
           /\ stage[a] \in {"cleanUp", "pollCleanUp"} => request[a].op \in {"updateProject", "switches"}
           /\ stage[a] \in {"usage", "enable", "setQuota", "fetchRow", "writeRow"} =>
                 request[a].op \in {"createProject", "updateProject", "switches"}
           /\ stage[a] \in {"enable", "setQuota"} => request[a].quota # NoQuota
           /\ request[a].quota # NoQuota => request[a].op \in {"createProject", "updateProject"}
           /\ request[a].quota \in Quota \cup {NoQuota}
<1>1. /\ request[a] \in ProjectRequest /\ stage[a] \in StagesOf(request[a].op)
      /\ (stage[a] \in {"enable", "setQuota"} => request[a].quota # NoQuota)
  BY DEF ProjectShape, ProjectStateOK, ProjectAsked, InItsStages
<1>2. /\ request[a].op \in ProjectOp /\ request[a].quota \in Quota \cup {NoQuota}
      /\ (request[a].quota # NoQuota => request[a].op \in {"createProject", "updateProject"})
  BY <1>1, RequestOf, ProjectsAssumption
<1> QED
  BY <1>1, <1>2 DEF StagesOf, ProjectOp, AcpOp

-----------------------------------------------------------------------------
(* A step in order is a step of a command to which nothing goes wrong.      *)
LEMMA InOrder ==
    ASSUME ProjectShape, NEW a \in Admin, ProjectWork(a), Orderly'
    PROVE  /\ Orderly
           /\ ~ (Fail(a) \/ Refused(a) \/ \E s : Complain(a, s) \/ GiveUp(a, s))
           /\ \A s : Proceed(a, s) => stage'[a] = s
           /\ ~ Idle(a) /\ request[a] \in ProjectRequest /\ stage[a] \in StagesOf(request[a].op)
           /\ request' = request /\ overlapped' = overlapped
<1>1. complained \subseteq complained' /\ (patient' => patient) /\ request' = request /\ request[a] \in ProjectRequest
  BY ProjectWorkFrame DEF ProjectShape
<1>2. ~ Idle(a)
  BY DEF ProjectWork, Idle, Lookup, Usage, Delete, PollDelete, Post, Read, Put, CleanUp, PollCleanUp,
     Enable, SetQuota, MakeEnv, DropEnv, Join, Poll, FetchRow, WriteRow
<1>3. overlapped' = overlapped
  <2> USE DEF Proceed, Fail, Complain, GiveUp, Carried, Refused
  <2>1. CASE Lookup(a) \/ Usage(a) \/ Delete(a) \/ PollDelete(a) \/ Post(a) \/ Read(a) \/ Put(a)
    BY <2>1 DEF Lookup, Usage, Delete, PollDelete, Post, Read, Put
  <2>2. CASE CleanUp(a) \/ PollCleanUp(a) \/ Enable(a) \/ SetQuota(a) \/ MakeEnv(a) \/ DropEnv(a)
    BY <2>2 DEF CleanUp, PollCleanUp, Enable, SetQuota, MakeEnv, DropEnv
  <2>3. CASE Join(a) \/ Poll(a) \/ FetchRow(a) \/ WriteRow(a)
    BY <2>3 DEF Join, Poll, FetchRow, WriteRow
  <2> QED
    BY <2>1, <2>2, <2>3 DEF ProjectWork
<1>4. Orderly
  BY <1>1, <1>3 DEF Orderly
<1>5. ~ \E s : Complain(a, s) \/ GiveUp(a, s)
  BY DEF Orderly, Complain, GiveUp
<1>6. \A s : Proceed(a, s) => stage'[a] = s
  BY DEF Proceed, Goto, ProjectShape, ProjectStateOK, AdminsTypeOK
<1>7. stage[a] \in StagesOf(request[a].op)
  BY <1>2 DEF ProjectShape, ProjectStateOK, InItsStages
<1>8. ~ (Fail(a) \/ Refused(a))
  BY <1>5 DEF Fail, Refused
<1> QED
  BY <1>1, <1>2, <1>3, <1>4, <1>5, <1>6, <1>7, <1>8

(* What such a step leaves to the others.                                   *)
LEMMA InOrderFrame ==
    ASSUME ProjectShape, NEW a \in Admin, ProjectWork(a), NEW b \in Admin \ {a}
    PROVE  stage'[b] = stage[b] /\ copy'[b] = copy[b] /\ made'[b] = made[b] /\ result'[b] = result[b]
<1>1. stage'[b] = stage[b] /\ copy'[b] = copy[b]
  BY ProjectWorkFrame, ProjectWorkCopies DEF ProjectShape
<1>2. made' = made \/ \E n : made' = [made EXCEPT ![a] = n]
  BY DEF ProjectWork, Lookup, Usage, Delete, PollDelete, Post, Read, Put, CleanUp, PollCleanUp,
     Enable, SetQuota, MakeEnv, DropEnv, Join, Poll, FetchRow, WriteRow, Refused
<1>3. result' = result \/ result' = [result EXCEPT ![a] = "pending"]
  <2> USE DEF Refused, projectServer
  <2>1. CASE Lookup(a) \/ Usage(a) \/ Delete(a) \/ PollDelete(a) \/ Post(a) \/ Read(a) \/ Put(a)
    BY <2>1 DEF Lookup, Usage, Delete, PollDelete, Post, Read, Put, Submit
  <2>2. CASE CleanUp(a) \/ PollCleanUp(a) \/ Enable(a) \/ SetQuota(a) \/ MakeEnv(a) \/ DropEnv(a)
    BY <2>2 DEF CleanUp, PollCleanUp, Enable, SetQuota, MakeEnv, DropEnv, Submit
  <2>3. CASE Join(a) \/ Poll(a) \/ FetchRow(a) \/ WriteRow(a)
    BY <2>3 DEF Join, Poll, FetchRow, WriteRow, Submit
  <2> QED
    BY <2>1, <2>2, <2>3 DEF ProjectWork
<1> QED
  BY <1>1, <1>2, <1>3 DEF ProjectShape, ProjectStateOK, ProjectsTypeOK

(* A task is started.                                                       *)
Starts(a, good, bad) ==
    /\ task = {} /\ task' = {[by |-> a, good |-> good, bad |-> bad]}
    /\ result'[a] = "pending"

LEMMA SubmitStarts ==
    ASSUME ProjectShape, NEW a \in Admin, NEW good, NEW bad, Submit(a, good, bad)
    PROVE  Starts(a, good, bad)
BY DEF Submit, Starts, ProjectShape, ProjectStateOK, ProjectsTypeOK

Aside == <<projects, task, result, quotas, envs, projectIds, made>>

(* Steps that only go on.                                                   *)
GoesOn(a) ==
    \/ stage[a] = "lookup" /\ stage'[a] \in {"post", "usage"}
    \/ stage[a] = "usage" /\ stage'[a] = "delete"
    \/ stage[a] = "usage" /\ request[a].op # "createProject" /\ stage'[a] = "enable"
    \/ /\ stage[a] = "usage" /\ request[a].op # "createProject" /\ request[a].quota = NoQuota
       /\ stage'[a] = "put"
    \/ stage[a] = "delete" /\ projects = {} /\ stage'[a] = AfterDelete(a)
    \/ stage[a] = "enable" /\ stage'[a] = "setQuota"
    \/ stage[a] = "pollCreate" /\ result[a] = "succeeded" /\ request[a].quota # NoQuota /\ stage'[a] = "enable"
    \/ stage[a] = "pollCreate" /\ result[a] = "succeeded" /\ request[a].quota = NoQuota /\ stage'[a] = "fetchRow"
    \/ stage[a] = "pollPut" /\ result[a] = "succeeded" /\ stage'[a] \in {"idle", "cleanUp", "fetchRow"}
    \/ stage[a] = "pollJoin" /\ result[a] = "succeeded" /\ stage'[a] = "idle"
    \/ stage[a] = "pollCleanUp" /\ result[a] # "pending" /\ stage'[a] = "fetchRow"
    \/ stage[a] = "fetchRow" /\ stage'[a] = "writeRow"

LEMMA GoingOn ==
    ASSUME ProjectShape, NEW a \in Admin, ProjectWork(a), Orderly',
           \/ Lookup(a) \/ Usage(a) \/ Enable(a) \/ Poll(a) \/ PollCleanUp(a) \/ FetchRow(a)
           \/ Delete(a) /\ projects = {}
    PROVE  UNCHANGED <<Aside, copy, projectRows>> /\ GoesOn(a)
<1> USE InOrder
<1>1. CASE Lookup(a)
  BY <1>1 DEF Lookup, GoesOn, Aside, projectServer
<1>2. CASE Usage(a)
  BY <1>2 DEF Usage, GoesOn, Aside, projectServer
<1>3. CASE Enable(a)
  BY <1>3 DEF Enable, GoesOn, Aside, projectServer, Carried
<1>4. CASE Poll(a)
  <2>1. /\ stage[a] \in {"pollCreate", "pollPut", "pollJoin"} /\ result[a] = "succeeded"
        /\ stage'[a] = AfterPoll(a) /\ UNCHANGED <<Aside, copy, projectRows>>
    BY <1>4 DEF Poll, Aside, projectServer
  <2>2. CASE stage[a] = "pollCreate"
    <3>1. AfterPoll(a) = IF request[a].quota # NoQuota THEN "enable" ELSE "fetchRow"
      BY <2>2, OpsAt DEF AfterPoll, AcpOp, Dropped
    <3> QED
      BY <2>1, <2>2, <3>1 DEF GoesOn
  <2>3. CASE stage[a] = "pollPut"
    <3>1. AfterPoll(a) \in {"idle", "cleanUp", "fetchRow"}
      BY <2>3 DEF AfterPoll
    <3> QED
      BY <2>1, <2>3, <3>1 DEF GoesOn
  <2>4. CASE stage[a] = "pollJoin"
    <3>1. AfterPoll(a) = "idle"
      BY <2>4, OpsAt DEF AfterPoll, AcpOp, Dropped
    <3> QED
      BY <2>1, <2>4, <3>1 DEF GoesOn
  <2> QED
    BY <2>1, <2>2, <2>3, <2>4
<1>5. CASE PollCleanUp(a)
  BY <1>5 DEF PollCleanUp, GoesOn, Aside, projectServer
<1>6. CASE FetchRow(a)
  BY <1>6 DEF FetchRow, GoesOn, Aside, projectServer
<1>7. CASE Delete(a) /\ projects = {}
  BY <1>7 DEF Delete, GoesOn, Aside, projectServer
<1> QED
  BY <1>1, <1>2, <1>3, <1>4, <1>5, <1>6, <1>7

(* What a command leaves of the project it puts back.                       *)
LEMMA WantedParts ==
    ASSUME NEW r \in ProjectRequest, NEW p \in ProjectType
    PROVE  /\ Wanted(r, p).id = p.id /\ Wanted(r, p).version = p.version /\ Wanted(r, p).envs = p.envs
           /\ Wanted(r, p).quota = IF r.op = "updateProject" THEN r.quota ELSE p.quota
<1>1. CASE r.op = "updateProject"
  <2>1. PICK us : Wanted(r, p) = [p EXCEPT !.users = us, !.quota = r.quota]
    BY <1>1 DEF Wanted
  <2> QED
    BY <1>1, <2>1 DEF ProjectType
<1>2. CASE r.op = "switches"
  <2>1. PICK us : Wanted(r, p) = [p EXCEPT !.users = us]
    BY <1>2 DEF Wanted
  <2> QED
    BY <1>2, <2>1 DEF ProjectType
<1>3. CASE r.op \in AcpOp
  <2>1. PICK acps : Wanted(r, p) = [p EXCEPT !.acps = acps]
    BY <1>3 DEF Wanted, AcpOp
  <2> QED
    BY <1>3, <2>1 DEF ProjectType, AcpOp
<1>4. CASE r.op \notin {"updateProject", "switches"} \cup AcpOp
  BY <1>4 DEF Wanted, AcpOp
<1> QED
  BY <1>1, <1>2, <1>3, <1>4

(* The steps of commands that change something, in order.                   *)
LEMMA DeletingProject ==
    ASSUME ProjectShape, NEW a \in Admin, ProjectWork(a), Orderly', Delete(a), projects # {}
    PROVE  /\ stage[a] = "delete" /\ stage'[a] = "pollDelete"
           /\ Starts(a, {}, projects) /\ copy'[a] = projects
           /\ UNCHANGED <<projects, quotas, envs, projectIds, made, projectRows>>
<1>1. /\ stage[a] = "delete" /\ Submit(a, {}, projects) /\ copy' = [copy EXCEPT ![a] = projects]
      /\ Proceed(a, "pollDelete")
      /\ UNCHANGED <<projects, quotas, envs, projectIds, made, projectRows>>
  BY InOrder DEF Delete
<1> QED
  BY <1>1, InOrder, SubmitStarts DEF ProjectShape, ProjectStateOK, ProjectsTypeOK

LEMMA Deleted ==
    ASSUME ProjectShape, NEW a \in Admin, ProjectWork(a), Orderly', PollDelete(a)
    PROVE  /\ stage[a] = "pollDelete" /\ result[a] = "succeeded" /\ stage'[a] = AfterDelete(a)
           /\ projectRows' = projectRows \ Ids(copy[a])
           /\ UNCHANGED <<Aside, copy>>
BY InOrder DEF PollDelete, Aside, projectServer, Ids

LEMMA Posting ==
    ASSUME ProjectShape, NEW a \in Admin, ProjectWork(a), Orderly', Post(a)
    PROVE  /\ stage[a] = "post" /\ stage'[a] = "pollCreate" /\ projects = {}
           /\ projectIds' = projectIds + 1
           /\ \E p \in ProjectType :
                 /\ projects' = {p} /\ copy'[a] = {p} /\ Starts(a, {p}, {})
                 /\ p.id = projectIds + 1 /\ p.version = 0 /\ p.envs = {}
                 /\ p.users = request[a].users /\ p.quota = request[a].quota
           /\ UNCHANGED <<quotas, envs, made, projectRows>>
<1> DEFINE new == [id |-> projectIds + 1, version |-> 0, users |-> request[a].users,
                   quota |-> request[a].quota, envs |-> {}, acps |-> {}]
<1>1. /\ stage[a] = "post" /\ Proceed(a, "pollCreate") /\ projects = {} /\ projects' = {new}
      /\ projectIds' = projectIds + 1 /\ copy' = [copy EXCEPT ![a] = projects']
      /\ Submit(a, projects', {})
      /\ UNCHANGED <<quotas, envs, made, projectRows>>
  BY InOrder DEF Post, Carried
<1>2. new \in ProjectType
  <2>1. request[a].users \in SUBSET User /\ request[a].quota \in Quota \cup {NoQuota}
    BY InOrder, RequestOf
  <2>2. projectIds + 1 \in Nat
    BY DEF ProjectShape, ProjectStateOK, ProjectsTypeOK
  <2> QED
    BY <2>1, <2>2 DEF ProjectType
<1>3. copy'[a] = {new} /\ Submit(a, {new}, {})
  BY <1>1 DEF ProjectShape, ProjectStateOK, ProjectsTypeOK
<1>4. Starts(a, {new}, {}) /\ stage'[a] = "pollCreate"
  BY <1>1, <1>3, SubmitStarts, InOrder
<1>5. /\ new.id = projectIds + 1 /\ new.version = 0 /\ new.envs = {}
      /\ new.users = request[a].users /\ new.quota = request[a].quota
  OBVIOUS
<1> HIDE DEF new
<1> QED
  BY <1>1, <1>2, <1>3, <1>4, <1>5

LEMMA Reading ==
    ASSUME ProjectShape, NEW a \in Admin, ProjectWork(a), Orderly', Read(a)
    PROVE  /\ stage[a] = "read" /\ stage'[a] \in {"usage", "enable", "put"}
           /\ stage'[a] = "put" => request[a].op # "updateProject" \/ request[a].quota = NoQuota
           /\ \E p \in projects : copy'[a] = {p}
           /\ UNCHANGED <<Aside, projectRows>>
<1>1. PICK p \in projects :
        /\ stage[a] = "read" /\ copy' = [copy EXCEPT ![a] = {p}] /\ Proceed(a, AfterRead(request[a]))
        /\ UNCHANGED <<projectServer, made, projectRows, unnoticed>>
  BY InOrder DEF Read
<1>2. stage'[a] = AfterRead(request[a])
  BY <1>1, InOrder
<1> QED
  BY <1>1, <1>2 DEF AfterRead, AcpOp, Aside, projectServer, ProjectShape, ProjectStateOK, ProjectsTypeOK

LEMMA SettingQuota ==
    ASSUME ProjectShape, NEW a \in Admin, ProjectWork(a), Orderly', SetQuota(a)
    PROVE  /\ stage[a] = "setQuota"
           /\ stage'[a] = IF request[a].op = "createProject" THEN "fetchRow" ELSE "put"
           /\ \E p \in copy[a] :
                 quotas' = {q \in quotas : q.project # p.id}
                              \cup {[project |-> p.id, limit |-> request[a].quota]}
           /\ UNCHANGED <<projects, task, result, envs, projectIds, copy, made, projectRows>>
BY InOrder DEF SetQuota, Carried

LEMMA MakingEnv ==
    ASSUME ProjectShape, NEW a \in Admin, ProjectWork(a), Orderly', MakeEnv(a)
    PROVE  /\ stage[a] = "makeEnv" /\ stage'[a] = "join"
           /\ projectIds' = projectIds + 1 /\ made'[a] = {projectIds + 1}
           /\ \E p \in projects :
                 copy'[a] = {p} /\ envs' = envs \cup {[id |-> projectIds + 1, project |-> p.id]}
           /\ UNCHANGED <<projects, task, result, quotas, projectRows>>
<1>1. PICK p \in projects :
        /\ stage[a] = "makeEnv" /\ Proceed(a, "join")
        /\ projectIds' = projectIds + 1
        /\ envs' = envs \cup {[id |-> projectIds + 1, project |-> p.id]}
        /\ made' = [made EXCEPT ![a] = {projectIds + 1}]
        /\ copy' = [copy EXCEPT ![a] = {p}]
        /\ UNCHANGED <<projects, task, result, quotas, projectRows>>
  BY InOrder DEF MakeEnv, Carried
<1> QED
  BY <1>1, InOrder DEF ProjectShape, ProjectStateOK, ProjectsTypeOK

LEMMA DroppingEnv ==
    ASSUME ProjectShape, NEW a \in Admin, ProjectWork(a), Orderly', DropEnv(a)
    PROVE  /\ stage[a] = "dropEnv" /\ stage'[a] = "join"
           /\ \E e \in envs, p \in projects :
                 copy'[a] = {p} /\ e.project = p.id /\ envs' = envs \ {e} /\ made'[a] = {e.id}
           /\ UNCHANGED <<projects, task, result, quotas, projectIds, projectRows>>
<1>1. PICK e \in envs, p \in projects :
        /\ stage[a] = "dropEnv" /\ Proceed(a, "join")
        /\ e.project = p.id
        /\ envs' = envs \ {e}
        /\ made' = [made EXCEPT ![a] = {e.id}]
        /\ copy' = [copy EXCEPT ![a] = {p}]
        /\ UNCHANGED <<projects, task, result, quotas, projectIds, projectRows>>
  BY InOrder DEF DropEnv, Carried
<1> QED
  BY <1>1, InOrder DEF ProjectShape, ProjectStateOK, ProjectsTypeOK

(* A change of the project p into g is asked for.                            *)
Changes(a, p, g) ==
    /\ Starts(a, {g}, {p})
    /\ g.id = p.id /\ g.version = p.version
    /\ \E q \in copy[a] : q.id = p.id
    /\ UNCHANGED <<projects, quotas, envs, projectIds, copy, made, projectRows>>

LEMMA Putting ==
    ASSUME ProjectShape, NEW a \in Admin, ProjectWork(a), Orderly', Put(a), copy[a] # {}
    PROVE  /\ stage[a] = "put" /\ stage'[a] = "pollPut"
           /\ \E p \in projects, g \in ProjectType :
                 /\ p \in copy[a] /\ Changes(a, p, g) /\ g.envs = p.envs
                 /\ g.quota = IF request[a].op = "updateProject" THEN request[a].quota ELSE p.quota
<1>1. /\ stage[a] = "put" /\ stage'[a] = "pollPut" /\ copy[a] \subseteq projects
      /\ Submit(a, {Wanted(request[a], p) : p \in copy[a]}, copy[a])
      /\ UNCHANGED <<projects, quotas, envs, projectIds, copy, made, projectRows>>
  BY InOrder DEF Put, Carried
<1>2. PICK p : p \in copy[a]
  OBVIOUS
<1>3. p \in projects /\ p \in ProjectType /\ copy[a] = {p}
  BY <1>1, <1>2 DEF ProjectShape, ProjectStateOK, ProjectsTypeOK, OneProject
<1> DEFINE g == Wanted(request[a], p)
<1>4. g \in ProjectType
  BY <1>3, InOrder, WantedIs
<1>5. {Wanted(request[a], q) : q \in copy[a]} = {g}
  BY <1>3
<1>6. Starts(a, {g}, {p})
  BY <1>1, <1>3, <1>5, SubmitStarts
<1>7. /\ g.id = p.id /\ g.version = p.version /\ g.envs = p.envs
      /\ g.quota = IF request[a].op = "updateProject" THEN request[a].quota ELSE p.quota
  BY <1>3, InOrder, WantedParts
<1> HIDE DEF g
<1> QED
  BY <1>1, <1>2, <1>3, <1>4, <1>6, <1>7 DEF Changes

LEMMA CleaningUp ==
    ASSUME ProjectShape, NEW a \in Admin, ProjectWork(a), Orderly', CleanUp(a)
    PROVE  /\ stage[a] = "cleanUp" /\ stage'[a] = "pollCleanUp"
           /\ \E p \in projects, g \in ProjectType :
                 Changes(a, p, g) /\ g.envs = p.envs /\ g.quota = p.quota
<1> DEFINE Spared(p, q) == {[acp EXCEPT !.users = @ \ Dropped(request[a], q)] : acp \in p.acps}
<1>1. PICK p \in projects, q \in copy[a] :
        /\ stage[a] = "cleanUp" /\ stage'[a] = "pollCleanUp" /\ p.id = q.id
        /\ Submit(a, {[p EXCEPT !.acps = Spared(p, q)]}, {p})
        /\ UNCHANGED <<projects, quotas, envs, projectIds, copy, made, projectRows>>
  BY InOrder DEF CleanUp, Carried
<1>2. p \in ProjectType
  BY DEF ProjectShape, ProjectStateOK, ProjectsTypeOK
<1>3. Spared(p, q) \in SUBSET [role : Role, users : SUBSET User]
  BY <1>2, ProjectParts
<1> DEFINE acps == Spared(p, q)
           g == [p EXCEPT !.acps = acps]
<1> HIDE DEF acps
<1>4. g \in ProjectType /\ g.id = p.id /\ g.version = p.version /\ g.envs = p.envs /\ g.quota = p.quota
  BY <1>2, <1>3 DEF acps, ProjectType
<1>5. Starts(a, {g}, {p})
  BY <1>1, SubmitStarts DEF acps
<1> HIDE DEF g
<1> QED
  BY <1>1, <1>4, <1>5 DEF Changes

LEMMA Joining ==
    ASSUME ProjectShape, NEW a \in Admin, ProjectWork(a), Orderly', Join(a)
    PROVE  /\ stage[a] = "join" /\ stage'[a] = "pollJoin"
           /\ \E p \in projects, g \in ProjectType :
                 /\ Changes(a, p, g) /\ g.quota = p.quota /\ g.users = p.users
                 /\ g.envs = Joined(request[a], p.envs, made[a])
<1>1. PICK p \in projects, q \in copy[a] :
        /\ stage[a] = "join" /\ stage'[a] = "pollJoin" /\ p.id = q.id
        /\ Submit(a, {[p EXCEPT !.envs = Joined(request[a], p.envs, made[a])]}, {p})
        /\ UNCHANGED <<projects, quotas, envs, projectIds, copy, made, projectRows>>
  BY InOrder DEF Join, Carried
<1>2. p \in ProjectType /\ p.envs \subseteq Nat /\ made[a] \subseteq Nat
  BY ProjectParts DEF ProjectShape, ProjectStateOK, ProjectsTypeOK
<1> DEFINE es == Joined(request[a], p.envs, made[a])
           g == [p EXCEPT !.envs = es]
<1>3. es \in SUBSET Nat
  BY <1>1, <1>2, InOrder, OpsAt DEF Joined
<1> HIDE DEF es
<1>4. /\ g \in ProjectType /\ g.id = p.id /\ g.version = p.version /\ g.envs = es /\ g.quota = p.quota
      /\ g.users = p.users
  BY <1>2, <1>3 DEF ProjectType
<1>5. Starts(a, {g}, {p})
  BY <1>1, SubmitStarts DEF es
<1> HIDE DEF g
<1> QED
  BY <1>1, <1>4, <1>5 DEF Changes, es

LEMMA WritingRow ==
    ASSUME ProjectShape, NEW a \in Admin, ProjectWork(a), Orderly', WriteRow(a)
    PROVE  /\ stage[a] = "writeRow"
           /\ stage'[a] = IF request[a].op = "createProject" /\ request[a].env THEN "makeEnv" ELSE "idle"
           /\ projectRows' = IF request[a].op = "createProject" THEN projectRows \cup Ids(copy[a])
                             ELSE projectRows
           /\ UNCHANGED <<Aside, copy>>
BY InOrder DEF WriteRow, Aside, projectServer, Ids

(* All the steps there are.                                                 *)
LEMMA StepsInOrder ==
    ASSUME ProjectShape, NEW a \in Admin, ProjectWork(a), Orderly'
    PROVE  \/ UNCHANGED <<Aside, copy, projectRows>> /\ GoesOn(a)
           \/ Delete(a) /\ projects # {}
           \/ PollDelete(a) \/ Post(a) \/ Read(a) \/ Put(a) \/ CleanUp(a) \/ SetQuota(a)
           \/ MakeEnv(a) \/ DropEnv(a) \/ Join(a) \/ WriteRow(a)
BY GoingOn DEF ProjectWork

-----------------------------------------------------------------------------
LEMMA Alone ==
    ASSUME Exclusive, NEW a \in Admin, ~ Idle(a), request[a].op \in {"createProject", "deleteProject"},
           NEW b \in Admin \ {a}
    PROVE  Idle(b)
BY DEF Exclusive, ProjectClash

(* A command that goes on does not wait for the task that is there.          *)
LEMMA NotTheTasks ==
    ASSUME ProjectShape, Exclusive, TasksOK, NEW a \in Admin, ProjectWork(a), Orderly', NEW t \in task
    PROVE  /\ t.by \in Admin \ {a} /\ ~ Idle(t.by)
           /\ task' = task /\ projects' = projects
           /\ request[a].op \notin {"createProject", "deleteProject"}
<1>1. t.by \in Admin /\ result[t.by] = "pending"
      /\ stage[t.by] \in {"pollDelete", "pollCreate", "pollPut", "pollCleanUp", "pollJoin"}
  BY DEF TasksOK, ProjectShape, ProjectStateOK, ProjectsTypeOK, OneProject
<1>2. ~ (result[a] = "pending" /\ stage[a] \in {"pollDelete", "pollCreate", "pollPut", "pollCleanUp", "pollJoin"})
  <2>1. CASE GoesOn(a)
    BY <2>1 DEF GoesOn
  <2>2. CASE Delete(a) /\ projects # {}
    BY <2>2, DeletingProject
  <2>3. CASE PollDelete(a) \/ Post(a) \/ Read(a)
    BY <2>3, Deleted, Posting, Reading
  <2>4. CASE Put(a) \/ CleanUp(a) \/ SetQuota(a)
    BY <2>4 DEF Put, CleanUp, SetQuota
  <2>5. CASE MakeEnv(a) \/ DropEnv(a) \/ Join(a) \/ WriteRow(a)
    BY <2>5 DEF MakeEnv, DropEnv, Join, WriteRow
  <2> QED
    BY <2>1, <2>2, <2>3, <2>4, <2>5, StepsInOrder
<1>3. t.by \in Admin \ {a} /\ ~ Idle(t.by)
  BY <1>1, <1>2 DEF Idle
<1>4. request[a].op \notin {"createProject", "deleteProject"}
  BY <1>3, InOrder, Alone
<1>5. task # {}
  OBVIOUS
<1>6. task' = task /\ projects' = projects
  <2>1. CASE UNCHANGED Aside
    BY <2>1 DEF Aside
  <2>2. CASE Delete(a) /\ projects # {}
    BY <1>5, <2>2, DeletingProject DEF Starts
  <2>3. CASE PollDelete(a) \/ Read(a) \/ WriteRow(a)
    BY <2>3, Deleted, Reading, WritingRow DEF Aside
  <2>4. CASE Post(a)
    BY <1>5, <2>4, Posting DEF Starts
  <2>5. CASE Put(a)
    BY <1>5, <2>5, InOrder DEF Put, Submit
  <2>6. CASE CleanUp(a) \/ Join(a)
    BY <1>5, <2>6, CleaningUp, Joining DEF Changes, Starts
  <2>7. CASE SetQuota(a) \/ MakeEnv(a) \/ DropEnv(a)
    BY <2>7, SettingQuota, MakingEnv, DroppingEnv
  <2> QED
    BY <2>1, <2>2, <2>3, <2>4, <2>5, <2>6, <2>7, StepsInOrder
<1> QED
  BY <1>3, <1>4, <1>6

LEMMA NumbersKept ==
    ASSUME ProjectShape, NumbersOK, NEW a \in Admin, ProjectWork(a), Orderly' PROVE NumbersOK'
<1>1. \A b \in Admin \ {a} : copy'[b] = copy[b] /\ made'[b] = made[b]
  BY InOrderFrame
<1>2. projectIds \in Nat /\ (\A p \in projects : p.id \in Nat) /\ \A b \in Admin : \A c \in copy[b] : c.id \in Nat
  BY DEF ProjectShape, ProjectStateOK, ProjectsTypeOK, ProjectType
<1>3. /\ \A n \in Nat : n <= projectIds => n <= projectIds + 1
      /\ \A b \in Admin : made[b] \subseteq Nat
      /\ \A q \in quotas : q.project \in Nat
      /\ \A e \in envs : e.id \in Nat /\ e.project \in Nat
  BY <1>2 DEF ProjectShape, ProjectStateOK, ProjectsTypeOK
<1>4. CASE UNCHANGED <<Aside, copy>>
  BY <1>4 DEF NumbersOK, Aside
<1>5. CASE Delete(a) /\ projects # {}
  BY <1>1, <1>5, DeletingProject DEF NumbersOK
<1>6. CASE PollDelete(a) \/ WriteRow(a)
  BY <1>4, <1>6, Deleted, WritingRow
<1>7. CASE Post(a)
  <2>1. projectIds' = projectIds + 1 /\ UNCHANGED <<quotas, envs, made>>
        /\ \A p \in projects' \cup copy'[a] : p.id = projectIds + 1
    BY <1>7, Posting
  <2>2. \A p \in projects' \cup copy'[a] : p.id <= projectIds'
    BY <1>2, <2>1
  <2> QED
    BY <1>1, <1>2, <1>3, <2>1, <2>2 DEF NumbersOK
<1>8. CASE Read(a)
  BY <1>1, <1>8, Reading DEF NumbersOK, Aside
<1>9. CASE Put(a) \/ CleanUp(a) \/ Join(a)
  <2>1. UNCHANGED <<projects, quotas, envs, projectIds, copy, made>>
    BY <1>9, CleaningUp, Joining, InOrder DEF Put, Changes
  <2> QED
    BY <2>1 DEF NumbersOK
<1>10. CASE SetQuota(a)
  BY <1>10, SettingQuota DEF NumbersOK
<1>11. CASE MakeEnv(a)
  <2>1. PICK p \in projects :
          copy'[a] = {p} /\ envs' = envs \cup {[id |-> projectIds + 1, project |-> p.id]}
    BY <1>11, MakingEnv
  <2>2. projectIds' = projectIds + 1 /\ made'[a] = {projectIds + 1} /\ UNCHANGED <<projects, quotas>>
    BY <1>11, MakingEnv
  <2>3. p.id <= projectIds + 1 /\ projectIds + 1 <= projectIds + 1
    BY <1>2, <1>3 DEF NumbersOK
  <2>4. \A e, f \in envs' : e.id = f.id => e = f
    <3>1. \A e \in envs : e.id # projectIds + 1
      BY <1>2, <1>3 DEF NumbersOK
    <3> QED
      BY <2>1, <3>1 DEF NumbersOK
  <2>5. \A e \in envs' : e.id <= projectIds' /\ e.project <= projectIds'
    BY <1>3, <2>1, <2>2, <2>3 DEF NumbersOK
  <2>6. \A b \in Admin : \A c \in copy'[b] : c.id <= projectIds'
    BY <1>1, <1>2, <1>3, <2>1, <2>2, <2>3 DEF NumbersOK
  <2>7. \A b \in Admin : \A n \in made'[b] : n <= projectIds'
    BY <1>1, <1>3, <2>2, <2>3 DEF NumbersOK
  <2> QED
    BY <1>2, <1>3, <2>2, <2>4, <2>5, <2>6, <2>7 DEF NumbersOK
<1>12. CASE DropEnv(a)
  BY <1>1, <1>12, DroppingEnv DEF NumbersOK
<1> QED
  BY <1>4, <1>5, <1>6, <1>7, <1>8, <1>9, <1>10, <1>11, <1>12, StepsInOrder

LEMMA VersionsKept ==
    ASSUME ProjectShape, NumbersOK, VersionsOK, HasCopy, NEW a \in Admin, ProjectWork(a), Orderly'
    PROVE  VersionsOK'
<1>1. \A b \in Admin \ {a} : copy'[b] = copy[b]
  BY InOrderFrame
<1>2. /\ projectIds \in Nat /\ \A p \in projects : p.id \in Nat /\ p.version \in Nat
      /\ \A p, q \in projects : p = q
      /\ \A b \in Admin : \A c \in copy[b] : c.id \in Nat /\ c.version \in Nat
  BY DEF ProjectShape, ProjectStateOK, ProjectsTypeOK, ProjectType, OneProject
<1>3. CASE UNCHANGED <<Aside, copy>>
  BY <1>3 DEF VersionsOK, Aside
<1>4. CASE Delete(a) /\ projects # {}
  <2>1. projects' = projects /\ copy'[a] = projects /\ task' = {[by |-> a, good |-> {}, bad |-> projects]}
    BY <1>4, DeletingProject DEF Starts
  <2>2. \A c \in copy'[a] : \A p \in projects : c.id = p.id => c.version <= p.version
    BY <1>2, <2>1
  <2> QED
    BY <1>1, <2>1, <2>2 DEF VersionsOK
<1>5. CASE PollDelete(a) \/ WriteRow(a)
  BY <1>3, <1>5, Deleted, WritingRow
<1>6. CASE Post(a)
  <2>1. PICK p \in ProjectType :
          /\ projects' = {p} /\ copy'[a] = {p} /\ Starts(a, {p}, {}) /\ p.id = projectIds + 1 /\ p.version = 0
    BY <1>6, Posting
  <2>2. \A b \in Admin \ {a} : \A c \in copy'[b] : c.id # p.id
    BY <1>1, <1>2, <2>1 DEF NumbersOK
  <2>3. task' = {[by |-> a, good |-> {p}, bad |-> {}]}
    BY <2>1 DEF Starts
  <2> QED
    BY <2>1, <2>2, <2>3 DEF VersionsOK
<1>7. CASE Read(a)
  <2>1. UNCHANGED <<projects, task>> /\ \E p \in projects : copy'[a] = {p}
    BY <1>7, Reading DEF Aside
  <2>2. \A c \in copy'[a] : \A p \in projects : c.id = p.id => c.version <= p.version
    BY <1>2, <2>1
  <2> QED
    BY <1>1, <2>1, <2>2 DEF VersionsOK
<1>8. CASE Put(a) \/ CleanUp(a) \/ Join(a)
  <2>1. stage[a] = "put" => copy[a] # {}
    BY DEF HasCopy
  <2>2. \E p \in projects, g \in ProjectType : Changes(a, p, g)
    BY <1>8, <2>1, Putting, CleaningUp, Joining DEF Put
  <2>3. PICK p \in projects, g \in ProjectType : Changes(a, p, g)
    BY <2>2
  <2>4. UNCHANGED <<projects, copy>> /\ task' = {[by |-> a, good |-> {g}, bad |-> {p}]}
        /\ g.id = p.id /\ g.version = p.version
    BY <2>3 DEF Changes, Starts
  <2> QED
    BY <2>4 DEF VersionsOK
<1>9. CASE SetQuota(a)
  BY <1>9, SettingQuota DEF VersionsOK
<1>10. CASE MakeEnv(a) \/ DropEnv(a)
  <2>1. UNCHANGED <<projects, task>> /\ \E p \in projects : copy'[a] = {p}
    BY <1>10, MakingEnv, DroppingEnv
  <2>2. \A c \in copy'[a] : \A p \in projects : c.id = p.id => c.version <= p.version
    BY <1>2, <2>1
  <2> QED
    BY <1>1, <2>1, <2>2 DEF VersionsOK
<1> QED
  BY <1>3, <1>4, <1>5, <1>6, <1>7, <1>8, <1>9, <1>10, StepsInOrder

LEMMA HasCopyKept ==
    ASSUME ProjectShape, HasCopy, NEW a \in Admin, ProjectWork(a), Orderly' PROVE HasCopy'
<1>1. \A b \in Admin \ {a} : stage'[b] = stage[b] /\ copy'[b] = copy[b]
  BY InOrderFrame
<1>2. request' = request
  BY InOrder
<1>3. SUFFICES \/ copy'[a] # {}
               \/ /\ stage'[a] \notin {"pollDelete", "pollCreate", "enable", "setQuota", "put", "pollPut", "cleanUp",
                                       "pollCleanUp", "join", "pollJoin", "fetchRow", "writeRow"}
                  /\ ~ (stage'[a] = "usage" /\ request[a].op # "createProject")
  BY <1>1, <1>2 DEF HasCopy
<1>4. CASE UNCHANGED <<Aside, copy, projectRows>> /\ GoesOn(a)
  <2>1. copy' = copy
    BY <1>4
  <2>2. stage[a] = "lookup" => request[a].op = "createProject"
    BY InOrder, OpsAt
  <2> QED
    BY <1>4, <2>1, <2>2 DEF GoesOn, HasCopy, AfterDelete
<1>5. CASE Delete(a) /\ projects # {}
  BY <1>5, DeletingProject
<1>6. CASE PollDelete(a)
  BY <1>6, Deleted DEF HasCopy
<1>7. CASE Post(a) \/ Read(a) \/ MakeEnv(a) \/ DropEnv(a)
  BY <1>7, Posting, Reading, MakingEnv, DroppingEnv
<1>8. CASE Put(a)
  BY <1>8, InOrder DEF Put, HasCopy
<1>9. CASE CleanUp(a) \/ Join(a)
  BY <1>9, CleaningUp, Joining DEF Changes
<1>10. CASE SetQuota(a)
  BY <1>10, SettingQuota
<1>11. CASE WriteRow(a)
  BY <1>11, WritingRow
<1> QED
  BY <1>4, <1>5, <1>6, <1>7, <1>8, <1>9, <1>10, <1>11, StepsInOrder

LEMMA ExclusiveKept ==
    ASSUME ProjectShape, Exclusive, NEW a \in Admin, ProjectWork(a), Orderly' PROVE Exclusive'
<1>1. \A b \in Admin : Idle(b) => Idle(b)'
  BY InOrder, InOrderFrame DEF Idle
<1> QED
  BY <1>1, InOrder DEF Exclusive, ProjectClash

LEMMA TasksKept ==
    ASSUME ProjectShape, HasCopy, Exclusive, TasksOK, NEW a \in Admin, ProjectWork(a), Orderly' PROVE TasksOK'
<1>1. CASE task # {}
  <2>1. \A t \in task : t.by \in Admin \ {a} /\ task' = task /\ projects' = projects
    BY NotTheTasks
  <2>2. task' = task /\ projects' = projects
    BY <1>1, <2>1
  <2>3. \A t \in task : stage'[t.by] = stage[t.by] /\ copy'[t.by] = copy[t.by]
    BY <2>1, InOrderFrame
  <2> QED
    BY <2>2, <2>3 DEF TasksOK
<1>2. ASSUME task = {} PROVE TasksOK'
  <2>1. CASE task' = task
    BY <1>2, <2>1 DEF TasksOK
  <2>2. CASE Delete(a) /\ projects # {}
    <3>1. /\ task' = {[by |-> a, good |-> {}, bad |-> projects]} /\ projects' = projects
          /\ stage'[a] = "pollDelete" /\ copy'[a] = projects
      BY <2>2, DeletingProject DEF Starts
    <3> QED
      BY <3>1 DEF TasksOK
  <2>3. CASE Post(a)
    <3>1. task' = {[by |-> a, good |-> projects', bad |-> {}]} /\ stage'[a] = "pollCreate"
      BY <2>3, Posting DEF Starts
    <3> QED
      BY <3>1 DEF TasksOK
  <2>4. CASE Put(a) \/ CleanUp(a) \/ Join(a)
    <3>1. stage[a] = "put" => copy[a] # {}
      BY DEF HasCopy
    <3>2. /\ \E p \in projects, g \in ProjectType : Changes(a, p, g)
          /\ stage'[a] \in {"pollPut", "pollCleanUp", "pollJoin"}
      BY <2>4, <3>1, Putting, CleaningUp, Joining DEF Put
    <3>3. PICK p \in projects, g \in ProjectType : Changes(a, p, g)
      BY <3>2
    <3>4. projects' = projects /\ task' = {[by |-> a, good |-> {g}, bad |-> {p}]} /\ g.id = p.id
      BY <3>3 DEF Changes, Starts
    <3>5. projects = {p}
      BY DEF ProjectShape, OneProject
    <3>6. Ids({g}) = Ids(projects') /\ Ids({p}) = Ids(projects')
      BY <3>4, <3>5 DEF Ids
    <3>7. \A t \in task' : t.by = a /\ t.good = {g} /\ t.bad = {p}
      BY <3>4
    <3>8. \A t \in task' : Ids(t.good) = Ids(projects') /\ Ids(t.bad) = Ids(projects')
      BY <3>6, <3>7
    <3>9. \A t \in task' : stage'[t.by] \in {"pollPut", "pollCleanUp", "pollJoin"}
      BY <3>2, <3>7
    <3> QED
      BY <3>8, <3>9 DEF TasksOK, Ids
  <2> QED
    BY <2>1, <2>2, <2>3, <2>4, StepsInOrder, Deleted, Reading, SettingQuota, MakingEnv, DroppingEnv, WritingRow
       DEF Aside
<1> QED
  BY <1>1, <1>2

LEMMA DeletesKept ==
    ASSUME ProjectShape, Exclusive, DeletesOK, NEW a \in Admin, ProjectWork(a), Orderly' PROVE DeletesOK'
<1> SUFFICES ASSUME NEW b \in Admin, stage'[b] = "pollDelete", result'[b] = "succeeded" PROVE projects' = {}
  BY DEF DeletesOK
<1>1. CASE b # a
  <2>1. stage[b] = "pollDelete"
    BY <1>1, InOrderFrame
  <2>2. Idle(a)
    BY <1>1, <2>1, OpsAt, Alone DEF Idle
  <2> QED
    BY <2>2, InOrder
<1>2. CASE b = a
  <2>1. CASE UNCHANGED <<Aside, copy, projectRows>> /\ GoesOn(a)
    BY <1>2, <2>1 DEF GoesOn, AfterDelete
  <2>2. CASE Delete(a) /\ projects # {}
    BY <1>2, <2>2, DeletingProject DEF Starts
  <2>3. CASE PollDelete(a) \/ Post(a) \/ Read(a)
    BY <1>2, <2>3, Deleted, Posting, Reading DEF AfterDelete
  <2>4. CASE Put(a) \/ CleanUp(a) \/ Join(a)
    BY <1>2, <2>4, CleaningUp, Joining, InOrder DEF Put, Carried
  <2>5. CASE SetQuota(a) \/ MakeEnv(a) \/ DropEnv(a) \/ WriteRow(a)
    BY <1>2, <2>5, SettingQuota, MakingEnv, DroppingEnv, WritingRow
  <2> QED
    BY <2>1, <2>2, <2>3, <2>4, <2>5, StepsInOrder
<1> QED
  BY <1>1, <1>2

(* Environments of a project that has not been there yet.                   *)
LEMMA NoEnvsYet ==
    ASSUME ProjectShape, NumbersOK PROVE EnvsOf(projectIds + 1) = {}
<1>1. \A e \in envs : e.project \in Nat /\ e.project <= projectIds /\ projectIds \in Nat
  BY DEF ProjectShape, ProjectStateOK, ProjectsTypeOK, NumbersOK
<1>2. \A e \in envs : e.project # projectIds + 1
  BY <1>1
<1> QED
  BY <1>2 DEF EnvsOf

LEMMA CreatesKept ==
    ASSUME ProjectShape, NumbersOK, HasCopy, Exclusive, CreatesOK, NEW a \in Admin, ProjectWork(a), Orderly'
    PROVE  CreatesOK'
<1> DEFINE Good(b) ==
        /\ (stage[b] = "pollCreate" /\ result[b] = "failed")
             \/ (copy[b] # {} /\ Ids(projects) = Ids(copy[b]))
        /\ \A p \in projects : p.users = request[b].users /\ p.quota = request[b].quota
        /\ \A t \in task : \A g \in t.good : g.users = request[b].users /\ g.quota = request[b].quota
        /\ stage[b] \notin {"join", "pollJoin"} => \A c \in copy[b] : EnvsOf(c.id) = {}
<1>1. ASSUME NEW b \in Admin \ {a} PROVE ~ CreatingProject(b)'
  <2>1. CreatingProject(b)' => CreatingProject(b) /\ ~ Idle(b)
    BY InOrder, InOrderFrame DEF CreatingProject, Idle
  <2>2. CreatingProject(b) /\ ~ Idle(b) => Idle(a)
    BY Alone DEF CreatingProject
  <2> QED
    BY <2>1, <2>2, InOrder
<1>2. SUFFICES ASSUME CreatingProject(a)' PROVE Good(a)'
  BY <1>1 DEF CreatesOK
<1>3. request' = request /\ request[a].op = "createProject"
  BY <1>2, InOrder DEF CreatingProject
<1>4. CreatingProject(a) => Good(a)
  BY DEF CreatesOK
<1>5. CASE UNCHANGED <<Aside, copy, projectRows>> /\ GoesOn(a)
  <2>1. stage[a] \in {"pollCreate", "enable", "fetchRow"} /\ ~ (stage[a] = "pollCreate" /\ result[a] = "failed")
        /\ stage'[a] \in {"enable", "setQuota", "fetchRow", "writeRow"}
    <3>1. stage[a] \notin {"pollPut", "pollCleanUp"}
      BY <1>3, InOrder, OpsAt DEF AcpOp
    <3> QED
      BY <1>2, <1>3, <1>5, <3>1 DEF GoesOn, CreatingProject, AfterDelete
  <2>2. Good(a)
    BY <1>3, <1>4, <2>1 DEF CreatingProject
  <2> QED
    BY <1>3, <1>5, <2>1, <2>2 DEF Aside, EnvsOf
<1>6. CASE Delete(a) /\ projects # {}
  BY <1>2, <1>6, DeletingProject DEF CreatingProject
<1>7. CASE PollDelete(a) \/ Read(a)
  BY <1>2, <1>7, Deleted, Reading, InOrder, OpsAt DEF CreatingProject, AfterDelete, AcpOp
<1>8. CASE Post(a)
  <2>1. PICK p \in ProjectType :
          /\ projects' = {p} /\ copy'[a] = {p} /\ Starts(a, {p}, {}) /\ p.id = projectIds + 1
          /\ p.users = request[a].users /\ p.quota = request[a].quota
    BY <1>8, Posting
  <2>2. task' = {[by |-> a, good |-> {p}, bad |-> {}]} /\ envs' = envs
    BY <1>8, <2>1, Posting DEF Starts
  <2>3. EnvsOf(p.id)' = {}
    BY <2>1, <2>2, NoEnvsYet DEF EnvsOf
  <2> QED
    BY <1>3, <2>1, <2>2, <2>3
<1>9. CASE Put(a) \/ CleanUp(a)
  BY <1>3, <1>9, CleaningUp, InOrder, OpsAt DEF Put, AcpOp
<1>10. CASE Join(a)
  <2>1. stage[a] = "join" /\ stage'[a] = "pollJoin"
    BY <1>10, Joining
  <2>2. PICK p \in projects, g \in ProjectType : Changes(a, p, g) /\ g.quota = p.quota /\ g.users = p.users
    BY <1>10, Joining
  <2>3. UNCHANGED <<projects, copy>> /\ task' = {[by |-> a, good |-> {g}, bad |-> {p}]}
    BY <2>2 DEF Changes, Starts
  <2>4. Good(a)
    BY <1>3, <1>4, <2>1 DEF CreatingProject
  <2> QED
    BY <1>3, <2>1, <2>2, <2>3, <2>4
<1>11. CASE SetQuota(a)
  <2>1. stage[a] = "setQuota" /\ stage'[a] = "fetchRow" /\ UNCHANGED <<projects, task, result, envs, copy>>
    BY <1>3, <1>11, SettingQuota
  <2>2. Good(a)
    BY <1>3, <1>4, <2>1 DEF CreatingProject
  <2> QED
    BY <1>3, <2>1, <2>2 DEF EnvsOf
<1>12. CASE MakeEnv(a)
  <2>1. /\ stage[a] = "makeEnv" /\ stage'[a] = "join" /\ UNCHANGED <<projects, task, result>>
        /\ \E p \in projects : copy'[a] = {p}
    BY <1>12, MakingEnv
  <2>2. Good(a)
    BY <1>3, <1>4, <2>1 DEF CreatingProject
  <2>3. copy'[a] = projects
    BY <2>1 DEF ProjectShape, OneProject
  <2> QED
    BY <1>3, <2>1, <2>2, <2>3
<1>13. CASE DropEnv(a)
  BY <1>3, <1>13, DroppingEnv, InOrder, OpsAt
<1>14. CASE WriteRow(a)
  <2>1. stage[a] = "writeRow" /\ stage'[a] \in {"makeEnv", "idle"} /\ UNCHANGED <<Aside, copy>>
    BY <1>14, WritingRow
  <2>2. Good(a)
    BY <1>3, <1>4, <2>1 DEF CreatingProject
  <2> QED
    BY <1>3, <2>1, <2>2 DEF Aside, EnvsOf
<1> QED
  BY <1>5, <1>6, <1>7, <1>8, <1>9, <1>10, <1>11, <1>12, <1>13, <1>14, StepsInOrder

LEMMA RowsKept ==
    ASSUME ProjectShape, Exclusive, DeletesOK, CreatesOK, RowsOK, NEW a \in Admin, ProjectWork(a), Orderly'
    PROVE  RowsOK'
<1>1. ASSUME NEW b \in Admin \ {a} PROVE ~ RowPending(b) /\ ~ RowPending(b)' /\ stage[b] # "pollCreate" /\ stage'[b] # "pollCreate"
  <2>1. stage'[b] = stage[b] /\ request' = request
    BY InOrder, InOrderFrame
  <2>2. ~ Idle(b) => request[b].op \notin {"createProject", "deleteProject"}
    BY Alone, InOrder
  <2>3. ~ Idle(b) => stage[b] \notin {"pollDelete", "pollCreate"}
    BY <2>2, OpsAt
  <2> QED
    BY <2>1, <2>2, <2>3 DEF RowPending, Idle
<1>2. projectRows = Ids(projects) \/ RowPending(a)
  BY <1>1 DEF RowsOK
<1>3. SUFFICES /\ projectRows' = Ids(projects') \/ RowPending(a)'
               /\ stage'[a] = "pollCreate" => projectRows' = {}
  BY <1>1 DEF RowsOK, Ids
<1>4. CASE UNCHANGED <<Aside, copy, projectRows>> /\ GoesOn(a)
  <2>1. stage'[a] # "pollCreate"
    BY <1>4 DEF GoesOn, AfterDelete
  <2>2. RowPending(a) => RowPending(a)'
    <3>1. RowPending(a) => stage[a] \in {"pollDelete", "pollCreate", "enable", "setQuota", "fetchRow", "writeRow"}
                           /\ (stage[a] # "pollDelete" => projectRows = {} /\ request[a].op = "createProject")
      BY DEF RowPending
    <3>2. RowPending(a) => stage'[a] \in {"pollCreate", "enable", "setQuota", "fetchRow", "writeRow"}
                           /\ stage[a] # "pollDelete"
      BY <1>4, <3>1 DEF GoesOn
    <3> QED
      BY <1>4, <3>1, <3>2, InOrder DEF RowPending
  <2> QED
    BY <1>2, <1>4, <2>1, <2>2 DEF Aside
<1>5. CASE Delete(a) /\ projects # {}
  <2>1. stage[a] = "delete" /\ stage'[a] = "pollDelete" /\ UNCHANGED <<projects, projectRows>>
    BY <1>5, DeletingProject
  <2> QED
    BY <1>2, <2>1 DEF RowPending
<1>6. CASE PollDelete(a)
  <2>1. /\ stage[a] = "pollDelete" /\ result[a] = "succeeded" /\ stage'[a] # "pollCreate"
        /\ projectRows' = projectRows \ Ids(copy[a]) /\ projects' = projects
    BY <1>6, Deleted DEF AfterDelete, Aside
  <2>2. projects = {} /\ Ids({}) = {}
    BY <2>1 DEF DeletesOK, Ids
  <2>3. projectRows = {} \/ projectRows = Ids(copy[a])
    BY <1>2, <2>1, <2>2 DEF RowPending
  <2> QED
    BY <2>1, <2>2, <2>3
<1>7. CASE Post(a)
  <2>1. stage[a] = "post" /\ stage'[a] = "pollCreate" /\ projects = {} /\ projectRows' = projectRows
    BY <1>7, Posting
  <2>2. projectRows = {}
    BY <1>2, <2>1 DEF RowPending, Ids
  <2>3. request'[a].op = "createProject"
    BY <2>1, InOrder, OpsAt
  <2> QED
    BY <2>1, <2>2, <2>3 DEF RowPending
<1>8. CASE Read(a)
  <2>1. stage[a] = "read" /\ stage'[a] # "pollCreate" /\ UNCHANGED <<projects, projectRows>>
    BY <1>8, Reading DEF Aside
  <2> QED
    BY <1>2, <2>1 DEF RowPending
<1>9. CASE Put(a) \/ CleanUp(a) \/ Join(a)
  <2>1. /\ stage[a] \in {"put", "cleanUp", "join"} /\ stage'[a] \in {"pollPut", "pollCleanUp", "pollJoin"}
        /\ UNCHANGED <<projects, projectRows>>
    BY <1>9, CleaningUp, Joining, InOrder DEF Put, Carried, Changes
  <2> QED
    BY <1>2, <2>1 DEF RowPending
<1>10. CASE SetQuota(a)
  <2>1. /\ stage[a] = "setQuota" /\ UNCHANGED <<projects, projectRows>> /\ request' = request
        /\ stage'[a] = IF request[a].op = "createProject" THEN "fetchRow" ELSE "put"
    BY <1>10, SettingQuota, InOrder
  <2> QED
    BY <1>2, <2>1 DEF RowPending
<1>11. CASE MakeEnv(a) \/ DropEnv(a)
  <2>1. stage[a] \in {"makeEnv", "dropEnv"} /\ stage'[a] = "join" /\ UNCHANGED <<projects, projectRows>>
    BY <1>11, MakingEnv, DroppingEnv
  <2> QED
    BY <1>2, <2>1 DEF RowPending
<1>12. CASE WriteRow(a)
  <2>1. stage[a] = "writeRow" /\ stage'[a] \in {"makeEnv", "idle"} /\ UNCHANGED <<Aside, copy>>
    BY <1>12, WritingRow
  <2>2. CASE request[a].op = "createProject"
    <3>1. projectRows' = projectRows \cup Ids(copy[a])
      BY <1>12, <2>2, WritingRow
    <3>2. Ids(projects) = Ids(copy[a])
      BY <2>1, <2>2 DEF CreatesOK, CreatingProject
    <3>3. projectRows = Ids(projects) \/ projectRows = {}
      BY <1>2, <2>1 DEF RowPending
    <3> QED
      BY <2>1, <3>1, <3>2, <3>3 DEF Aside
  <2>3. CASE request[a].op # "createProject"
    BY <1>2, <1>12, <2>1, <2>3, WritingRow DEF RowPending, Aside
  <2> QED
    BY <2>2, <2>3
<1> QED
  BY <1>4, <1>5, <1>6, <1>7, <1>8, <1>9, <1>10, <1>11, <1>12, StepsInOrder

LEMMA OthersUnsettled ==
    ASSUME ProjectShape, NEW a \in Admin, ProjectWork(a), Orderly', NEW b \in Admin \ {a}
    PROVE  \A id : Unsettled(b, id)' <=> Unsettled(b, id)
<1>1. /\ stage'[b] = stage[b] /\ copy'[b] = copy[b] /\ result'[b] = result[b]
      /\ request' = request
  BY InOrder, InOrderFrame
<1> QED
  BY <1>1 DEF Unsettled

(* A step that leaves the quotas alone, and takes no command whose quota is *)
(* to be put to the point where it puts.                                   *)
LEMMA QuotasStill ==
    ASSUME ProjectShape, QuotasOK, NEW a \in Admin, ProjectWork(a), Orderly', UNCHANGED <<projects, quotas>>,
           \A id : Unsettled(a, id) => Unsettled(a, id)',
           stage'[a] # "put" \/ request[a].op # "updateProject" \/ request[a].quota = NoQuota
    PROVE  QuotasOfProject' /\ QuotasToPut'
<1>1. \A b \in Admin : \A id : Unsettled(b, id) => Unsettled(b, id)'
  BY OthersUnsettled
<1>2. \A id, k : Agrees(id, k)' <=> Agrees(id, k)
  BY DEF Agrees
<1>3. QuotasOfProject'
  BY <1>1, <1>2 DEF QuotasOK, QuotasOfProject
<1>4. ASSUME NEW b \in Admin, NEW k, k = request[b].quota, request[b].op = "updateProject", k # NoQuota,
             stage'[b] = "put", NEW c \in copy'[b] \cap projects'
      PROVE  Agrees(c.id, k)' \/ \E d \in Admin \ {b} : Unsettled(d, c.id)'
  <2>1. b # a /\ stage[b] = "put" /\ c \in copy[b] \cap projects /\ request' = request
    BY <1>4, InOrder, InOrderFrame
  <2>2. Agrees(c.id, k) \/ \E d \in Admin \ {b} : Unsettled(d, c.id)
    BY <1>4, <2>1 DEF QuotasOK, QuotasToPut
  <2> QED
    BY <1>1, <1>2, <2>1, <2>2
<1>5. QuotasToPut'
  BY <1>4, InOrder DEF QuotasToPut, Agrees
<1> QED
  BY <1>3, <1>5

LEMMA QuotasOfTaskStill ==
    ASSUME ProjectShape, Exclusive, TasksOK, QuotasOK, NEW a \in Admin, ProjectWork(a), Orderly',
           UNCHANGED <<task, quotas>>, \A id : Unsettled(a, id) => Unsettled(a, id)'
    PROVE  QuotasOfTask'
<1> SUFFICES ASSUME NEW t \in task, NEW g \in t.good, g.quota # NoQuota
             PROVE  \/ Agrees(g.id, g.quota)
                    \/ \E b \in Admin : Unsettled(b, g.id)' /\ ~ (b = t.by /\ stage'[b] = "pollPut")
  BY DEF QuotasOfTask, Agrees
<1>1. CASE Agrees(g.id, g.quota)
  BY <1>1
<1>2. CASE ~ Agrees(g.id, g.quota)
  <2>1. PICK b \in Admin : Unsettled(b, g.id) /\ ~ (b = t.by /\ stage[b] = "pollPut")
    BY <1>2 DEF QuotasOK, QuotasOfTask
  <2>2. t.by # a
    BY NotTheTasks
  <2>3. b # a => stage'[b] = stage[b] /\ (Unsettled(b, g.id) => Unsettled(b, g.id)')
    BY InOrderFrame, OthersUnsettled
  <2> QED
    BY <2>1, <2>2, <2>3
<1> QED
  BY <1>1, <1>2

LEMMA QuotaIsSet ==
    ASSUME ProjectShape, Exclusive, TasksOK, CreatesOK, QuotasOK, NEW a \in Admin, ProjectWork(a), Orderly',
           SetQuota(a)
    PROVE  QuotasOK'
<1>1. PICK c \in copy[a] :
        quotas' = {q \in quotas : q.project # c.id} \cup {[project |-> c.id, limit |-> request[a].quota]}
  BY SettingQuota
<1>2. /\ stage[a] = "setQuota" /\ UNCHANGED <<projects, task, result, copy>>
      /\ stage'[a] = IF request[a].op = "createProject" THEN "fetchRow" ELSE "put"
      /\ request' = request
  BY SettingQuota, InOrder
<1>3. request[a].op \in {"createProject", "updateProject"} /\ request[a].quota # NoQuota
  BY <1>2, InOrder, OpsAt
<1>4. \A d \in copy[a] : d = c
  BY DEF ProjectShape, OneProject
<1>5. \A k : Agrees(c.id, k)' <=> k = request[a].quota
  <2>1. {q \in quotas' : q.project = c.id} = {[project |-> c.id, limit |-> request[a].quota]}
    BY <1>1
  <2>2. \A k : [project |-> c.id, limit |-> k] = [project |-> c.id, limit |-> request[a].quota] =>
               k = request[a].quota
    <3> SUFFICES ASSUME NEW k, [project |-> c.id, limit |-> k] = [project |-> c.id, limit |-> request[a].quota]
                 PROVE  k = request[a].quota
      OBVIOUS
    <3>1. [project |-> c.id, limit |-> k].limit = [project |-> c.id, limit |-> request[a].quota].limit
      OBVIOUS
    <3> QED
      BY <3>1
  <2> QED
    BY <2>1, <2>2 DEF Agrees
<1>6. \A id, k : id # c.id => (Agrees(id, k)' <=> Agrees(id, k))
  <2> SUFFICES ASSUME NEW id, id # c.id PROVE {q \in quotas' : q.project = id} = {q \in quotas : q.project = id}
    BY DEF Agrees
  <2> QED
    BY <1>1
<1>7. \A b \in Admin \ {a} : \A id : Unsettled(b, id)' <=> Unsettled(b, id)
  BY OthersUnsettled
<1>8. CASE request[a].op = "createProject"
  <2>1. CreatingProject(a) /\ \A b \in Admin \ {a} : Idle(b) /\ stage'[b] = "idle"
    BY <1>2, <1>8, InOrder, InOrderFrame, Alone DEF CreatingProject, Idle
  <2>2. task' = {}
    BY <1>2, <1>8, NotTheTasks
  <2>3. \A p \in projects : p.quota = request[a].quota /\ p.id = c.id
    <3>1. Ids(projects) = Ids(copy[a])
      BY <1>2, <2>1 DEF CreatesOK
    <3>2. \A p \in projects : p.id \in Ids(copy[a])
      BY <3>1 DEF Ids
    <3> QED
      BY <1>4, <2>1, <3>2 DEF CreatesOK, Ids
  <2>4. \A p \in projects' : Agrees(p.id, p.quota)'
    BY <1>2, <1>5, <2>3
  <2>5. \A b \in Admin : stage'[b] # "put"
    BY <1>2, <1>8, <2>1
  <2> QED
    BY <2>2, <2>4, <2>5 DEF QuotasOK, QuotasOfProject, QuotasOfTask, QuotasToPut, Agrees
<1>9. CASE request[a].op = "updateProject"
  <2>1. stage'[a] = "put" /\ Unsettled(a, c.id)'
    BY <1>2, <1>3, <1>9 DEF Unsettled
  <2>2. \A id : ~ Unsettled(a, id)
    BY <1>2, <1>9 DEF Unsettled
  <2>3. ASSUME NEW p \in projects', p.quota # NoQuota
        PROVE  Agrees(p.id, p.quota)' \/ \E b \in Admin : Unsettled(b, p.id)'
    <3>1. CASE p.id = c.id
      BY <2>1, <3>1
    <3>2. CASE p.id # c.id
      <4>1. Agrees(p.id, p.quota) \/ \E b \in Admin : Unsettled(b, p.id)
        BY <1>2, <2>3 DEF QuotasOK, QuotasOfProject
      <4> QED
        BY <1>6, <1>7, <2>2, <3>2, <4>1
    <3> QED
      BY <3>1, <3>2
  <2>4. ASSUME NEW t \in task', NEW g \in t.good, g.quota # NoQuota
        PROVE  \/ Agrees(g.id, g.quota)'
               \/ \E b \in Admin : Unsettled(b, g.id)' /\ ~ (b = t.by /\ stage'[b] = "pollPut")
    <3>1. CASE g.id = c.id
      BY <2>1, <3>1
    <3>2. CASE g.id # c.id
      <4>1. \/ Agrees(g.id, g.quota)
            \/ \E b \in Admin : Unsettled(b, g.id) /\ ~ (b = t.by /\ stage[b] = "pollPut")
        BY <1>2, <2>4 DEF QuotasOK, QuotasOfTask
      <4>2. \A b \in Admin \ {a} : stage'[b] = stage[b]
        BY InOrderFrame
      <4> QED
        BY <1>6, <1>7, <2>2, <3>2, <4>1, <4>2
    <3> QED
      BY <3>1, <3>2
  <2>5. ASSUME NEW b \in Admin, NEW k, k = request[b].quota, request[b].op = "updateProject", k # NoQuota,
               stage'[b] = "put", NEW d \in copy'[b] \cap projects'
        PROVE  Agrees(d.id, k)' \/ \E e \in Admin \ {b} : Unsettled(e, d.id)'
    <3>1. CASE b = a
      <4>1. d = c /\ k = request[a].quota
        BY <1>2, <1>4, <2>5, <3>1
      <4>2. Agrees(c.id, k)'
        BY <1>5, <4>1
      <4> QED
        BY <4>1, <4>2
    <3>2. CASE b # a /\ d.id = c.id
      BY <2>1, <3>2
    <3>3. CASE b # a /\ d.id # c.id
      <4>1. stage[b] = "put" /\ d \in copy[b] \cap projects
        BY <1>2, <2>5, <3>3, InOrderFrame
      <4>2. Agrees(d.id, k) \/ \E e \in Admin \ {b} : Unsettled(e, d.id)
        BY <1>2, <2>5, <4>1 DEF QuotasOK, QuotasToPut
      <4> QED
        BY <1>2, <1>6, <1>7, <2>2, <3>3, <4>2
    <3> QED
      BY <3>1, <3>2, <3>3
  <2>6. QuotasOfProject'
    BY <2>3 DEF QuotasOfProject, Agrees
  <2>7. QuotasOfTask'
    BY <2>4 DEF QuotasOfTask, Agrees
  <2>8. QuotasToPut'
    BY <1>2, <2>5 DEF QuotasToPut, Agrees
  <2> QED
    BY <2>6, <2>7, <2>8 DEF QuotasOK
<1> QED
  BY <1>3, <1>8, <1>9

LEMMA QuotasKept ==
    ASSUME ProjectShape, NumbersOK, HasCopy, Exclusive, TasksOK, CreatesOK, QuotasOK,
           NEW a \in Admin, ProjectWork(a), Orderly'
    PROVE  QuotasOK'
<1>1. request' = request
  BY InOrder
<1>2. CASE UNCHANGED <<Aside, copy, projectRows>> /\ GoesOn(a)
  <2>1. \A id : Unsettled(a, id) => Unsettled(a, id)'
    BY <1>1, <1>2 DEF GoesOn, Unsettled, Aside
  <2>2. stage'[a] # "put" \/ request[a].op # "updateProject" \/ request[a].quota = NoQuota
    BY <1>2 DEF GoesOn, AfterDelete
  <2>3. UNCHANGED <<projects, quotas, task>>
    BY <1>2 DEF Aside
  <2> QED
    BY <2>1, <2>2, <2>3, QuotasStill, QuotasOfTaskStill DEF QuotasOK
<1>3. CASE PollDelete(a) \/ Read(a) \/ MakeEnv(a) \/ DropEnv(a) \/ WriteRow(a)
  <2>1. /\ stage[a] \in {"pollDelete", "read", "makeEnv", "dropEnv", "writeRow"}
        /\ stage'[a] # "put" \/ request[a].op # "updateProject" \/ request[a].quota = NoQuota
        /\ UNCHANGED <<projects, quotas, task>>
    BY <1>3, Deleted, Reading, MakingEnv, DroppingEnv, WritingRow DEF AfterDelete, Aside
  <2>2. \A id : ~ Unsettled(a, id)
    BY <2>1 DEF Unsettled
  <2> QED
    BY <2>1, <2>2, QuotasStill, QuotasOfTaskStill DEF QuotasOK
<1>4. CASE Delete(a) /\ projects # {}
  <2>1. stage[a] = "delete" /\ stage'[a] = "pollDelete" /\ Starts(a, {}, projects) /\ UNCHANGED <<projects, quotas>>
    BY <1>4, DeletingProject
  <2>2. \A id : ~ Unsettled(a, id)
    BY <2>1 DEF Unsettled
  <2>3. QuotasOfTask'
    <3>1. \A t \in task' : t.good = {}
      BY <2>1 DEF Starts
    <3> QED
      BY <3>1 DEF QuotasOfTask
  <2> QED
    BY <2>1, <2>2, <2>3, QuotasStill DEF QuotasOK
<1>5. CASE Post(a)
  <2>1. PICK p \in ProjectType :
          /\ projects' = {p} /\ copy'[a] = {p} /\ Starts(a, {p}, {})
          /\ p.quota = request[a].quota
    BY <1>5, Posting
  <2>2. stage[a] = "post" /\ stage'[a] = "pollCreate" /\ request[a].op = "createProject"
    BY <1>5, Posting, InOrder, OpsAt
  <2>3. p.quota # NoQuota => Unsettled(a, p.id)'
    BY <1>1, <2>1, <2>2 DEF Unsettled
  <2>4. task' = {[by |-> a, good |-> {p}, bad |-> {}]}
    BY <2>1 DEF Starts
  <2>5. QuotasOfProject' /\ QuotasOfTask'
    BY <2>1, <2>2, <2>3, <2>4 DEF QuotasOfProject, QuotasOfTask
  <2>6. \A b \in Admin : stage'[b] # "put"
    BY <2>2, InOrder, InOrderFrame, Alone DEF Idle
  <2> QED
    BY <2>5, <2>6 DEF QuotasOK, QuotasToPut
<1>6. CASE Put(a)
  <2>1. copy[a] # {}
    BY <1>6 DEF Put, HasCopy
  <2>2. PICK p \in projects, g \in ProjectType :
          /\ p \in copy[a] /\ Changes(a, p, g)
          /\ g.quota = IF request[a].op = "updateProject" THEN request[a].quota ELSE p.quota
    BY <1>6, <2>1, Putting
  <2>3. /\ stage[a] = "put" /\ stage'[a] = "pollPut" /\ UNCHANGED <<projects, quotas, copy>> /\ g.id = p.id
        /\ task' = {[by |-> a, good |-> {g}, bad |-> {p}]} /\ result'[a] = "pending"
    BY <1>6, <2>1, <2>2, Putting DEF Changes, Starts
  <2>4. \A id : Unsettled(a, id) => Unsettled(a, id)'
    BY <1>1, <2>3 DEF Unsettled
  <2>5. QuotasOfProject' /\ QuotasToPut'
    BY <2>3, <2>4, QuotasStill
  <2>6. g.quota # NoQuota => Agrees(g.id, g.quota) \/ \E b \in Admin \ {a} : Unsettled(b, g.id)
    <3>1. CASE request[a].op = "updateProject"
      BY <2>2, <2>3, <3>1 DEF QuotasOK, QuotasToPut
    <3>2. CASE request[a].op # "updateProject"
      <4>1. ~ Unsettled(a, p.id)
        BY <2>3, <3>2 DEF Unsettled
      <4> QED
        BY <2>2, <2>3, <3>2, <4>1 DEF QuotasOK, QuotasOfProject
    <3> QED
      BY <3>1, <3>2
  <2>7. QuotasOfTask'
    <3>1. g.quota # NoQuota => Agrees(g.id, g.quota)' \/ \E b \in Admin \ {a} : Unsettled(b, g.id)'
      BY <2>3, <2>6, OthersUnsettled DEF Agrees
    <3> QED
      BY <2>3, <3>1 DEF QuotasOfTask, Agrees
  <2> QED
    BY <2>5, <2>7 DEF QuotasOK
<1>7. CASE CleanUp(a) \/ Join(a)
  <2>1. PICK p \in projects, g \in ProjectType : Changes(a, p, g) /\ g.quota = p.quota
    BY <1>7, CleaningUp, Joining
  <2>2. /\ stage[a] \in {"cleanUp", "join"} /\ stage'[a] \in {"pollCleanUp", "pollJoin"}
        /\ UNCHANGED <<projects, quotas>> /\ g.id = p.id
        /\ task' = {[by |-> a, good |-> {g}, bad |-> {p}]}
    BY <1>7, <2>1, CleaningUp, Joining DEF Changes, Starts
  <2>3. \A id : ~ Unsettled(a, id)
    BY <2>2 DEF Unsettled
  <2>4. QuotasOfProject' /\ QuotasToPut'
    BY <2>2, <2>3, QuotasStill
  <2>5. g.quota # NoQuota => Agrees(g.id, g.quota)' \/ \E b \in Admin \ {a} : Unsettled(b, g.id)'
    BY <2>1, <2>2, <2>3, OthersUnsettled DEF QuotasOK, QuotasOfProject, Agrees
  <2>6. QuotasOfTask'
    BY <2>2, <2>5 DEF QuotasOfTask, Agrees
  <2> QED
    BY <2>4, <2>6 DEF QuotasOK
<1>8. CASE SetQuota(a)
  BY <1>8, QuotaIsSet
<1> QED
  BY <1>2, <1>3, <1>4, <1>5, <1>6, <1>7, <1>8, StepsInOrder

-----------------------------------------------------------------------------
LEMMA OthersJoin ==
    ASSUME ProjectShape, NEW a \in Admin, ProjectWork(a), Orderly', NEW b \in Admin \ {a}
    PROVE  (Joins(b)' <=> Joins(b)) /\ made'[b] = made[b]
BY InOrderFrame DEF Joins

(* A step of a command that is not about to join anything, and leaves the    *)
(* environments alone.                                                      *)
LEMMA EnvsStill ==
    ASSUME ProjectShape, EnvsOK, NEW a \in Admin, ProjectWork(a), Orderly', UNCHANGED <<projects, envs>>,
           Joins(a) => Joins(a)' /\ made'[a] = made[a]
    PROVE  EnvsOfProject'
<1>1. \A b \in Admin : \A n : n \in made[b] /\ Joins(b) => n \in made'[b] /\ Joins(b)'
  BY OthersJoin
<1> QED
  BY <1>1 DEF EnvsOK, EnvsOfProject, EnvsOf

LEMMA EnvsOfTaskStill ==
    ASSUME ProjectShape, Exclusive, TasksOK, EnvsOK, NEW a \in Admin, ProjectWork(a), Orderly',
           UNCHANGED <<task, envs>>, Joins(a) => Joins(a)' /\ made'[a] = made[a]
    PROVE  EnvsOfTask'
<1>1. \A b \in Admin : \A n : n \in made[b] /\ Joins(b) => n \in made'[b] /\ Joins(b)'
  BY OthersJoin
<1> QED
  BY <1>1 DEF EnvsOK, EnvsOfTask, EnvsOf

(* One environment comes or goes: the others are listed as before.          *)
LEMMA EnvsMoved ==
    ASSUME ProjectShape, Exclusive, TasksOK, EnvsOK, NEW a \in Admin, ProjectWork(a), Orderly',
           UNCHANGED <<projects, task>>, ~ Joins(a), Joins(a)', NEW m \in Nat, made'[a] = {m},
           \A id : \A n \in Nat \ {m} : n \in EnvsOf(id)' <=> n \in EnvsOf(id)
    PROVE  EnvsOK'
<1>1. \A b \in Admin : \A n : n \in made[b] /\ Joins(b) => b # a /\ n \in made'[b] /\ Joins(b)'
  BY OthersJoin
<1>2. EnvsOfProject'
  <2> SUFFICES ASSUME NEW p \in projects, NEW n \in Nat
               PROVE  (n \in p.envs <=> n \in EnvsOf(p.id)') \/ \E b \in Admin : n \in made'[b] /\ Joins(b)'
    BY DEF EnvsOfProject, EnvsOf
  <2>1. CASE n = m
    BY <2>1
  <2>2. CASE n # m
    <3>1. (n \in p.envs <=> n \in EnvsOf(p.id)) \/ \E b \in Admin : n \in made[b] /\ Joins(b)
      BY DEF EnvsOK, EnvsOfProject
    <3> QED
      BY <1>1, <2>2, <3>1
  <2> QED
    BY <2>1, <2>2
<1>3. EnvsOfTask'
  <2> SUFFICES ASSUME NEW t \in task, NEW g \in t.good, NEW n \in Nat
               PROVE  \/ n \in g.envs <=> n \in EnvsOf(g.id)'
                      \/ \E b \in Admin \ {t.by} : n \in made'[b] /\ Joins(b)'
    BY DEF EnvsOfTask, EnvsOf
  <2>1. CASE n = m
    BY <2>1, NotTheTasks
  <2>2. CASE n # m
    <3>1. (n \in g.envs <=> n \in EnvsOf(g.id)) \/ \E b \in Admin \ {t.by} : n \in made[b] /\ Joins(b)
      BY DEF EnvsOK, EnvsOfTask
    <3> QED
      BY <1>1, <2>2, <3>1
  <2> QED
    BY <2>1, <2>2
<1> QED
  BY <1>2, <1>3 DEF EnvsOK

LEMMA EnvsKept ==
    ASSUME ProjectShape, NumbersOK, HasCopy, Exclusive, TasksOK, EnvsOK, MadeOK,
           NEW a \in Admin, ProjectWork(a), Orderly'
    PROVE  EnvsOK'
<1>1. CASE UNCHANGED <<Aside, copy, projectRows>> /\ GoesOn(a)
  <2>1. ~ Joins(a) /\ UNCHANGED <<projects, envs, task>>
    BY <1>1 DEF GoesOn, Joins, Aside
  <2> QED
    BY <2>1, EnvsStill, EnvsOfTaskStill DEF EnvsOK
<1>2. CASE PollDelete(a) \/ Read(a) \/ SetQuota(a) \/ WriteRow(a)
  <2>1. ~ Joins(a) /\ UNCHANGED <<projects, envs, task>>
    BY <1>2, Deleted, Reading, SettingQuota, WritingRow DEF Joins, Aside
  <2> QED
    BY <2>1, EnvsStill, EnvsOfTaskStill DEF EnvsOK
<1>3. CASE Delete(a) /\ projects # {}
  <2>1. ~ Joins(a) /\ UNCHANGED <<projects, envs>> /\ Starts(a, {}, projects)
    BY <1>3, DeletingProject DEF Joins
  <2>2. \A t \in task' : t.good = {}
    BY <2>1 DEF Starts
  <2>3. EnvsOfTask'
    BY <2>2 DEF EnvsOfTask
  <2> QED
    BY <2>1, <2>3, EnvsStill DEF EnvsOK
<1>4. CASE Post(a)
  <2>1. PICK p \in ProjectType :
          /\ projects' = {p} /\ Starts(a, {p}, {}) /\ p.id = projectIds + 1 /\ p.envs = {}
    BY <1>4, Posting
  <2>2. EnvsOf(p.id)' = {}
    BY <1>4, <2>1, Posting, NoEnvsYet DEF EnvsOf
  <2>3. task' = {[by |-> a, good |-> {p}, bad |-> {}]}
    BY <2>1 DEF Starts
  <2> QED
    BY <2>1, <2>2, <2>3 DEF EnvsOK, EnvsOfProject, EnvsOfTask
<1>5. CASE Put(a) \/ CleanUp(a)
  <2>1. stage[a] = "put" => copy[a] # {}
    BY DEF HasCopy
  <2>2. \E p \in projects, g \in ProjectType : Changes(a, p, g) /\ g.envs = p.envs
    BY <1>5, <2>1, Putting, CleaningUp DEF Put
  <2>3. PICK p \in projects, g \in ProjectType : Changes(a, p, g) /\ g.envs = p.envs
    BY <2>2
  <2>4. /\ UNCHANGED <<projects, envs>> /\ task' = {[by |-> a, good |-> {g}, bad |-> {p}]} /\ g.id = p.id
    BY <2>3 DEF Changes, Starts
  <2>5. ~ Joins(a)
    BY <1>5 DEF Put, CleanUp, Joins
  <2>6. ASSUME NEW n \in Nat
        PROVE  (n \in g.envs <=> n \in EnvsOf(g.id)) \/ \E b \in Admin \ {a} : n \in made'[b] /\ Joins(b)'
    BY <2>3, <2>4, <2>5, OthersJoin DEF EnvsOK, EnvsOfProject
  <2>7. EnvsOfTask'
    BY <2>4, <2>6 DEF EnvsOfTask, EnvsOf
  <2> QED
    BY <2>4, <2>5, <2>7, EnvsStill DEF EnvsOK
<1>6. CASE MakeEnv(a)
  <2>1. PICK p \in projects :
          envs' = envs \cup {[id |-> projectIds + 1, project |-> p.id]}
    BY <1>6, MakingEnv
  <2>2. /\ ~ Joins(a) /\ Joins(a)' /\ UNCHANGED <<projects, task>> /\ made'[a] = {projectIds + 1}
    BY <1>6, MakingEnv DEF Joins
  <2>3. \A id : \A n \in Nat \ {projectIds + 1} : n \in EnvsOf(id)' <=> n \in EnvsOf(id)
    BY <2>1 DEF EnvsOf
  <2>4. projectIds + 1 \in Nat
    BY DEF ProjectShape, ProjectStateOK, ProjectsTypeOK
  <2> QED
    BY <2>2, <2>3, <2>4, EnvsMoved
<1>7. CASE DropEnv(a)
  <2>1. PICK e \in envs : envs' = envs \ {e} /\ made'[a] = {e.id}
    BY <1>7, DroppingEnv
  <2>2. /\ ~ Joins(a) /\ Joins(a)' /\ UNCHANGED <<projects, task>>
    BY <1>7, DroppingEnv DEF Joins
  <2>3. \A id : \A n \in Nat \ {e.id} : n \in EnvsOf(id)' <=> n \in EnvsOf(id)
    BY <2>1 DEF EnvsOf
  <2>4. e.id \in Nat
    BY DEF ProjectShape, ProjectStateOK, ProjectsTypeOK
  <2> QED
    BY <2>1, <2>2, <2>3, <2>4, EnvsMoved
<1>8. CASE Join(a)
  <2>1. PICK p \in projects, g \in ProjectType :
          Changes(a, p, g) /\ g.envs = Joined(request[a], p.envs, made[a])
    BY <1>8, Joining
  <2>2. /\ UNCHANGED <<projects, envs, made>> /\ task' = {[by |-> a, good |-> {g}, bad |-> {p}]}
        /\ g.id = p.id /\ result'[a] = "pending" /\ \E q \in copy[a] : q.id = p.id
    BY <2>1 DEF Changes, Starts
  <2>3. stage[a] = "join" /\ stage'[a] = "pollJoin" /\ Joins(a) /\ Joins(a)'
    BY <1>8, <2>2, Joining DEF Joins
  <2>4. request[a].op \in {"createProject", "createEnv", "deleteEnv"}
    BY <2>3, InOrder, OpsAt
  <2>5. /\ request[a].op = "createEnv" => made[a] \subseteq EnvsOf(p.id)
        /\ request[a].op = "createProject" => made[a] = EnvsOf(p.id)
        /\ request[a].op = "deleteEnv" => \A n \in made[a] : n \notin EnvsOf(p.id)
    <3>1. \A q \in copy[a] : q.id = p.id
      BY <2>2 DEF ProjectShape, OneProject
    <3> QED
      BY <2>2, <2>3, <3>1 DEF MadeOK, EnvsOf
  <2>6. ASSUME NEW n \in Nat
        PROVE  (n \in g.envs <=> n \in EnvsOf(g.id)) \/ \E b \in Admin \ {a} : n \in made'[b] /\ Joins(b)'
    <3>1. \/ n \in p.envs <=> n \in EnvsOf(p.id)
          \/ n \in made[a]
          \/ \E b \in Admin \ {a} : n \in made'[b] /\ Joins(b)'
      BY OthersJoin DEF EnvsOK, EnvsOfProject
    <3>2. \/ g.envs = made[a] /\ request[a].op = "createProject"
          \/ g.envs = p.envs \cup made[a] /\ request[a].op = "createEnv"
          \/ g.envs = p.envs \ made[a] /\ request[a].op = "deleteEnv"
      BY <2>1, <2>4 DEF Joined
    <3> QED
      BY <2>2, <2>5, <3>1, <3>2
  <2>7. EnvsOfTask'
    BY <2>2, <2>6 DEF EnvsOfTask, EnvsOf
  <2> QED
    BY <2>2, <2>3, <2>7, EnvsStill DEF EnvsOK
<1> QED
  BY <1>1, <1>2, <1>3, <1>4, <1>5, <1>6, <1>7, <1>8, StepsInOrder

LEMMA MadeKept ==
    ASSUME ProjectShape, NumbersOK, Exclusive, CreatesOK, MadeOK, NEW a \in Admin, ProjectWork(a), Orderly'
    PROVE  MadeOK'
<1> DEFINE Right(b) ==
        /\ made[b] # {}
        /\ request[b].op = "createEnv" => \A c \in copy[b] : made[b] \subseteq EnvsOf(c.id)
        /\ request[b].op = "createProject" => \A c \in copy[b] : made[b] = EnvsOf(c.id)
        /\ request[b].op = "deleteEnv" => \A e \in envs : e.id \notin made[b]
<1>1. request' = request /\ ~ Idle(a)
  BY InOrder
<1>2. \A b \in Admin \ {a} : stage'[b] = stage[b] /\ copy'[b] = copy[b] /\ made'[b] = made[b]
  BY InOrderFrame
<1> DEFINE Fine ==
        /\ \A b \in Admin \ {a} : stage[b] \in {"join", "pollJoin"} => Right(b)'
        /\ stage'[a] \in {"join", "pollJoin"} => Right(a)'
        /\ stage'[a] = "makeEnv" => request[a].op # "deleteEnv"
        /\ stage'[a] = "dropEnv" => request[a].op = "deleteEnv"
<1>3. SUFFICES Fine
  BY <1>1, <1>2 DEF MadeOK
<1>4. \A b \in Admin : stage[b] \in {"join", "pollJoin"} => Right(b)
  BY DEF MadeOK
<1>5. ASSUME UNCHANGED envs, stage'[a] \notin {"join", "pollJoin", "makeEnv", "dropEnv"}
      PROVE  Fine
  <2>1. \A b \in Admin \ {a} : stage[b] \in {"join", "pollJoin"} => Right(b)'
    BY <1>1, <1>2, <1>4, <1>5 DEF EnvsOf
  <2> QED
    BY <1>5, <2>1
<1>6. CASE UNCHANGED <<Aside, copy, projectRows>> /\ GoesOn(a)
  BY <1>5, <1>6 DEF GoesOn, AfterDelete, Aside
<1>7. CASE Delete(a) /\ projects # {}
  BY <1>5, <1>7, DeletingProject
<1>8. CASE PollDelete(a) \/ Post(a) \/ Read(a) \/ SetQuota(a)
  BY <1>5, <1>8, Deleted, Posting, Reading, SettingQuota DEF AfterDelete, Aside
<1>9. CASE Put(a) \/ CleanUp(a)
  <2>1. stage'[a] \in {"pollPut", "pollCleanUp"} /\ envs' = envs
    BY <1>9, CleaningUp, InOrder DEF Put, Carried, Changes
  <2> QED
    BY <1>5, <2>1
<1>10. CASE WriteRow(a)
  <2>1. /\ stage[a] = "writeRow" /\ stage'[a] \in {"makeEnv", "idle"} /\ envs' = envs
        /\ (stage'[a] = "makeEnv" => request[a].op = "createProject")
    BY <1>10, WritingRow DEF Aside
  <2>2. \A b \in Admin \ {a} : stage[b] \in {"join", "pollJoin"} => Right(b)'
    BY <1>1, <1>2, <1>4, <2>1 DEF EnvsOf
  <2> QED
    BY <2>1, <2>2
<1>11. CASE Join(a)
  <2>1. /\ stage[a] = "join" /\ stage'[a] = "pollJoin" /\ UNCHANGED <<copy, made, envs>>
    BY <1>11, Joining DEF Changes
  <2>2. \A b \in Admin : stage[b] \in {"join", "pollJoin"} => Right(b)'
    BY <1>1, <1>4, <2>1 DEF EnvsOf
  <2> QED
    BY <2>1, <2>2
<1>12. CASE MakeEnv(a)
  <2>1. PICK p \in projects :
          copy'[a] = {p} /\ envs' = envs \cup {[id |-> projectIds + 1, project |-> p.id]}
    BY <1>12, MakingEnv
  <2>2. stage[a] = "makeEnv" /\ stage'[a] = "join" /\ made'[a] = {projectIds + 1}
    BY <1>12, MakingEnv
  <2>3. \A id : EnvsOf(id)' = EnvsOf(id) \cup (IF id = p.id THEN {projectIds + 1} ELSE {})
    <3> SUFFICES ASSUME NEW id
                 PROVE  EnvsOf(id)' = EnvsOf(id) \cup (IF id = p.id THEN {projectIds + 1} ELSE {})
      OBVIOUS
    <3>1. CASE id = p.id
      <4>1. \A n : n \in EnvsOf(id)' <=> n \in EnvsOf(id) \/ n = projectIds + 1
        <5> DEFINE e == [id |-> projectIds + 1, project |-> p.id]
        <5>1. envs' = envs \cup {e} /\ e.id = projectIds + 1 /\ e.project = id
          BY <2>1, <3>1
        <5> HIDE DEF e
        <5> QED
          BY <5>1 DEF EnvsOf
      <4>2. EnvsOf(id)' = EnvsOf(id) \cup {projectIds + 1}
        BY ONLY <4>1
      <4> QED
        BY <3>1, <4>2
    <3>2. CASE id # p.id
      <4>1. {e \in envs' : e.project = id} = {e \in envs : e.project = id}
        BY <2>1, <3>2
      <4> QED
        BY <3>2, <4>1 DEF EnvsOf
    <3> QED
      BY <3>1, <3>2
  <2>4. request[a].op \in {"createProject", "createEnv"}
    BY <1>1, <2>2, OpsAt DEF MadeOK
  <2>5. request[a].op = "createProject" => EnvsOf(p.id) = {}
    <3> SUFFICES ASSUME request[a].op = "createProject" PROVE EnvsOf(p.id) = {}
      OBVIOUS
    <3>1. CreatingProject(a)
      BY <2>2 DEF CreatingProject
    <3>2. Ids(projects) = Ids(copy[a]) /\ \A c \in copy[a] : EnvsOf(c.id) = {}
      BY <2>2, <3>1 DEF CreatesOK
    <3>3. p.id \in Ids(copy[a])
      BY <3>2 DEF Ids
    <3> QED
      BY <3>2, <3>3 DEF Ids
  <2>6. Right(a)'
    BY <1>1, <2>1, <2>2, <2>3, <2>4, <2>5
  <2>7. ASSUME NEW b \in Admin \ {a}, stage[b] \in {"join", "pollJoin"} PROVE Right(b)'
    <3>1. Right(b) /\ ~ Idle(b)
      BY <1>4, <2>7 DEF Idle
    <3>2. request[b].op # "createProject"
      BY <1>1, <3>1, Alone
    <3>3. projectIds + 1 \notin made[b]
      <4>1. projectIds \in Nat /\ \A n \in made[b] : n <= projectIds
        BY DEF NumbersOK, ProjectShape, ProjectStateOK, ProjectsTypeOK
      <4> QED
        BY <4>1
    <3>4. request[b].op = "deleteEnv" => \A e \in envs' : e.id \notin made[b]
      BY <2>1, <3>1, <3>3
    <3>5. request[b].op = "createEnv" => \A c \in copy[b] : made[b] \subseteq EnvsOf(c.id)'
      BY <2>3, <3>1
    <3> QED
      BY <1>1, <1>2, <3>1, <3>2, <3>4, <3>5
  <2> QED
    BY <2>2, <2>6, <2>7
<1>13. CASE DropEnv(a)
  <2>1. PICK e \in envs : envs' = envs \ {e} /\ made'[a] = {e.id}
    BY <1>13, DroppingEnv
  <2>2. stage[a] = "dropEnv" /\ stage'[a] = "join"
    BY <1>13, DroppingEnv
  <2>3. request[a].op = "deleteEnv"
    BY <2>2 DEF MadeOK
  <2>4. \A f \in envs' : f.id # e.id
    BY <2>1 DEF NumbersOK
  <2>5. Right(a)'
    BY <1>1, <2>1, <2>3, <2>4
  <2>6. ASSUME NEW b \in Admin \ {a}, stage[b] \in {"join", "pollJoin"} PROVE Right(b)'
    <3>1. Right(b) /\ ~ Idle(b)
      BY <1>4, <2>6 DEF Idle
    <3>2. request[b].op \notin {"createProject", "createEnv"}
      BY <1>1, <2>3, <3>1, Alone DEF Exclusive, ProjectClash
    <3>3. \A f \in envs' : f \in envs
      BY <2>1
    <3> QED
      BY <1>1, <1>2, <3>1, <3>2, <3>3
  <2> QED
    BY <2>2, <2>5, <2>6
<1> QED
  BY <1>6, <1>7, <1>8, <1>9, <1>10, <1>11, <1>12, <1>13, StepsInOrder

LEMMA WorkKeepsOrder ==
    ASSUME ProjectShape, OrderOK, NEW a \in Admin, ProjectWork(a), Orderly' PROVE OrderOK'
BY NumbersKept, VersionsKept, HasCopyKept, ExclusiveKept, TasksKept, DeletesKept, CreatesKept, RowsKept,
   QuotasKept, EnvsKept, MadeKept DEF OrderOK

-----------------------------------------------------------------------------
(* The new version of a project is the project.                             *)
LEMMA NextParts ==
    ASSUME NEW ps \in SUBSET ProjectType
    PROVE  /\ \A q \in NextVersion(ps) : \E p \in ps :
                 /\ q.id = p.id /\ q.version = p.version + 1 /\ q.users = p.users /\ q.quota = p.quota
                 /\ q.envs = p.envs
           /\ Ids(NextVersion(ps)) = Ids(ps)
           /\ ps = {} => NextVersion(ps) = {}
<1>1. ASSUME NEW p \in ps
      PROVE  LET q == [p EXCEPT !.version = @ + 1]
             IN  /\ q.id = p.id /\ q.version = p.version + 1 /\ q.users = p.users /\ q.quota = p.quota
                 /\ q.envs = p.envs
  BY DEF ProjectType
<1>2. \A q \in NextVersion(ps) : \E p \in ps :
        /\ q.id = p.id /\ q.version = p.version + 1 /\ q.users = p.users /\ q.quota = p.quota
        /\ q.envs = p.envs
  BY <1>1 DEF NextVersion
<1>3. \A p \in ps : \E q \in NextVersion(ps) : q.id = p.id
  BY <1>1 DEF NextVersion
<1>4. Ids(NextVersion(ps)) = Ids(ps)
  BY <1>2, <1>3 DEF Ids
<1> QED
  BY <1>2, <1>4 DEF NextVersion

LEMMA TaskEndsKeepsOrder == ASSUME ProjectShape, OrderOK, TaskEnds PROVE OrderOK'
<1> USE DEF OrderOK
<1>1. PICK t \in task :
        /\ task' = {}
        /\ \/ projects' = NextVersion(t.good) /\ result' = [result EXCEPT ![t.by] = "succeeded"]
           \/ projects' = NextVersion(t.bad) /\ result' = [result EXCEPT ![t.by] = "failed"]
        /\ UNCHANGED <<quotas, envs, projectIds, copy, made, projectRows, admins>>
  BY DEF TaskEnds
<1>2. /\ t.by \in Admin /\ t.good \in SUBSET ProjectType /\ t.bad \in SUBSET ProjectType
      /\ t.bad \subseteq projects /\ result[t.by] = "pending"
  BY DEF ProjectShape, ProjectStateOK, ProjectsTypeOK, OneProject
<1>3. UNCHANGED <<stage, request>>
  BY <1>1 DEF admins
<1>4. PICK ps \in {t.good, t.bad}, r \in {"succeeded", "failed"} :
        /\ projects' = NextVersion(ps) /\ result'[t.by] = r
        /\ r = "succeeded" => ps = t.good
        /\ r = "failed" => ps = t.bad
  BY <1>1, <1>2 DEF ProjectShape, ProjectStateOK, ProjectsTypeOK
<1>5. \A b \in Admin \ {t.by} : result'[b] = result[b]
  BY <1>1, <1>2 DEF ProjectShape, ProjectStateOK, ProjectsTypeOK
<1>6. /\ \A q \in projects' : \E p \in ps :
            /\ q.id = p.id /\ q.version = p.version + 1 /\ q.users = p.users /\ q.quota = p.quota
            /\ q.envs = p.envs
      /\ Ids(projects') = Ids(ps)
      /\ ps = {} => projects' = {}
  BY <1>2, <1>4, NextParts
<1>7. \A q \in projects' : \E p \in projects : q.id = p.id /\ q.version = p.version + 1
  BY <1>2, <1>4, <1>6 DEF VersionsOK
<1>8. \A b \in Admin : \A c \in copy[b] : \A q \in projects' : c.id = q.id => c.version < q.version
  <2> SUFFICES ASSUME NEW b \in Admin, NEW c \in copy[b], NEW q \in projects', c.id = q.id
               PROVE  c.version < q.version
    OBVIOUS
  <2>1. PICK p \in projects : q.id = p.id /\ q.version = p.version + 1
    BY <1>7
  <2>2. c.version \in Nat /\ p.version \in Nat
    BY DEF ProjectShape, ProjectStateOK, ProjectsTypeOK, ProjectType
  <2>3. c.version <= p.version
    BY <2>1 DEF VersionsOK
  <2> QED
    BY <2>1, <2>2, <2>3
<1>9. /\ stage[t.by] \in {"pollDelete", "pollCreate", "pollPut", "pollCleanUp", "pollJoin"} /\ ~ Idle(t.by)
      /\ stage[t.by] = "pollDelete" => t.good = {} /\ Ids(copy[t.by]) = Ids(projects)
      /\ stage[t.by] # "pollDelete" => Ids(t.good) = Ids(projects)
      /\ stage[t.by] # "pollCreate" => Ids(t.bad) = Ids(projects)
  BY <1>2 DEF TasksOK, Idle
<1>10. NumbersOK'
  BY <1>1, <1>7 DEF NumbersOK
<1>11. VersionsOK'
  <2>1. \A b \in Admin : \A c \in copy[b] : \A q \in projects' : c.version \in Nat /\ q.version \in Nat
    <3>1. projects' \in SUBSET ProjectType
      BY <1>2, <1>4, NextVersionIs
    <3> QED
      BY <3>1 DEF ProjectShape, ProjectStateOK, ProjectsTypeOK, ProjectType
  <2>2. \A b \in Admin : \A c \in copy[b] : \A q \in projects' : c.id = q.id => c.version <= q.version
    BY <1>8, <2>1
  <2> QED
    BY <1>1, <2>2 DEF VersionsOK
<1>12. HasCopy' /\ Exclusive' /\ TasksOK' /\ MadeOK'
  BY <1>1, <1>3 DEF HasCopy, Exclusive, Idle, TasksOK, MadeOK, EnvsOf
<1>13. ASSUME NEW b \in Admin \ {t.by} PROVE ~ Idle(b) => request[b].op \notin {"createProject", "deleteProject"}
  BY <1>2, <1>9, Alone
<1>14. DeletesOK'
  <2> SUFFICES ASSUME NEW b \in Admin, stage[b] = "pollDelete", result'[b] = "succeeded" PROVE projects' = {}
    BY <1>3 DEF DeletesOK
  <2>1. b = t.by
    BY <1>13, OpsAt DEF Idle
  <2> QED
    BY <1>4, <1>6, <1>9, <2>1
<1>15. CreatesOK'
  <2> SUFFICES ASSUME NEW b \in Admin, CreatingProject(b)
               PROVE  /\ (stage[b] = "pollCreate" /\ result'[b] = "failed")
                           \/ (copy[b] # {} /\ Ids(projects') = Ids(copy[b]))
                      /\ \A p \in projects' : p.users = request[b].users /\ p.quota = request[b].quota
                      /\ stage[b] \notin {"join", "pollJoin"} => \A c \in copy[b] : EnvsOf(c.id) = {}
    BY <1>1, <1>3 DEF CreatesOK, CreatingProject, EnvsOf
  <2>1. b = t.by
    BY <1>13 DEF CreatingProject, Idle
  <2>2. stage[b] \in {"pollCreate", "pollJoin"} /\ copy[b] # {} /\ Ids(projects) = Ids(copy[b])
    BY <1>2, <1>9, <2>1 DEF CreatesOK, CreatingProject
  <2>3. (stage[b] = "pollCreate" /\ result'[b] = "failed") \/ Ids(projects') = Ids(copy[b])
    BY <1>4, <1>6, <1>9, <2>1, <2>2
  <2>4. \A p \in ps : p.users = request[b].users /\ p.quota = request[b].quota
    BY <1>2 DEF CreatesOK
  <2> QED
    BY <1>6, <2>2, <2>3, <2>4 DEF CreatesOK
<1>16. RowsOK'
  <2>1. \A b \in Admin : stage[b] = "pollCreate" => projectRows = {}
    BY DEF RowsOK
  <2>2. CASE stage[t.by] = "pollCreate"
    <3>1. request[t.by].op = "createProject" /\ projectRows = {}
      BY <1>2, <1>9, <2>1, <2>2, OpsAt
    <3>2. RowPending(t.by)'
      BY <1>1, <1>3, <2>2, <3>1 DEF RowPending
    <3> QED
      BY <1>1, <1>2, <1>3, <2>1, <3>2 DEF RowsOK
  <2>3. CASE stage[t.by] # "pollCreate"
    <3>1. \A b \in Admin : ~ RowPending(b)
      <4> SUFFICES ASSUME NEW b \in Admin, RowPending(b) PROVE FALSE
        OBVIOUS
      <4>1. ~ Idle(b) /\ request[b].op \in {"createProject", "deleteProject"}
        BY OpsAt DEF RowPending, Idle
      <4>2. b = t.by
        BY <1>13, <4>1
      <4> QED
        BY <1>2, <1>9, <2>3, <4>2 DEF RowPending
    <3>2. projectRows = Ids(projects)
      BY <3>1 DEF RowsOK
    <3>3. Ids(projects') = Ids(projects)
          \/ (stage[t.by] = "pollDelete" /\ r = "succeeded" /\ Ids(copy[t.by]) = Ids(projects))
      BY <1>4, <1>6, <1>9, <2>3
    <3>4. projectRows = Ids(projects') \/ (stage[t.by] = "pollDelete" /\ r = "succeeded" /\ projectRows = Ids(copy[t.by]))
      BY <3>2, <3>3
    <3>5. projectRows' = Ids(projects') \/ RowPending(t.by)'
      BY <1>1, <1>3, <1>4, <3>4 DEF RowPending, Ids
    <3> QED
      BY <1>1, <1>2, <1>3, <2>1, <3>5 DEF RowsOK, Ids
  <2> QED
    BY <2>2, <2>3
<1>17. QuotasOK'
  <2>1. \A b \in Admin : \A id : Unsettled(b, id) /\ ~ (b = t.by /\ stage[b] = "pollPut" /\ r = "succeeded") =>
          Unsettled(b, id)'
    <3> SUFFICES ASSUME NEW b \in Admin, NEW id, Unsettled(b, id),
                        ~ (b = t.by /\ stage[b] = "pollPut" /\ r = "succeeded")
                 PROVE  Unsettled(b, id)'
      OBVIOUS
    <3>1. CASE b = t.by
      BY <1>1, <1>3, <1>4, <3>1 DEF Unsettled
    <3>2. CASE b # t.by
      BY <1>1, <1>3, <1>5, <3>2 DEF Unsettled
    <3> QED
      BY <3>1, <3>2
  <2>2. ASSUME NEW p \in ps, p.quota # NoQuota
        PROVE  Agrees(p.id, p.quota) \/ \E b \in Admin : Unsettled(b, p.id)'
    <3>1. CASE r = "succeeded"
      BY <1>2, <1>4, <2>1, <2>2, <3>1 DEF QuotasOK, QuotasOfTask
    <3>2. CASE r = "failed"
      BY <1>2, <1>4, <2>1, <2>2, <3>2 DEF QuotasOK, QuotasOfProject
    <3> QED
      BY <3>1, <3>2
  <2>3. \A q \in projects' : q.quota # NoQuota =>
          Agrees(q.id, q.quota) \/ \E b \in Admin : Unsettled(b, q.id)'
    BY <1>6, <2>2
  <2>4. QuotasOfProject'
    BY <1>1, <2>3 DEF QuotasOfProject, Agrees
  <2>5. QuotasOfTask'
    BY <1>1 DEF QuotasOfTask
  <2>6. \A b \in Admin : copy[b] \cap projects' = {}
    <3> SUFFICES ASSUME NEW b \in Admin, NEW c \in copy[b], c \in projects' PROVE FALSE
      OBVIOUS
    <3>1. c.version < c.version
      BY <1>8
    <3>2. c.version \in Nat
      BY DEF ProjectShape, ProjectStateOK, ProjectsTypeOK, ProjectType
    <3> QED
      BY <3>1, <3>2
  <2>7. QuotasToPut'
    BY <1>1, <2>6 DEF QuotasToPut
  <2> QED
    BY <2>4, <2>5, <2>7 DEF QuotasOK
<1>18. EnvsOK'
  <2>1. \A b \in Admin : Joins(b) /\ ~ (b = t.by /\ r = "succeeded") => Joins(b)'
    <3> SUFFICES ASSUME NEW b \in Admin, Joins(b), ~ (b = t.by /\ r = "succeeded") PROVE Joins(b)'
      OBVIOUS
    <3>1. CASE b = t.by
      BY <1>3, <1>4, <3>1 DEF Joins
    <3>2. CASE b # t.by
      BY <1>3, <1>5, <3>2 DEF Joins
    <3> QED
      BY <3>1, <3>2
  <2>2. ASSUME NEW p \in ps, NEW n \in Nat
        PROVE  (n \in p.envs <=> n \in EnvsOf(p.id)) \/ \E b \in Admin : n \in made[b] /\ Joins(b)'
    <3>1. CASE r = "succeeded"
      BY <1>2, <1>4, <2>1, <3>1 DEF EnvsOK, EnvsOfTask
    <3>2. CASE r = "failed"
      BY <1>2, <1>4, <2>1, <3>2 DEF EnvsOK, EnvsOfProject
    <3> QED
      BY <3>1, <3>2
  <2>3. EnvsOfProject'
    <3> SUFFICES ASSUME NEW q \in projects', NEW n \in Nat
                 PROVE  (n \in q.envs <=> n \in EnvsOf(q.id)) \/ \E b \in Admin : n \in made[b] /\ Joins(b)'
      BY <1>1 DEF EnvsOfProject, EnvsOf
    <3>1. PICK p \in ps : q.id = p.id /\ q.envs = p.envs
      BY <1>6
    <3> QED
      BY <2>2, <3>1
  <2> QED
    BY <1>1, <2>3 DEF EnvsOK, EnvsOfTask
<1> QED
  BY <1>10, <1>11, <1>12, <1>14, <1>15, <1>16, <1>17, <1>18

LEMMA BeginKeepsOrder ==
    ASSUME ProjectShape, NEW a \in Admin, ProjectBegin(a), Orderly', Orderly => OrderOK PROVE OrderOK'
<1>1. PICK r \in ProjectRequest : Start(a, r, FirstStage(r), ProjectClash)
  BY DEF ProjectBegin
<1>2. /\ stage[a] = "idle" /\ stage'[a] = FirstStage(r) /\ request'[a] = r /\ copy'[a] = {} /\ made'[a] = {}
      /\ UNCHANGED <<projects, task, result, quotas, envs, projectIds, projectRows>>
  BY <1>1 DEF ProjectBegin, Start, Idle, Goto, projectServer, ProjectShape, ProjectStateOK, AdminsTypeOK,
     ProjectsTypeOK
<1>3. \A b \in Admin \ {a} : /\ stage'[b] = stage[b] /\ request'[b] = request[b]
                             /\ copy'[b] = copy[b] /\ made'[b] = made[b]
  BY <1>1 DEF ProjectBegin, Start, Goto, ProjectShape, ProjectStateOK, AdminsTypeOK, ProjectsTypeOK
<1>4. Orderly /\ \A b \in Admin \ {a} : ~ Idle(b) => ~ ProjectClash(r, request[b])
  BY <1>1 DEF ProjectBegin, Start, Orderly
<1>5. FirstStage(r) \in {"lookup", "post", "delete", "makeEnv", "dropEnv", "read"}
      /\ (FirstStage(r) = "makeEnv" => r.op = "createEnv") /\ (FirstStage(r) = "dropEnv" => r.op = "deleteEnv")
  <2>1. r.op \in ProjectOp
    BY RequestOf
  <2> QED
    BY <2>1 DEF FirstStage, ProjectOp
<1>6. OrderOK
  BY <1>4
<1> USE DEF OrderOK
<1>7. NumbersOK' /\ VersionsOK' /\ HasCopy'
  <2>1. NumbersOK'
    BY <1>2, <1>3, <1>6 DEF NumbersOK
  <2>2. VersionsOK'
    BY <1>2, <1>3, <1>6 DEF VersionsOK
  <2>3. HasCopy'
    BY <1>2, <1>3, <1>5, <1>6 DEF HasCopy
  <2> QED
    BY <2>1, <2>2, <2>3
<1>8. Exclusive'
  <2> SUFFICES ASSUME NEW b \in Admin, NEW c \in Admin, b # c, ~ Idle(b)', ~ Idle(c)'
               PROVE  ~ ProjectClash(request'[b], request'[c])
    BY DEF Exclusive, ProjectClash
  <2>1. CASE b # a /\ c # a
    BY <1>3, <1>6, <2>1 DEF Exclusive, Idle
  <2>2. CASE b = a
    BY <1>2, <1>3, <1>4, <2>2 DEF Idle
  <2>3. CASE c = a
    BY <1>2, <1>3, <1>4, <2>3 DEF Idle, ProjectClash
  <2> QED
    BY <2>1, <2>2, <2>3
<1>9. TasksOK'
  <2>1. \A t \in task : t.by \in Admin \ {a}
    BY <1>2, <1>6 DEF TasksOK, ProjectShape, ProjectStateOK, ProjectsTypeOK
  <2>2. \A t \in task : stage'[t.by] = stage[t.by] /\ copy'[t.by] = copy[t.by]
    BY <1>3, <2>1
  <2> QED
    BY <1>2, <1>6, <2>2 DEF TasksOK
<1>10. DeletesOK'
  BY <1>2, <1>3, <1>5, <1>6 DEF DeletesOK
<1>11. CreatesOK'
  <2>1. \A b \in Admin : CreatingProject(b)' => b # a /\ CreatingProject(b)
    BY <1>2, <1>3, <1>5 DEF CreatingProject
  <2> QED
    BY <1>2, <1>3, <1>6, <2>1 DEF CreatesOK, EnvsOf
<1>12. RowsOK'
  <2>1. \A b \in Admin : RowPending(b) => RowPending(b)'
    BY <1>2, <1>3 DEF RowPending
  <2>2. \A b \in Admin : stage'[b] = "pollCreate" => stage[b] = "pollCreate"
    BY <1>2, <1>3, <1>5
  <2> QED
    BY <1>2, <1>6, <2>1, <2>2 DEF RowsOK, Ids
<1>13. QuotasOK'
  <2>1. \A b \in Admin : \A id : Unsettled(b, id) => b # a /\ Unsettled(b, id)' /\ stage'[b] = stage[b]
    BY <1>2, <1>3 DEF Unsettled
  <2>2. QuotasOfProject' /\ QuotasOfTask'
    BY <1>2, <1>6, <2>1 DEF QuotasOK, QuotasOfProject, QuotasOfTask, Agrees
  <2>3. QuotasToPut'
    <3>1. \A b \in Admin : stage'[b] = "put" =>
            b # a /\ stage[b] = "put" /\ request'[b] = request[b] /\ copy'[b] = copy[b]
      BY <1>2, <1>3, <1>5
    <3> QED
      BY <1>2, <1>6, <2>1, <3>1 DEF QuotasOK, QuotasToPut, Agrees
  <2> QED
    BY <2>2, <2>3 DEF QuotasOK
<1>14. EnvsOK'
  <2>1. \A b \in Admin : \A n : n \in made[b] /\ Joins(b) => n \in made'[b] /\ Joins(b)'
    BY <1>2, <1>3 DEF Joins
  <2> QED
    BY <1>2, <1>6, <2>1 DEF EnvsOK, EnvsOfProject, EnvsOfTask, EnvsOf
<1>15. MadeOK'
  BY <1>2, <1>3, <1>5, <1>6 DEF MadeOK, EnvsOf
<1> QED
  BY <1>7, <1>8, <1>9, <1>10, <1>11, <1>12, <1>13, <1>14, <1>15

LEMMA AgreeStep == AgreeIInv /\ [ProjectsNext]_projectVars => AgreeIInv'
<1> SUFFICES ASSUME AgreeIInv, [ProjectsNext]_projectVars, Orderly' PROVE OrderOK'
  BY ProjectShapeStep DEF AgreeIInv
<1> USE DEF AgreeIInv
<1>1. CASE UNCHANGED projectVars
  <2>1. UNCHANGED <<projects, task, result, quotas, envs, projectIds, copy, made, projectRows, stage, request,
                    complained, patient, overlapped>>
    BY <1>1 DEF projectVars, projectOwn, projectServer, admins
  <2>2. OrderOK
    BY <2>1 DEF Orderly
  <2>3. (NumbersOK /\ VersionsOK /\ HasCopy /\ Exclusive /\ TasksOK)'
    BY <2>1, <2>2 DEF OrderOK, NumbersOK, VersionsOK, HasCopy, Exclusive, TasksOK, Idle
  <2>4. (DeletesOK /\ CreatesOK /\ RowsOK)'
    <3>1. DeletesOK' /\ RowsOK'
      BY <2>1, <2>2 DEF OrderOK, DeletesOK, RowsOK, RowPending, Ids
    <3>2. \A b \in Admin : CreatingProject(b)' <=> CreatingProject(b)
      BY <2>1 DEF CreatingProject
    <3>3. CreatesOK'
      <4>1. CreatesOK
        BY <2>2 DEF OrderOK
      <4> QED
        <5>1. \A id : EnvsOf(id)' = EnvsOf(id)
          BY <2>1 DEF EnvsOf
        <5> QED
          BY <2>1, <3>2, <4>1, <5>1 DEF CreatesOK
    <3> QED
      BY <3>1, <3>3
  <2>5. (QuotasOK /\ EnvsOK /\ MadeOK)'
    BY <2>1, <2>2 DEF OrderOK, QuotasOK, QuotasOfProject, QuotasOfTask, QuotasToPut, Unsettled, Agrees,
       EnvsOK, EnvsOfProject, EnvsOfTask, EnvsOf, Joins, MadeOK
  <2> QED
    BY <2>3, <2>4, <2>5 DEF OrderOK
<1>2. ASSUME NEW a \in Admin, ProjectWork(a) PROVE OrderOK'
  BY <1>2, InOrder, WorkKeepsOrder
<1>3. ASSUME NEW a \in Admin, ProjectBegin(a) PROVE OrderOK'
  BY <1>3, BeginKeepsOrder
<1>4. CASE TaskEnds
  <2>1. Orderly
    BY <1>4 DEF TaskEnds, admins, Orderly
  <2> QED
    BY <1>4, <2>1, TaskEndsKeepsOrder
<1> QED
  BY <1>1, <1>2, <1>3, <1>4 DEF ProjectsNext, ProjectsFinished

(* The invariant holds in every state of the projects.                      *)
THEOREM AgreementInvariant == ProjectsSpec => []AgreeIInv
BY AgreeInit, AgreeStep, PTL DEF ProjectsSpec

LEMMA NobodyAtWork ==
    ASSUME AgreeIInv, ProjectsSettled, patient, ~ overlapped
    PROVE  /\ OrderOK
           /\ \A a \in Admin : ~ RowPending(a) /\ ~ Joins(a) /\ \A id : ~ Unsettled(a, id)
BY DEF AgreeIInv, Orderly, ProjectsSettled, Quiet, Idle, RowPending, Joins, Unsettled

LEMMA QuotaFollows == AgreeIInv => QuotaAgrees
BY NobodyAtWork DEF QuotaAgrees, OrderOK, QuotasOK, QuotasOfProject, Agrees

LEMMA ListsFollow == AgreeIInv => ListsAgree
<1> SUFFICES ASSUME AgreeIInv, ProjectsSettled, patient, ~ overlapped
             PROVE  projectRows = Ids(projects) /\ \A p \in projects : p.envs = EnvsOf(p.id)
  BY DEF ListsAgree, Ids, EnvsOf
<1>1. OrderOK /\ \A a \in Admin : ~ RowPending(a) /\ ~ Joins(a)
  BY NobodyAtWork
<1>2. projectRows = Ids(projects)
  BY <1>1 DEF OrderOK, RowsOK
<1>3. ASSUME NEW p \in projects PROVE p.envs = EnvsOf(p.id)
  <2>1. p.envs \subseteq Nat
    BY DEF AgreeIInv, ProjectShape, ProjectStateOK, ProjectsTypeOK, ProjectType
  <2>2. EnvsOf(p.id) \subseteq Nat
    BY DEF AgreeIInv, ProjectShape, ProjectStateOK, ProjectsTypeOK, EnvsOf
  <2>3. \A n \in Nat : n \in p.envs <=> n \in EnvsOf(p.id)
    BY <1>1 DEF OrderOK, EnvsOK, EnvsOfProject
  <2> QED
    BY <2>1, <2>2, <2>3
<1> QED
  BY <1>2, <1>3

(* The action of ProjectEndsAsAsked.                                        *)
ProjectEnds ==
    \A a \in Admin : EndsSilently(a) /\ complained' = {} /\ patient' /\ ~ overlapped' =>
        LET r == request[a]
        IN  /\ r.op = "createProject" =>
                   \E p \in projects' :
                      /\ p.users = r.users /\ p.quota = r.quota /\ p.id \in projectRows'
                      /\ r.env => \E e \in envs' : e.project = p.id /\ e.id \in p.envs
            /\ r.op = "deleteProject" => projects' = {}

LEMMA ProjectEndsRight == AgreeIInv /\ [ProjectsNext]_projectVars => ProjectEnds
<1> SUFFICES ASSUME AgreeIInv, [ProjectsNext]_projectVars, NEW a \in Admin,
                    EndsSilently(a), complained' = {}, patient', ~ overlapped'
             PROVE  /\ request[a].op = "createProject" =>
                           \E p \in projects' :
                              /\ p.users = request[a].users /\ p.quota = request[a].quota /\ p.id \in projectRows'
                              /\ request[a].env => \E e \in envs' : e.project = p.id /\ e.id \in p.envs
                    /\ request[a].op = "deleteProject" => projects' = {}
  BY DEF ProjectEnds
<1>1. Orderly'
  BY DEF Orderly
<1>2. ProjectShape
  BY DEF AgreeIInv
<1>3. stage'[a] = "idle" /\ stage[a] # "idle"
  BY DEF EndsSilently, Idle
<1>4. ProjectWork(a)
  <2>1. ~ UNCHANGED projectVars /\ ~ TaskEnds
    BY <1>3 DEF projectVars, TaskEnds, admins
  <2>2. ASSUME NEW b \in Admin, ProjectBegin(b) PROVE FALSE
    <3>1. stage[b] = "idle" /\ \A c \in Admin \ {b} : stage'[c] = stage[c]
      BY <1>2, <2>2 DEF ProjectBegin, Start, Idle, Goto, ProjectShape, ProjectStateOK, AdminsTypeOK
    <3> QED
      BY <1>3, <3>1
  <2>3. ASSUME NEW b \in Admin \ {a}, ProjectWork(b) PROVE FALSE
    BY <1>2, <1>3, <2>3, InOrderFrame
  <2> QED
    BY <2>1, <2>2, <2>3 DEF ProjectsNext, ProjectsFinished
<1>5. OrderOK /\ request' = request /\ stage[a] \in StagesOf(request[a].op)
  BY <1>1, <1>2, <1>4, InOrder DEF AgreeIInv
<1>6. CASE request[a].op = "deleteProject"
  <2>1. Delete(a) \/ PollDelete(a)
    <3>1. stage[a] \in {"delete", "pollDelete"}
      BY <1>5, <1>6 DEF StagesOf, AcpOp
    <3> QED
      BY <1>4, <3>1 DEF ProjectWork, Lookup, Usage, Post, Read, Put, CleanUp, PollCleanUp, Enable, SetQuota,
         MakeEnv, DropEnv, Join, Poll, FetchRow, WriteRow
  <2>2. CASE Delete(a)
    <3>1. projects = {}
      BY <1>1, <1>2, <1>3, <1>4, <2>2, DeletingProject
    <3> QED
      BY <1>1, <1>2, <1>4, <1>6, <2>2, <3>1, GoingOn DEF Aside
  <2>3. CASE PollDelete(a)
    BY <1>1, <1>2, <1>4, <1>5, <1>6, <2>3, Deleted DEF OrderOK, DeletesOK, Aside
  <2> QED
    BY <2>1, <2>2, <2>3
<1>7. CASE request[a].op = "createProject"
  <2>1. \A b \in Admin \ {a} : Idle(b)
    BY <1>3, <1>5, <1>7, Alone DEF OrderOK, Idle
  <2>2. \/ stage[a] = "writeRow" /\ WriteRow(a)
        \/ stage[a] = "pollJoin" /\ result[a] = "succeeded" /\ UNCHANGED <<Aside, copy, projectRows>>
    <3>1. CASE UNCHANGED <<Aside, copy, projectRows>> /\ GoesOn(a)
      <4>1. stage[a] # "pollPut"
        BY <1>2, <1>3, <1>7, OpsAt DEF Idle, AcpOp
      <4> QED
        BY <1>3, <1>7, <3>1, <4>1 DEF GoesOn, AfterDelete
    <3>2. CASE Delete(a) /\ projects # {}
      BY <1>1, <1>2, <1>3, <1>4, <3>2, DeletingProject
    <3>3. CASE PollDelete(a) \/ Post(a) \/ Read(a)
      BY <1>1, <1>2, <1>3, <1>4, <1>7, <3>3, Deleted, Posting, Reading DEF AfterDelete
    <3>4. CASE Put(a) \/ CleanUp(a) \/ Join(a)
      <4>1. stage'[a] \in {"pollPut", "pollCleanUp", "pollJoin"}
        BY <1>1, <1>2, <1>4, <3>4, InOrder DEF Put, CleanUp, Join, Carried
      <4> QED
        BY <1>3, <4>1
    <3>5. CASE SetQuota(a) \/ MakeEnv(a) \/ DropEnv(a)
      BY <1>1, <1>2, <1>3, <1>4, <3>5, SettingQuota, MakingEnv, DroppingEnv
    <3>6. CASE WriteRow(a)
      BY <1>1, <1>2, <1>4, <3>6, WritingRow
    <3> QED
      BY <1>1, <1>2, <1>4, <3>1, <3>2, <3>3, <3>4, <3>5, <3>6, StepsInOrder
  <2>3. /\ copy[a] # {} /\ Ids(projects) = Ids(copy[a])
        /\ \A p \in projects : p.users = request[a].users /\ p.quota = request[a].quota
    BY <1>5, <1>7, <2>2 DEF OrderOK, CreatesOK, CreatingProject
  <2>4. PICK p \in projects : p.id \in Ids(copy[a]) /\ \A c \in copy[a] : c.id = p.id
    <3>1. PICK c : c \in copy[a]
      BY <2>3
    <3>2. \E p \in projects : p.id = c.id
      BY <2>3, <3>1 DEF Ids
    <3>3. \A d \in copy[a] : d = c
      BY <1>2, <3>1 DEF ProjectShape, OneProject
    <3> QED
      BY <3>1, <3>2, <3>3 DEF Ids
  <2>5. CASE stage[a] = "writeRow" /\ WriteRow(a)
    <3>1. /\ projectRows' = projectRows \cup Ids(copy[a]) /\ projects' = projects
          /\ ~ request[a].env
      BY <1>1, <1>2, <1>3, <1>4, <1>7, <2>5, WritingRow DEF Aside
    <3> QED
      BY <1>7, <2>3, <2>4, <3>1
  <2>6. CASE stage[a] = "pollJoin" /\ result[a] = "succeeded" /\ UNCHANGED <<Aside, copy, projectRows>>
    <3>1. \A b \in Admin : ~ RowPending(b) /\ ~ Joins(b)
      BY <2>1, <2>6 DEF RowPending, Joins, Idle
    <3>2. p.id \in projectRows
      BY <1>5, <3>1 DEF OrderOK, RowsOK, Ids
    <3>3. made[a] # {} /\ made[a] = EnvsOf(p.id)
      BY <1>5, <1>7, <2>3, <2>4, <2>6 DEF OrderOK, MadeOK
    <3>4. PICK e \in envs : e.project = p.id
      BY <3>3 DEF EnvsOf
    <3>5. e.id \in EnvsOf(p.id) /\ e.id \in Nat
      BY <1>2, <3>4 DEF EnvsOf, ProjectShape, ProjectStateOK, ProjectsTypeOK
    <3>6. e.id \in p.envs
      BY <1>5, <3>1, <3>5 DEF OrderOK, EnvsOK, EnvsOfProject
    <3> QED
      BY <1>7, <2>3, <2>6, <3>2, <3>4, <3>6 DEF Aside
  <2> QED
    BY <2>2, <2>5, <2>6
<1> QED
  BY <1>6, <1>7
=============================================================================
