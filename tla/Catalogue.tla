------------------------------- MODULE Catalogue -------------------------------
(***************************************************************************)
(* The entities of src/calm/dsl/cli that are created, changed and deleted   *)
(* by name: blueprints, runbooks, endpoints, library tasks, global          *)
(* variables, providers, jobs, approval policies, users, user groups and    *)
(* tunnels.  The commands go through the same calls in the same order, and  *)
(* leave out one or the other: what each kind does is a record, the calls   *)
(* are the actions.  All commands of a behaviour are on one kind.           *)
(*                                                                         *)
(* The server is external: it keeps what it is sent under a new identity,   *)
(* and may refuse any call.  It does not keep names unique.                 *)
(***************************************************************************)
EXTENDS Administrators, FiniteSets

CONSTANTS
    Name,
    CatalogueRequest   \* what an administrator may ask for; rename: the new name of a tunnel

CatalogueOp == {"createEntity", "updateEntity", "deleteEntities"}

ASSUME CatalogueAssumption ==
    /\ IsFiniteSet(Name)
    /\ \A r \in CatalogueRequest :
         /\ r \in [op : CatalogueOp, names : (SUBSET Name) \ {{}}, force : BOOLEAN, rename : SUBSET Name]
         /\ r.op = "deleteEntities" \/ \E n \in Name : r.names = {n}
         /\ r.rename # {} => r.op = "updateEntity" /\ \E n \in Name : r.rename = {n}

VARIABLES
    kind,         \* the kind of entity the commands are on
    entities,     \* those of the server; whole: its secrets are there
    seen,         \* the entities each command has listed
    names,        \* the names it has still to look for
    found,        \* the one it has in hand: at most one
    gone,         \* the entities it has deleted
    deletions,    \* pending tasks that delete an entity
    ended,        \* how the task each administrator started last has ended
    entityRows,   \* the entities the local cache lists
    entityIds     \* identities handed out

catalogueOwn ==
    <<kind, entities, seen, names, found, gone, deletions, ended, entityRows, entityIds>>
catalogueVars == <<catalogueOwn, admins>>

-----------------------------------------------------------------------------
(* What "create" does: checks that there is none of the name; forces: with  *)
(* --force deletes it; has something else to look up after that, which may  *)
(* fail; creates the entity without its secrets and patches them; goes on   *)
(* when the entity is not in the state ACTIVE; adds a row to the cache.     *)
(* The variable is looked for among those deleted, too, which the listing  *)
(* of the server is taken not to return.                                   *)
CreateBlueprint ==
    [checks |-> TRUE, forces |-> TRUE, later |-> FALSE, patched |-> TRUE,
     lax |-> FALSE, row |-> FALSE]

CreateRunbook ==
    [checks |-> TRUE, forces |-> TRUE, later |-> TRUE, patched |-> TRUE,
     lax |-> FALSE, row |-> FALSE]

CreateEndpoint ==
    [checks |-> TRUE, forces |-> TRUE, later |-> TRUE, patched |-> TRUE,
     lax |-> FALSE, row |-> FALSE]

CreateTask ==
    [checks |-> TRUE, forces |-> TRUE, later |-> TRUE, patched |-> FALSE,
     lax |-> FALSE, row |-> FALSE]

CreateVariable ==
    [checks |-> TRUE, forces |-> TRUE, later |-> FALSE, patched |-> FALSE,
     lax |-> FALSE, row |-> FALSE]

CreateProvider ==
    [checks |-> TRUE, forces |-> TRUE, later |-> FALSE, patched |-> FALSE,
     lax |-> FALSE, row |-> TRUE]

CreateJob ==
    [checks |-> FALSE, forces |-> FALSE, later |-> FALSE, patched |-> FALSE,
     lax |-> FALSE, row |-> FALSE]

CreatePolicy ==
    [checks |-> FALSE, forces |-> FALSE, later |-> FALSE, patched |-> FALSE,
     lax |-> FALSE, row |-> FALSE]

CreateUser ==
    [checks |-> TRUE, forces |-> FALSE, later |-> FALSE, patched |-> FALSE,
     lax |-> FALSE, row |-> TRUE]

CreateGroup ==
    [checks |-> FALSE, forces |-> FALSE, later |-> FALSE, patched |-> FALSE,
     lax |-> FALSE, row |-> FALSE]

CreateTunnel ==
    [checks |-> FALSE, forces |-> FALSE, later |-> FALSE, patched |-> FALSE,
     lax |-> TRUE, row |-> TRUE]

(* What "delete" does with each name: finds the entity with a call, in one  *)
(* listing of all made first, or in the cache; spares one in use; starts a  *)
(* task and polls it, or has the entity deleted at once; goes on to the     *)
(* next name after an error; takes rows from the cache.                    *)
DeleteBlueprint ==
    [finds |-> "call", spares |-> FALSE, task |-> FALSE, lax |-> FALSE, row |-> "never"]

DeleteRunbook ==
    [finds |-> "call", spares |-> FALSE, task |-> FALSE, lax |-> FALSE, row |-> "never"]

DeleteEndpoint ==
    [finds |-> "call", spares |-> FALSE, task |-> FALSE, lax |-> FALSE, row |-> "never"]

DeleteTask ==
    [finds |-> "call", spares |-> FALSE, task |-> FALSE, lax |-> FALSE, row |-> "never"]

DeleteVariable ==
    [finds |-> "call", spares |-> FALSE, task |-> FALSE, lax |-> FALSE, row |-> "never"]

DeleteProvider ==
    [finds |-> "call", spares |-> FALSE, task |-> FALSE, lax |-> FALSE, row |-> "each"]

DeleteJob ==
    [finds |-> "call", spares |-> FALSE, task |-> FALSE, lax |-> FALSE, row |-> "never"]

DeletePolicy ==
    [finds |-> "call", spares |-> FALSE, task |-> FALSE, lax |-> FALSE, row |-> "never"]

DeleteUser ==
    [finds |-> "listing", spares |-> FALSE, task |-> TRUE, lax |-> FALSE, row |-> "last"]

DeleteGroup ==
    [finds |-> "row", spares |-> FALSE, task |-> TRUE, lax |-> FALSE, row |-> "last"]

DeleteTunnel ==
    [finds |-> "call", spares |-> TRUE, task |-> FALSE, lax |-> TRUE, row |-> "last"]

Kinds ==
    [blueprint |-> [create |-> CreateBlueprint, delete |-> DeleteBlueprint],
     runbook   |-> [create |-> CreateRunbook,   delete |-> DeleteRunbook],
     endpoint  |-> [create |-> CreateEndpoint,  delete |-> DeleteEndpoint],
     task      |-> [create |-> CreateTask,      delete |-> DeleteTask],
     variable  |-> [create |-> CreateVariable,  delete |-> DeleteVariable],
     provider  |-> [create |-> CreateProvider,  delete |-> DeleteProvider],
     job       |-> [create |-> CreateJob,       delete |-> DeleteJob],
     policy    |-> [create |-> CreatePolicy,    delete |-> DeletePolicy],
     user      |-> [create |-> CreateUser,      delete |-> DeleteUser],
     group     |-> [create |-> CreateGroup,     delete |-> DeleteGroup],
     tunnel    |-> [create |-> CreateTunnel,    delete |-> DeleteTunnel]]

(* The first call of "update" on the entity found: one puts it as a whole,  *)
(* that of a runbook puts it without its secrets, which are then patched.  *)
(* That of a tunnel may give it a new name, and brings its row up to date.  *)
Updates ==
    [runbook |-> "strip", variable |-> "put", policy |-> "put", provider |-> "put",
     tunnel |-> "put"]

Creation == Kinds[kind].create
Deletion == Kinds[kind].delete

Entity == [id : Nat, name : Name, whole : BOOLEAN]

RowsOf(es) == {[id |-> e.id, name |-> e.name] : e \in es}

CatalogueStage ==
    {"idle", "check", "deleteFirst", "projectOf", "createEntity", "patch", "addRow", "listAll",
     "find", "usageOf", "deleteEntity", "pollDeletion", "dropRows", "strip", "putEntity",
     "updateRow"}

CatalogueTypeOK ==
    /\ kind \in DOMAIN Kinds
    /\ entities \subseteq Entity
    /\ seen \in [Admin -> SUBSET Entity]
    /\ names \in [Admin -> SUBSET Name]
    /\ found \in [Admin -> SUBSET Nat]
    /\ \A a \in Admin : Cardinality(found[a]) <= 1
    /\ gone \in [Admin -> SUBSET Nat]
    /\ deletions \subseteq [by : Admin, id : Nat]
    /\ ended \in [Admin -> {"none", "pending", "succeeded", "failed"}]
    /\ entityRows \subseteq [id : Nat, name : Name]
    /\ entityIds \in Nat

(* Start with no entity, or one of each name; kinds with rows have theirs. *)
CatalogueStart ==
    /\ kind \in DOMAIN Kinds
    /\ \/ entities = {} /\ entityIds = 0
       \/ \E f \in [Name -> 1 .. Cardinality(Name)] :
            /\ \A m, n \in Name : f[m] = f[n] => m = n
            /\ entities = {[id |-> f[n], name |-> n, whole |-> TRUE] : n \in Name}
            /\ entityIds = Cardinality(Name)
    /\ seen = [a \in Admin |-> {}]
    /\ names = [a \in Admin |-> {}]
    /\ found = [a \in Admin |-> {}]
    /\ gone = [a \in Admin |-> {}]
    /\ deletions = {}
    /\ ended = [a \in Admin |-> "none"]
    /\ entityRows = IF Deletion.row = "never" THEN {} ELSE RowsOf(entities)

CatalogueInit == AdminsInit /\ CatalogueStart

-----------------------------------------------------------------------------
(* Two commands on one name, one of which creates, deletes or renames, are  *)
(* not meant to run at the same time.                                      *)
NamesOf(r) == r.names \cup r.rename

Reassigns(r) == r.op # "updateEntity" \/ r.rename # {}

CatalogueClash(r, q) ==
    /\ Reassigns(r) \/ Reassigns(q)
    /\ NamesOf(r) \cap NamesOf(q) # {}

CatalogueBegin(a) ==
    /\ \E r \in CatalogueRequest :
         /\ r.op = "updateEntity" => kind \in DOMAIN Updates
         /\ r.rename # {} => kind = "tunnel"
         /\ Start(a, r, CASE r.op = "createEntity" ->
                               IF Creation.checks THEN "check" ELSE "createEntity"
                          [] r.op = "deleteEntities" /\ Deletion.finds = "listing" -> "listAll"
                          [] OTHER -> "find",
                  CatalogueClash)
         /\ names' = [names EXCEPT ![a] = r.names]
    /\ seen' = [seen EXCEPT ![a] = {}]
    /\ found' = [found EXCEPT ![a] = {}]
    /\ gone' = [gone EXCEPT ![a] = {}]
    /\ UNCHANGED <<kind, entities, deletions, ended, entityRows, entityIds>>

(* The call is refused, or anything on the way to it fails.                *)
EntityRefused(a) == Fail(a) /\ UNCHANGED catalogueOwn

InHand(a) == {e \in entities : e.id \in found[a]}

-----------------------------------------------------------------------------
(* create.  A name that is taken is refused without --force; with it, the   *)
(* first entity listed is deleted.                                         *)
AfterCheck == IF Creation.later THEN "projectOf" ELSE "createEntity"

Check_Blind(a) == \* Mutant: with --force nobody looks for the name
    /\ stage[a] = "check"
    /\ \/ /\ (Creation.forces /\ request[a].force) \/ \A e \in entities : e.name \notin names[a]
          /\ Proceed(a, AfterCheck)
          /\ UNCHANGED catalogueOwn
       \/ EntityRefused(a)

Check(a) ==
    /\ stage[a] = "check"
    /\ \/ /\ \A e \in entities : e.name \notin names[a]
          /\ Proceed(a, AfterCheck)
          /\ UNCHANGED catalogueOwn
       \/ /\ Creation.forces /\ request[a].force
          /\ \E e \in entities :
               /\ e.name \in names[a]
               /\ found' = [found EXCEPT ![a] = {e.id}]
          /\ Proceed(a, "deleteFirst")
          /\ UNCHANGED <<kind, entities, seen, names, gone, deletions, ended, entityRows, entityIds>>
       \/ EntityRefused(a)

(* The row goes with the entity when the command is told that it is gone;   *)
(* one that cannot be taken out of the cache is a warning, and stays.      *)
DeleteFirst(a) ==
    /\ stage[a] = "deleteFirst"
    /\ \/ \E e \in InHand(a) :
            /\ entities' = entities \ {e}
            /\ \/ Proceed(a, AfterCheck) /\ entityRows' = entityRows \ RowsOf({e})
               \/ Deletion.row = "each" /\ Complain(a, AfterCheck) /\ UNCHANGED entityRows
               \/ Fail(a) /\ UNCHANGED entityRows
            /\ UNCHANGED <<kind, seen, names, found, gone, deletions, ended, entityIds>>
       \/ EntityRefused(a)

(* The project of the context is looked up when the old entity is gone.    *)
ProjectOf(a) ==
    /\ stage[a] = "projectOf"
    /\ Proceed(a, "createEntity") \/ Fail(a)
    /\ UNCHANGED catalogueOwn

AfterCreate == IF Creation.row THEN "addRow" ELSE "idle"

CreateEntity(a) ==
    /\ stage[a] = "createEntity"
    /\ \/ /\ \E n \in names[a] :
               entities' = entities \cup {[id |-> entityIds + 1, name |-> n,
                                           whole |-> ~ Creation.patched]}
          /\ entityIds' = entityIds + 1
          /\ found' = [found EXCEPT ![a] = {entityIds + 1}]
          /\ \/ Proceed(a, IF Creation.patched THEN "patch" ELSE AfterCreate)
             \/ Creation.lax /\ Complain(a, AfterCreate)
             \/ Fail(a)
          /\ UNCHANGED <<kind, seen, names, gone, deletions, ended, entityRows>>
       \/ EntityRefused(a)

Patch(a) ==
    /\ stage[a] = "patch"
    /\ \/ \E e \in InHand(a) :
            /\ entities' = (entities \ {e}) \cup {[e EXCEPT !.whole = TRUE]}
            /\ Proceed(a, "idle") \/ Fail(a)
            /\ UNCHANGED <<kind, seen, names, found, gone, deletions, ended, entityRows, entityIds>>
       \/ EntityRefused(a)

(* The row of a provider is made of what its creation returned, the others  *)
(* of what is read now.                                                    *)
AddRow(a) ==
    /\ stage[a] = "addRow"
    /\ \/ \E w \in IF kind = "provider" THEN [id : found[a], name : names[a]]
                                         ELSE RowsOf(InHand(a)) :
            /\ entityRows' = entityRows \cup {w}
            /\ Proceed(a, "idle")
            /\ UNCHANGED <<kind, entities, seen, names, found, gone, deletions, ended, entityIds>>
       \/ EntityRefused(a)

-----------------------------------------------------------------------------
(* update and delete find the entity first; a name that is not there, or    *)
(* there twice, is an error.                                               *)
ListAll(a) ==
    /\ stage[a] = "listAll"
    /\ \/ /\ seen' = [seen EXCEPT ![a] = entities]
          /\ Proceed(a, "find")
          /\ UNCHANGED <<kind, entities, names, found, gone, deletions, ended, entityRows, entityIds>>
       \/ EntityRefused(a)

Known(a) ==
    IF request[a].op = "updateEntity" THEN RowsOf(entities)
    ELSE CASE Deletion.finds = "call" -> RowsOf(entities)
           [] Deletion.finds = "listing" -> RowsOf(seen[a])
           [] Deletion.finds = "row" -> entityRows

AfterFind(a) ==
    IF request[a].op = "updateEntity"
      THEN (IF Updates[kind] = "strip" THEN "strip" ELSE "putEntity")
    ELSE IF Deletion.spares THEN "usageOf" ELSE "deleteEntity"

FindEntity(a) ==
    /\ stage[a] = "find"
    /\ \/ \E n \in names[a] :
            /\ \E m \in Known(a) :
                 /\ {k \in Known(a) : k.name = n} = {m}
                 /\ found' = [found EXCEPT ![a] = {m.id}]
            /\ names' = [names EXCEPT ![a] = @ \ {n}]
            /\ Proceed(a, AfterFind(a))
            /\ UNCHANGED <<kind, entities, seen, gone, deletions, ended, entityRows, entityIds>>
       \/ EntityRefused(a)

Strip(a) ==
    /\ stage[a] = "strip"
    /\ \/ \E e \in InHand(a) :
            /\ entities' = (entities \ {e}) \cup {[e EXCEPT !.whole = FALSE]}
            /\ Proceed(a, "patch") \/ Fail(a)
            /\ UNCHANGED <<kind, seen, names, found, gone, deletions, ended, entityRows, entityIds>>
       \/ EntityRefused(a)

(* A tunnel that is not ACTIVE then is an error, after which the command    *)
(* may go on; its row is made of what is read now, if the cache has one.    *)
AfterPut == IF kind = "tunnel" THEN "updateRow" ELSE "idle"

PutEntity(a) ==
    /\ stage[a] = "putEntity"
    /\ \/ \E e \in InHand(a) :
            /\ \E n \in IF request[a].rename = {} THEN {e.name} ELSE request[a].rename :
                 entities' = (entities \ {e}) \cup {[e EXCEPT !.name = n]}
            /\ \/ Proceed(a, AfterPut)
               \/ kind = "tunnel" /\ Complain(a, AfterPut)
               \/ Fail(a)
            /\ UNCHANGED <<kind, seen, names, found, gone, deletions, ended, entityRows, entityIds>>
       \/ EntityRefused(a)

UpdateRow_Insert(a) == \* Mutant: the row of the new name is added to the one of the old
    /\ stage[a] = "updateRow"
    /\ \/ /\ InHand(a) # {}
          /\ entityRows' = entityRows \cup RowsOf(InHand(a))
          /\ Proceed(a, "idle")
          /\ UNCHANGED <<kind, entities, seen, names, found, gone, deletions, ended, entityIds>>
       \/ EntityRefused(a)

UpdateRow(a) ==
    /\ stage[a] = "updateRow"
    /\ \/ /\ InHand(a) # {}
          /\ entityRows' = {w \in entityRows : w.id \notin found[a]}
                            \cup {r \in RowsOf(InHand(a)) : r.id \in {w.id : w \in entityRows}}
          /\ Proceed(a, "idle")
          /\ UNCHANGED <<kind, entities, seen, names, found, gone, deletions, ended, entityIds>>
       \/ EntityRefused(a)

-----------------------------------------------------------------------------
(* delete, one name after the other; the cache may come last.              *)
NextName(a, deleted) ==
    IF names[a] # {} THEN "find"
    ELSE IF Deletion.row = "last" /\ deleted # {} THEN "dropRows" ELSE "idle"

(* A tunnel in use is left alone, which is no error.                       *)
UsageOf(a) ==
    /\ stage[a] = "usageOf"
    /\ Proceed(a, "deleteEntity") \/ Proceed(a, NextName(a, gone[a]))
    /\ UNCHANGED catalogueOwn

(* A row that cannot be taken out of the cache is a warning, as above.      *)
DeletionFails(a) == IF Deletion.lax THEN Complain(a, NextName(a, gone[a])) ELSE Fail(a)

DeleteEntity(a) ==
    /\ stage[a] = "deleteEntity"
    /\ \/ \E e \in InHand(a) :
            /\ e.id \notin {t.id : t \in deletions}
            /\ IF Deletion.task
                 THEN /\ deletions' = deletions \cup {[by |-> a, id |-> e.id]}
                      /\ ended' = [ended EXCEPT ![a] = "pending"]
                      /\ UNCHANGED entities
                 ELSE /\ entities' = entities \ {e}
                      /\ UNCHANGED <<deletions, ended>>
            /\ \/ /\ gone' = [gone EXCEPT ![a] = @ \cup {e.id}]
                  /\ Proceed(a, IF Deletion.task THEN "pollDeletion" ELSE NextName(a, gone'[a]))
                  /\ entityRows' = IF Deletion.row = "each" THEN entityRows \ RowsOf({e})
                                   ELSE entityRows
               \/ /\ Deletion.row = "each"
                  /\ gone' = [gone EXCEPT ![a] = @ \cup {e.id}]
                  /\ Complain(a, NextName(a, gone'[a]))
                  /\ UNCHANGED entityRows
               \/ DeletionFails(a) /\ UNCHANGED <<gone, entityRows>>
            /\ UNCHANGED <<kind, seen, names, found, entityIds>>
       \/ DeletionFails(a) /\ UNCHANGED catalogueOwn

(* Its outcome is for the command that started it, if that is still there. *)
DeletionEnds ==
    \E t \in deletions, outcome \in {"succeeded", "failed"} :
        /\ deletions' = deletions \ {t}
        /\ entities' = IF outcome = "failed" THEN entities
                       ELSE {e \in entities : e.id # t.id}
        /\ ended' = IF t.id \in found[t.by] THEN [ended EXCEPT ![t.by] = outcome] ELSE ended
        /\ UNCHANGED <<kind, seen, names, found, gone, entityRows, entityIds, admins>>

PollDeletion_AnyEnd(a) == \* Mutant: a task that has ended is taken for one that has succeeded
    /\ stage[a] = "pollDeletion"
    /\ \/ ended[a] \in {"succeeded", "failed"} /\ Proceed(a, NextName(a, gone[a]))
       \/ ended[a] = "pending" /\ (GiveUp(a, NextName(a, gone[a])) \/ Fail(a))
    /\ UNCHANGED catalogueOwn

(* watch_task reads the task ten times and then returns nothing, which is   *)
(* none of the states of failure.                                          *)
PollDeletion(a) ==
    /\ stage[a] = "pollDeletion"
    /\ \/ ended[a] = "succeeded" /\ Proceed(a, NextName(a, gone[a]))
       \/ ended[a] = "failed" /\ Fail(a)
       \/ ended[a] = "pending" /\ (GiveUp(a, NextName(a, gone[a])) \/ Fail(a))
    /\ UNCHANGED catalogueOwn

(* The rows go one after the other; one that cannot go ends the command.    *)
DropRows(a) ==
    /\ stage[a] = "dropRows"
    /\ \/ /\ entityRows' = {w \in entityRows : w.id \notin gone[a]}
          /\ Proceed(a, "idle")
       \/ /\ \E left \in SUBSET gone[a] :
               entityRows' = {w \in entityRows : w.id \notin gone[a] \ left}
          /\ Fail(a)
    /\ UNCHANGED <<kind, entities, seen, names, found, gone, deletions, ended, entityIds>>

CatalogueWork(a) ==
    \/ Check(a) \/ DeleteFirst(a) \/ ProjectOf(a) \/ CreateEntity(a) \/ Patch(a) \/ AddRow(a)
    \/ ListAll(a) \/ FindEntity(a) \/ Strip(a) \/ PutEntity(a) \/ UpdateRow(a)
    \/ UsageOf(a) \/ DeleteEntity(a) \/ PollDeletion(a) \/ DropRows(a)

CatalogueFinished == Exhausted /\ UNCHANGED catalogueVars

CatalogueNext ==
    \/ \E a \in Admin : CatalogueBegin(a) \/ CatalogueWork(a)
    \/ DeletionEnds
    \/ CatalogueFinished

CatalogueSpec == CatalogueInit /\ [][CatalogueNext]_catalogueVars

-----------------------------------------------------------------------------
(* However often a name is created, with --force or without, deleted and    *)
(* created again after a failure halfway, it is that of one entity, for the *)
(* kinds whose creation looks for it - unless two commands on the name run  *)
(* at the same time: the check and the creation are separate calls.        *)
OnePerName ==
    Creation.checks /\ ~ overlapped =>
        \A e, f \in entities : e.name = f.name => e = f

(* A command that logs no error, and no warning that a row could not be     *)
(* taken out of the cache, leaves what it was asked for: a creation or an   *)
(* update an entity with its secrets, a renamed tunnel one of the new name, *)
(* and no row under another; a creation the row its kind has; a deletion    *)
(* no entity of its names and no row of what it has deleted.                *)
(* Tunnels in use, user groups that the cache does not know, and tasks that *)
(* outlive their poll are left out.                                        *)
CatalogueEndsAsAsked ==
    [][\A a \in Admin : EndsSilently(a) /\ ~ overlapped' /\ patient' =>
         LET r == request[a]
             named == {e \in entities' : e.name \in r.names}
         IN  CASE r.op = "createEntity" ->
                     \E e \in named : e.whole /\ (Creation.row => RowsOf({e}) \subseteq entityRows')
               [] r.op = "updateEntity" ->
                     \E e \in entities' :
                         /\ e.whole /\ e.name \in (IF r.rename = {} THEN r.names ELSE r.rename)
                         /\ kind = "tunnel" => \A w \in entityRows' : w.id = e.id => w.name = e.name
               [] r.op = "deleteEntities" ->
                     /\ Deletion.spares \/ Deletion.finds = "row" \/ named = {}
                     /\ \A e \in entities' \cup entityRows' : e.id \notin gone'[a]
               [] OTHER -> TRUE]_catalogueVars
=============================================================================
