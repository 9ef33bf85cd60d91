------------------------------ MODULE SecretStore ------------------------------
(***************************************************************************)
(* Secrets in the local database (src/calm/dsl/store/secrets.py and        *)
(* src/calm/dsl/cli/secrets.py): a row of SecretTable, keyed by the name,   *)
(* and a row of DataTable that refers to it and holds the encrypted value.  *)
(* Every statement commits by itself, and SQLite does not enforce the       *)
(* reference.  Processes run commands one after the other, concurrently     *)
(* with each other, and may be interrupted between any two statements.      *)
(***************************************************************************)
EXTENDS Naturals

CONSTANTS
    Process, Name, Value,
    MaxOps,     \* bound: commands started in all
    NoName, NoValue

Op == {"create", "update", "find", "delete", "clear", "clearCache"}

ASSUME StoreAssumption ==
    /\ MaxOps \in Nat
    /\ NoName \notin Name /\ NoValue \notin Value

VARIABLES
    pc, op, name, value,   \* where each process is, and what its command was given
    todo,                  \* names a clear has still to delete
    answer,                \* what find returned
    secrets,               \* SecretTable: the names
    data,                  \* DataTable: its rows
    nextId,
    latest,                \* history: the value stored last under each name
    interrupted,           \* history: names a command was interrupted on
    started,               \* history: commands started
    overlapped             \* history: a command that deletes overlapped with another

vars == <<pc, op, name, value, todo, answer, secrets, data, nextId,
          latest, interrupted, started, overlapped>>
arguments == <<op, name, value>>
tables == <<secrets, data, nextId>>
history == <<latest, interrupted, started, overlapped>>

Row == [id : Nat, ref : Name, value : Value]

TypeOK ==
    /\ pc \in [Process -> {"idle", "check", "open", "insertSecret", "insertData", "store",
                           "find", "deleteData", "deleteSecret", "clear", "recreate"}]
    /\ op \in [Process -> Op \cup {"none"}]
    /\ name \in [Process -> Name \cup {NoName}]
    /\ value \in [Process -> Value \cup {NoValue}]
    /\ todo \in [Process -> SUBSET Name]
    /\ answer \in [Process -> Value \cup {NoValue}]
    /\ secrets \subseteq Name
    /\ data \subseteq Row
    /\ nextId \in Nat
    /\ latest \in [Name -> Value \cup {NoValue}]
    /\ interrupted \subseteq Name
    /\ started \in Nat
    /\ overlapped \in BOOLEAN

Init ==
    /\ pc = [p \in Process |-> "idle"]
    /\ op = [p \in Process |-> "none"]
    /\ name = [p \in Process |-> NoName]
    /\ value = [p \in Process |-> NoValue]
    /\ todo = [p \in Process |-> {}]
    /\ answer = [p \in Process |-> NoValue]
    /\ secrets = {}
    /\ data = {}
    /\ nextId = 1
    /\ latest = [n \in Name |-> NoValue]
    /\ interrupted = {}
    /\ started = 0
    /\ overlapped = FALSE

Goto(p, stage) == pc' = [pc EXCEPT ![p] = stage]

(* secret.data: the rows that refer to the name, in no specified order.    *)
Data(n) == {r \in data : r.ref = n}

Destructive == {"delete", "clear", "clearCache"}

(* Another process is at work, and one of the two deletes.                 *)
Overlaps(p, o) ==
    \E q \in Process \ {p} :
        pc[q] # "idle" /\ (o \in Destructive \/ op[q] \in Destructive)

Begin(p) ==
    /\ pc[p] = "idle"
    /\ started < MaxOps
    /\ \E o \in Op, n \in Name, v \in Value :
         /\ op' = [op EXCEPT ![p] = o]
         /\ name' = [name EXCEPT ![p] = n]
         /\ value' = [value EXCEPT ![p] = v]
         /\ Goto(p, IF o = "find" THEN "find"
                    ELSE IF o = "clear" THEN "clear"
                    ELSE IF o = "clearCache" THEN "recreate" ELSE "check")
         /\ todo' = [todo EXCEPT ![p] = IF o = "clear" THEN secrets ELSE {}]
         /\ overlapped' = (overlapped \/ Overlaps(p, o))
    /\ answer' = [answer EXCEPT ![p] = NoValue]
    /\ started' = started + 1
    /\ UNCHANGED <<tables, latest, interrupted>>

(* The names are listed first: create refuses one that is there, update    *)
(* and delete one that is not.                                             *)
Check(p) ==
    /\ pc[p] = "check"
    /\ Goto(p, IF op[p] = "create"
                 THEN IF name[p] \in secrets THEN "idle" ELSE "insertSecret"
                 ELSE IF name[p] \in secrets THEN "open" ELSE "idle")
    /\ UNCHANGED <<arguments, todo, answer, tables, history>>

InsertSecret_Replace(p) == \* Mutant: a name already there is taken over
    /\ pc[p] = "insertSecret"
    /\ secrets' = secrets \cup {name[p]}
    /\ Goto(p, "insertData")
    /\ UNCHANGED <<arguments, todo, answer, data, nextId, history>>

(* The name is the primary key: of two creators the second gets an error.  *)
InsertSecret(p) ==
    /\ pc[p] = "insertSecret"
    /\ IF name[p] \in secrets
         THEN Goto(p, "idle") /\ UNCHANGED secrets
         ELSE Goto(p, "insertData") /\ secrets' = secrets \cup {name[p]}
    /\ UNCHANGED <<arguments, todo, answer, data, nextId, history>>

InsertData(p) ==
    /\ pc[p] = "insertData"
    /\ data' = data \cup {[id |-> nextId, ref |-> name[p], value |-> value[p]]}
    /\ nextId' = nextId + 1
    /\ latest' = [latest EXCEPT ![name[p]] = value[p]]
    /\ Goto(p, "idle")
    /\ UNCHANGED <<arguments, todo, answer, secrets, interrupted, started, overlapped>>

(* get_instance raises when the secret is gone; update reads data[0] for    *)
(* the pass phrase, which raises when the secret has no data.               *)
Open(p) ==
    /\ pc[p] = "open"
    /\ Goto(p, IF name[p] \notin secrets THEN "idle"
               ELSE IF op[p] = "delete" THEN "deleteData"
               ELSE IF Data(name[p]) = {} THEN "idle" ELSE "store")
    /\ UNCHANGED <<arguments, todo, answer, tables, history>>

(* One statement writes every row of the secret.                           *)
Store(p) ==
    /\ pc[p] = "store"
    /\ data' = {IF r.ref = name[p] THEN [r EXCEPT !.value = value[p]] ELSE r : r \in data}
    /\ latest' = [latest EXCEPT ![name[p]] = IF Data(name[p]) = {} THEN @ ELSE value[p]]
    /\ Goto(p, "idle")
    /\ UNCHANGED <<arguments, todo, answer, secrets, nextId, interrupted, started,
                   overlapped>>

(* data[0] may be any row; without one, or without the secret, find raises. *)
Find(p) ==
    /\ pc[p] = "find"
    /\ \/ /\ name[p] \in secrets
          /\ \E r \in Data(name[p]) : answer' = [answer EXCEPT ![p] = r.value]
       \/ /\ name[p] \notin secrets \/ Data(name[p]) = {}
          /\ UNCHANGED answer
    /\ Goto(p, "idle")
    /\ UNCHANGED <<arguments, todo, tables, history>>

DeleteData_Skipped(p) == \* Mutant: only the secret itself is deleted
    /\ pc[p] = "deleteData"
    /\ Goto(p, "deleteSecret")
    /\ UNCHANGED <<arguments, todo, answer, tables, history>>

(* delete_instance(recursive=True): the rows that refer to it go first.    *)
DeleteData(p) ==
    /\ pc[p] = "deleteData"
    /\ data' = data \ Data(name[p])
    /\ Goto(p, "deleteSecret")
    /\ UNCHANGED <<arguments, todo, answer, secrets, nextId, history>>

DeleteSecret_Skipped(p) == \* Mutant: a clear forgets the secret itself
    /\ pc[p] = "deleteSecret"
    /\ Goto(p, IF op[p] = "clear" THEN "clear" ELSE "idle")
    /\ UNCHANGED <<arguments, todo, answer, tables, history>>

DeleteSecret(p) ==
    /\ pc[p] = "deleteSecret"
    /\ secrets' = secrets \ {name[p]}
    /\ Goto(p, IF op[p] = "clear" THEN "clear" ELSE "idle")
    /\ UNCHANGED <<arguments, todo, answer, data, nextId, history>>

(* clear secrets deletes one secret after the other.                       *)
Clear(p) ==
    /\ pc[p] = "clear"
    /\ \/ /\ todo[p] = {}
          /\ Goto(p, "idle")
          /\ UNCHANGED <<name, todo>>
       \/ \E n \in todo[p] :
            /\ name' = [name EXCEPT ![p] = n]
            /\ todo' = [todo EXCEPT ![p] = @ \ {n}]
            /\ Goto(p, "deleteData")
    /\ UNCHANGED <<op, value, answer, tables, history>>

(* clear cache removes the whole file, the tables of the secrets with it.  *)
Recreate(p) ==
    /\ pc[p] = "recreate"
    /\ secrets' = {}
    /\ data' = {}
    /\ Goto(p, "idle")
    /\ UNCHANGED <<arguments, todo, answer, nextId, history>>

(* The process is killed between two statements.                           *)
Interrupt(p) ==
    /\ pc[p] \notin {"idle", "check", "find"}
    /\ interrupted' = interrupted \cup {name[p]}
    /\ Goto(p, "idle")
    /\ UNCHANGED <<arguments, todo, answer, tables, latest, started, overlapped>>

Step(p) ==
    \/ Begin(p) \/ Check(p) \/ InsertSecret(p) \/ InsertData(p) \/ Open(p) \/ Store(p)
    \/ Find(p) \/ DeleteData(p) \/ DeleteSecret(p) \/ Clear(p) \/ Recreate(p) \/ Interrupt(p)

Finished == started = MaxOps /\ (\A p \in Process : pc[p] = "idle") /\ UNCHANGED vars

Next == (\E p \in Process : Step(p)) \/ Finished

Spec == Init /\ [][Next]_vars

-----------------------------------------------------------------------------
(* The properties below are for databases in which no command that deletes *)
(* overlapped with another: a delete between the two inserts of a create   *)
(* leaves a value without its secret, which a later secret would take up.  *)
(*                                                                         *)
(* A value belongs to a secret: no row of DataTable outlives its secret,   *)
(* and no secret has two, though nothing in the database enforces either.  *)
NoOrphanValue == ~ overlapped => \A r \in data : r.ref \in secrets
OneValue == ~ overlapped => \A r, s \in data : r.ref = s.ref => r = s
ValuesBelong == NoOrphanValue /\ OneValue

(* What find returns is the value stored last.                             *)
FindsLatest ==
    [][~ overlapped =>
         \A p \in Process : pc[p] = "find" /\ pc'[p] = "idle" /\ answer'[p] # NoValue
                               => answer'[p] = latest[name[p]]]_vars

Busy(n) == \E p \in Process : name[p] = n /\ pc[p] \in {"insertData", "deleteSecret"}

(* A secret without a value, which neither create nor update nor find can  *)
(* use, is only seen while a command is at work on it or was interrupted.  *)
EmptyMeansInterrupted ==
    ~ overlapped =>
        \A n \in secrets : Data(n) = {} => Busy(n) \/ n \in interrupted
=============================================================================
