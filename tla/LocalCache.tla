------------------------------ MODULE LocalCache ------------------------------
(***************************************************************************)
(* The environment table of the local SQLite cache                         *)
(* (src/calm/dsl/db/table_config.py, store/cache.py, db/handler.py) and the *)
(* commands that change it while they change the server: create (with and  *)
(* without --force), update and delete environment                         *)
(* (src/calm/dsl/cli/environments.py), update cache, and clear cache.       *)
(* Commands are processes that share the database file.                    *)
(*                                                                         *)
(* Environments are numbered in the order in which the server creates      *)
(* them, which is the order in which list_all asks for them.               *)
(***************************************************************************)
EXTENDS Naturals, FiniteSets

CONSTANTS
    Command,
    OpOf,            \* what each command does
    Named,           \* the environment a delete, an update or a replacement names
    NInitial,        \* environments that exist, and are cached, at the start
    NEnv,            \* bound: environments ever created
    PageLen,         \* entities of a page, 250 in the code
    Schemas,         \* what columns the table on disk may have at the start
    NoEnv

Op == {"create", "replace", "update", "delete", "sync", "clear"}
Env == 1 .. NEnv

ASSUME CacheAssumption ==
    /\ OpOf \in [Command -> Op]
    /\ NEnv \in Nat /\ NInitial \in 0 .. NEnv
    /\ Named \in [Command -> 1 .. NInitial]
    /\ PageLen \in Nat \ {0}
    /\ Schemas \subseteq {"current", "old"}
    /\ NoEnv \notin Env

VARIABLES
    pc,        \* where each command is; "failed" and "broken" are ends that reported
               \* an error, "broken" one that the table's columns caused
    mine,      \* the environment a command creates, changes or deletes
    copy,      \* the edition of it that the command has read
    read,      \* the reference list and version a command read from the project
    listed,    \* environments list_all has collected, or the rows still to insert
    offset,    \* offset of the next page
    live,      \* server: environments that exist
    edition,   \* server: how often each was changed
    born,      \* server: environments created so far
    project,   \* server: the project's reference list, and the version of its spec
    change,    \* server: the pending task that changes the list, at most one
    result,    \* server: how the task each command started last has ended
    rows,      \* the rows of the environment table
    schema,    \* the columns of the table on disk
    stale,     \* commands that hold a handle on a database file since removed
    shifted,   \* history: commands that listed pages while an environment was deleted
    overtaken, \* history: environments that were changed while a command held what it had
               \* read of them for the cache
    outrun,    \* history: environments whose row was deleted while a command had listed
               \* them and not inserted its row yet
    emptied,   \* history: the file was replaced, and no update cache has begun on it since
    lost       \* history: environments whose task failed when the command that had started
               \* it was no longer waiting for it

list == <<project, change, result, lost>>
server == <<live, edition, born, list, shifted, overtaken>>
local == <<mine, copy, read, listed, offset>>
file == <<rows, schema, stale, outrun, emptied>>
vars == <<pc, local, server, file>>

Ended == {"done", "failed", "broken"}
Stage == {"start", "create", "resolve", "readEnv", "putEnv", "delete", "read", "put", "poll", "fetch",
          "insertRow", "updateRow", "deleteRow", "clearRows", "list", "insertRows", "recreate"}
         \cup Ended
ProjectSpec == [refs : SUBSET Env, version : Nat]
Row == [env : Env, edition : Nat]

Cached == {r.env : r \in rows}

TypeOK ==
    /\ pc \in [Command -> Stage]
    /\ mine \in [Command -> Env \cup {NoEnv}]
    /\ copy \in [Command -> Nat]
    /\ read \in [Command -> ProjectSpec]
    /\ listed \in [Command -> SUBSET Row]
    /\ offset \in [Command -> Nat]
    /\ live \subseteq 1 .. born
    /\ edition \in [Env -> Nat]
    /\ born \in 0 .. NEnv
    /\ project \in ProjectSpec
    /\ rows \subseteq Row /\ Cached \subseteq 1 .. born
    /\ \A r, q \in rows : r.env = q.env => r = q
    /\ schema \in {"current", "old"}
    /\ stale \subseteq Command
    /\ change \subseteq [by : Command, env : Env, refs : SUBSET Env]
    /\ result \in [Command -> {"none", "pending", "succeeded", "failed"}]
    /\ shifted \subseteq Command
    /\ overtaken \cup outrun \cup lost \subseteq Env
    /\ emptied \in BOOLEAN

Init ==
    /\ pc = [c \in Command |-> "start"]
    /\ mine = [c \in Command |-> NoEnv]
    /\ copy = [c \in Command |-> 0]
    /\ live = 1 .. NInitial
    /\ edition = [e \in Env |-> 0]
    /\ born = NInitial
    /\ project = [refs |-> 1 .. NInitial, version |-> 0]
    /\ change = {}
    /\ result = [c \in Command |-> "none"]
    /\ read = [c \in Command |-> project]
    /\ listed = [c \in Command |-> {}]
    /\ offset = [c \in Command |-> 0]
    /\ rows = {[env |-> e, edition |-> 0] : e \in 1 .. NInitial}
    /\ schema \in Schemas
    /\ stale = {}
    /\ shifted = {}
    /\ overtaken = {}
    /\ outrun = {}
    /\ emptied = FALSE
    /\ lost = {}

Goto(c, stage) == pc' = [pc EXCEPT ![c] = stage]

(* The process starts and opens the database file of the moment.  A table  *)
(* that exists is taken as it is, whatever its columns (set_and_verify).   *)
Start(c) ==
    /\ pc[c] = "start"
    /\ Goto(c, CASE OpOf[c] = "create" -> "create"
                 [] OpOf[c] = "sync"   -> "clearRows"
                 [] OpOf[c] = "clear"  -> "recreate"
                 [] OTHER -> "resolve")
    /\ UNCHANGED <<local, server, file>>

(* Any request may fail, and any write may find the database locked: the   *)
(* command reports the error and ends where it stands.                     *)
Fail(c) ==
    /\ pc[c] \notin Ended \cup {"start", "recreate"}
    /\ Goto(c, "failed")
    /\ UNCHANGED <<local, server, file>>

(* SQLite reads of an old table lack a column, and it refuses to write to  *)
(* a file that was removed under an open handle.                           *)
Writable(c) == schema = "current" /\ c \notin stale

BrokenTable(c) ==
    /\ pc[c] \in {"insertRow", "updateRow", "deleteRow", "clearRows", "insertRows"}
    /\ ~ Writable(c)
    /\ Goto(c, IF schema = "old" THEN "broken" ELSE "failed")
    /\ UNCHANGED <<local, server, file>>

-----------------------------------------------------------------------------
(* create environment *)
CreateOnServer_NoUuid(c) == \* Mutant: the uuid is not taken from the response
    /\ pc[c] = "create"
    /\ born < NEnv
    /\ born' = born + 1
    /\ live' = live \cup {born'}
    /\ Goto(c, "read")
    /\ UNCHANGED <<local, edition, list, shifted, overtaken, file>>

CreateOnServer(c) ==
    /\ pc[c] = "create"
    /\ born < NEnv
    /\ born' = born + 1
    /\ live' = live \cup {born'}
    /\ mine' = [mine EXCEPT ![c] = born']
    /\ Goto(c, "read")
    /\ UNCHANGED <<copy, read, listed, offset, edition, list, shifted, overtaken, file>>

(* The other commands look the environment up by name; a creation with     *)
(* --force deletes the one it finds before it creates its own.             *)
Resolve(c) ==
    /\ pc[c] = "resolve"
    /\ IF Named[c] \in live
         THEN /\ mine' = [mine EXCEPT ![c] = Named[c]]
              /\ Goto(c, IF OpOf[c] = "update" THEN "readEnv" ELSE "delete")
         ELSE /\ Goto(c, IF OpOf[c] = "replace" THEN "create" ELSE "failed")
              /\ UNCHANGED mine
    /\ UNCHANGED <<copy, read, listed, offset, server, file>>

DeleteOnServer(c) ==
    /\ pc[c] = "delete"
    /\ IF mine[c] \in live
         THEN /\ live' = live \ {mine[c]}
              /\ shifted' = shifted \cup {d \in Command : pc[d] = "list" /\ offset[d] > 0}
              /\ Goto(c, "read")
         ELSE Goto(c, "failed") /\ UNCHANGED <<live, shifted>>
    /\ UNCHANGED <<local, edition, born, list, overtaken, file>>

(* update environment reads the whole environment and puts it back with    *)
(* the substrates, credentials and accounts of the file.                   *)
ReadEnv(c) ==
    /\ pc[c] = "readEnv"
    /\ IF mine[c] \in live
         THEN copy' = [copy EXCEPT ![c] = edition[mine[c]]] /\ Goto(c, "putEnv")
         ELSE Goto(c, "failed") /\ UNCHANGED copy
    /\ UNCHANGED <<mine, read, listed, offset, server, file>>

(* What d has read of the environment e to write it to the cache.           *)
HoldsListed(d, e) == pc[d] \in {"list", "insertRows"} /\ \E l \in listed[d] : l.env = e

Holds(d, e) == (pc[d] \in {"insertRow", "updateRow"} /\ mine[d] = e) \/ HoldsListed(d, e)

PutEnv(c) ==
    /\ pc[c] = "putEnv"
    /\ IF mine[c] \in live /\ copy[c] = edition[mine[c]]
         THEN /\ edition' = [edition EXCEPT ![mine[c]] = @ + 1]
              /\ overtaken' = overtaken \cup {e \in {mine[c]} : \E d \in Command : Holds(d, e)}
              /\ Goto(c, "fetch")
         ELSE Goto(c, "failed") /\ UNCHANGED <<edition, overtaken>>
    /\ UNCHANGED <<local, live, born, list, shifted, file>>

(* update_project_envs reads the whole project, changes the list, and puts *)
(* the whole project back, with the version it read.                       *)
ReadProject(c) ==
    /\ pc[c] = "read"
    /\ read' = [read EXCEPT ![c] = project]
    /\ Goto(c, "put")
    /\ UNCHANGED <<mine, copy, listed, offset, server, file>>

(* A replacement removes the old environment, then adds its own.            *)
Adds(c) == OpOf[c] = "create" \/ (OpOf[c] = "replace" /\ mine[c] # Named[c])

NewRefs(c) ==
    IF Adds(c) THEN read[c].refs \cup {mine[c]} ELSE read[c].refs \ {mine[c]}

Refused_Never(c) == change # {} \* Mutant: the version is not sent along

(* The server refuses a spec read before the last change, and any while a   *)
(* task is at work on the project (external).                              *)
Refused(c) == read[c].version # project.version \/ change # {}

(* The server takes the list and starts a task that will change it.         *)
PutProject(c) ==
    /\ pc[c] = "put"
    /\ IF Refused(c)
         THEN Goto(c, "failed") /\ UNCHANGED <<change, result>>
         ELSE /\ change' = {[by |-> c, env |-> mine[c], refs |-> NewRefs(c)]}
              /\ result' = [result EXCEPT ![c] = "pending"]
              /\ Goto(c, "poll")
    /\ UNCHANGED <<local, live, edition, born, project, shifted, overtaken, lost, file>>

TaskEnds ==
    \E t \in change :
        /\ change' = {}
        /\ \/ /\ project' = [refs |-> t.refs, version |-> project.version + 1]
              /\ result' = [result EXCEPT ![t.by] = "succeeded"]
              /\ UNCHANGED lost
           \/ /\ project' = [project EXCEPT !.version = @ + 1]
              /\ result' = [result EXCEPT ![t.by] = "failed"]
              /\ lost' = IF pc[t.by] = "poll" THEN lost ELSE lost \cup {t.env}
        /\ UNCHANGED <<pc, local, live, edition, born, shifted, overtaken, file>>

AfterDelete(c) == IF OpOf[c] = "replace" THEN "create" ELSE "done"

AfterPoll_NoRow(c) == \* Mutant: the row is left to the next update of the cache
    IF Adds(c) THEN "fetch" ELSE AfterDelete(c)

AfterPoll(c) == IF Adds(c) THEN "fetch" ELSE "deleteRow"

PollProject_AnyEnd(c) == \* Mutant: a task that has ended is taken for one that has succeeded
    /\ pc[c] = "poll"
    /\ Goto(c, AfterPoll(c))
    /\ UNCHANGED <<local, server, file>>

(* watch_project_task reads the task ten times and then returns nothing,    *)
(* which update_project does not take for a failure.                       *)
PollProject(c) ==
    /\ pc[c] = "poll"
    /\ Goto(c, IF result[c] = "failed" THEN "failed" ELSE AfterPoll(c))
    /\ UNCHANGED <<local, server, file>>

FetchOne_Early(c) == \* Mutant: the row is made of what was read before the change
    /\ pc[c] = "fetch"
    /\ Goto(c, IF mine[c] \notin live THEN "failed"
               ELSE IF OpOf[c] = "update" THEN "updateRow" ELSE "insertRow")
    /\ UNCHANGED <<local, server, file>>

(* add_one and update_one read the environment from the server, then write  *)
(* its row.                                                                *)
FetchOne(c) ==
    /\ pc[c] = "fetch"
    /\ IF mine[c] \in live
         THEN /\ copy' = [copy EXCEPT ![c] = edition[mine[c]]]
              /\ Goto(c, IF OpOf[c] = "update" THEN "updateRow" ELSE "insertRow")
         ELSE Goto(c, "failed") /\ UNCHANGED copy
    /\ UNCHANGED <<mine, read, listed, offset, server, file>>

InsertRow_Removed(c) == \* Mutant: a write to the removed file is taken for written
    /\ pc[c] = "insertRow"
    /\ schema = "current"
    /\ IF c \in stale THEN Goto(c, "done") /\ UNCHANGED rows
       ELSE IF mine[c] \in Cached THEN Goto(c, "failed") /\ UNCHANGED rows
       ELSE rows' = rows \cup {[env |-> mine[c], edition |-> copy[c]]} /\ Goto(c, "done")
    /\ UNCHANGED <<local, server, schema, stale, outrun, emptied>>

InsertRow(c) ==
    /\ pc[c] = "insertRow"
    /\ Writable(c)
    /\ IF mine[c] \in Cached
         THEN Goto(c, "failed") /\ UNCHANGED rows
         ELSE rows' = rows \cup {[env |-> mine[c], edition |-> copy[c]]} /\ Goto(c, "done")
    /\ UNCHANGED <<local, server, schema, stale, outrun, emptied>>

(* update_one changes the rows of the uuid, of which there may be none.     *)
UpdateRow(c) ==
    /\ pc[c] = "updateRow"
    /\ Writable(c)
    /\ rows' = {IF r.env = mine[c] THEN [r EXCEPT !.edition = copy[c]] ELSE r : r \in rows}
    /\ Goto(c, "done")
    /\ UNCHANGED <<local, server, schema, stale, outrun, emptied>>

Without(e) == {r \in rows : r.env # e}

(* delete_one raises when there is no such row *)
DeleteRow(c) ==
    /\ pc[c] = "deleteRow"
    /\ Writable(c)
    /\ IF mine[c] \in Cached
         THEN /\ rows' = Without(mine[c])
              /\ outrun' = outrun \cup {e \in {mine[c]} : \E d \in Command : HoldsListed(d, e)}
              /\ Goto(c, AfterDelete(c))
         ELSE Goto(c, "failed") /\ UNCHANGED <<rows, outrun>>
    /\ UNCHANGED <<local, server, schema, stale, emptied>>

-----------------------------------------------------------------------------
(* update cache.  The table is cleared row by row under one read cursor,   *)
(* which keeps other writers out; an error in between leaves some rows.    *)
ClearRows(c) ==
    /\ pc[c] = "clearRows"
    /\ Writable(c)
    /\ \/ rows' = {} /\ emptied' = FALSE /\ Goto(c, "list")
       \/ \E kept \in SUBSET rows : rows' = kept /\ Goto(c, "failed") /\ UNCHANGED emptied
    /\ UNCHANGED <<local, server, schema, stale, outrun>>

(* The entities of a page: those with offset .. offset + length - 1 older  *)
(* ones before them in the listing of the moment.                          *)
Page(from) ==
    {e \in live : Cardinality({x \in live : x < e}) \in from .. from + PageLen - 1}

(* The last page is the one after which nothing is left, by the number of  *)
(* entities the server reports with the page.                              *)
LastPage(from) == Cardinality(live) <= PageLen + from

ListPage(c) ==
    /\ pc[c] = "list"
    /\ listed' = [listed EXCEPT ![c] =
                     @ \cup {[env |-> e, edition |-> edition[e]] : e \in Page(offset[c])}]
    /\ IF LastPage(offset[c])
         THEN Goto(c, "insertRows") /\ UNCHANGED offset
         ELSE offset' = [offset EXCEPT ![c] = @ + PageLen] /\ UNCHANGED pc
    /\ UNCHANGED <<mine, copy, read, server, file>>

(* One autocommitted insert per entity; a row already there is an          *)
(* IntegrityError, which ends the sync of this table.                      *)
InsertListed(c) ==
    /\ pc[c] = "insertRows"
    /\ Writable(c)
    /\ \/ /\ listed[c] = {}
          /\ Goto(c, "done")
          /\ UNCHANGED <<listed, rows>>
       \/ /\ listed[c] # {}
          /\ \E l \in listed[c] :
               /\ \A k \in listed[c] : l.env <= k.env
               /\ IF l.env \in Cached
                    THEN Goto(c, "failed") /\ UNCHANGED <<listed, rows>>
                    ELSE /\ rows' = rows \cup {l}
                         /\ listed' = [listed EXCEPT ![c] = @ \ {l}]
                         /\ UNCHANGED pc
    /\ UNCHANGED <<mine, copy, read, offset, server, schema, stale, outrun, emptied>>

-----------------------------------------------------------------------------
(* clear cache (init_db_handle): the file is removed and a new one made;   *)
(* processes that have the old file open keep it.                          *)
Recreate(c) ==
    /\ pc[c] = "recreate"
    /\ rows' = {}
    /\ schema' = "current"
    /\ emptied' = TRUE
    /\ stale' = {d \in Command \ {c} : pc[d] \notin Ended \cup {"start"}} \cup stale
    /\ Goto(c, "done")
    /\ UNCHANGED <<local, server, outrun>>

Work(c) ==
    \/ Start(c) \/ BrokenTable(c)
    \/ CreateOnServer(c) \/ Resolve(c) \/ DeleteOnServer(c) \/ ReadEnv(c) \/ PutEnv(c)
    \/ ReadProject(c) \/ PutProject(c) \/ PollProject(c)
    \/ FetchOne(c) \/ InsertRow(c) \/ UpdateRow(c) \/ DeleteRow(c)
    \/ ClearRows(c) \/ ListPage(c) \/ InsertListed(c) \/ Recreate(c)

Terminated == (\A c \in Command : pc[c] \in Ended) /\ UNCHANGED vars

Next == (\E c \in Command : Work(c) \/ Fail(c)) \/ TaskEnds \/ Terminated

Spec == Init /\ [][Next]_vars

-----------------------------------------------------------------------------
Silent == \A c \in Command : pc[c] \in {"start", "done"}

Complete == Silent /\ ~ emptied => live \subseteq Cached

(* Whenever every command so far ended without an error, every environment *)
(* of the server is in the cache, however the commands interleaved, unless *)
(* an environment was deleted between two pages, or the file was replaced  *)
(* and no update cache has gone through since: update cache first clears   *)
(* and then lists, create adds its row after the server has the            *)
(* environment, and no command that still has the removed file open takes  *)
(* what it writes there for written.                                       *)
SilentMeansComplete == shifted = {} => Complete

(* Without the exception of the pages: list_all returns the list of         *)
(* entities.                                                               *)
ListsEverything == Complete

(* In the same situation the only rows left of deleted environments are of  *)
(* those whose row was deleted while an update cache had listed them and    *)
(* had yet to insert them: which takes a second update cache, that put the  *)
(* row there.                                                              *)
SilentMeansNoGhost == Silent => Cached \subseteq live \cup outrun

(* And the only rows out of date are of environments that were changed      *)
(* between being read for the cache and being written to it.               *)
SilentMeansFresh ==
    Silent => \A r \in rows : r.edition = edition[r.env] \/ r.env \in overtaken

(* The cache lists the server's environments as they are.                  *)
SilentMeansListed == SilentMeansComplete /\ SilentMeansNoGhost /\ SilentMeansFresh

(* And the project's list names the environments that exist, no others,     *)
(* but for those of a task that is still pending, or that failed when the   *)
(* command no longer waited for it: the read-modify-write of                *)
(* update_project_envs loses no update, and a failure that a poll could     *)
(* still see is reported.                                                  *)
SilentMeansAssociated ==
    Silent => \A e \in Env :
        (e \in live <=> e \in project.refs) \/ e \in lost \/ \E t \in change : t.env = e
=============================================================================
