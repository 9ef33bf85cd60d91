------------------------------ MODULE CacheTables ------------------------------
(***************************************************************************)
(* update cache (src/calm/dsl/store/cache.py): the tables of the local      *)
(* database, one for each kind of entity, are emptied and filled again from *)
(* the server, one after the other.  Their sync methods                     *)
(* (src/calm/dsl/db/table_config.py) go through the same calls and leave    *)
(* out one or the other: what each does is a record, the calls are actions. *)
(*                                                                         *)
(* The collections of the server do not change while tables are filled:     *)
(* LocalCache has a table whose collection does.                           *)
(***************************************************************************)
EXTENDS Administrators, FiniteSets, Sequences

CONSTANTS
    CacheRequest,    \* what an administrator may ask for
    CacheServer,     \* what the server may hold, and which tables its version and features enable
    PageLen,         \* bound: entities of a listing that asks for one page
    AccountLength    \* bound: accounts of one page when a project's are listed

VARIABLES
    cacheServer,     \* the server
    tableRows,       \* the rows of each table
    at,              \* the table each command is at
    toAsk,           \* the accounts it has still to list
    known,           \* the accounts of which it knows the infrastructure
    warned           \* history: tables whose last sync left an account out with a warning

cacheOwn == <<cacheServer, tableRows, at, toAsk, known, warned>>
cacheVars == <<cacheOwn, admins>>

-----------------------------------------------------------------------------
(* What "sync" does: goes by accounts - the clusters' (ahv), those of NDB,  *)
(* or those that projects may use; asks for all entities or for one page;   *)
(* raises, exits or goes on when they cannot be listed; looks something up  *)
(* for each row.                                                           *)
Sync(by, whole, fault, looksUp) == [by |-> by, whole |-> whole, fault |-> fault, looksUp |-> looksUp]

OnePage == Sync("none", FALSE, "raise", "nothing")
AllPages == Sync("none", TRUE, "raise", "nothing")
OfAccounts == Sync("ahv", FALSE, "raise", "nothing")
OfDatabases == Sync("ndb", TRUE, "raise", "nothing")
OfPolicies == Sync("none", FALSE, "exit", "nothing")

AccountCache == OnePage
ProviderCache == OnePage
ResourceTypeCache == OnePage
AhvClustersCache == OfAccounts
AhvVpcsCache == OfAccounts
AhvSubnetsCache == Sync("ahv", TRUE, "raise", "nothing")
AhvImagesCache == OfAccounts
ProjectCache == Sync("project", TRUE, "log", "account")
EnvironmentCache == Sync("none", TRUE, "raise", "subnets")
DirectoryServiceCache == OnePage
UsersCache == Sync("none", TRUE, "raise", "directory")
RolesCache == AllPages
UserGroupCache == Sync("none", FALSE, "raise", "directory")
AhvNetworkFunctionChain == OnePage
AppProtectionPolicyCache == AllPages
PolicyEventCache == OfPolicies
PolicyAttributesCache == OfPolicies
PolicyActionTypeCache == OfPolicies
TunnelCache == AllPages
NDB_DatabaseCache == OfDatabases
NDB_ProfileCache == OfDatabases
NDB_SLACache == OfDatabases
NDB_ClusterCache == OfDatabases
NDB_TimeMachineCache == OfDatabases
NDB_SnapshotCache == Sync("ndb", TRUE, "raise", "timeMachine")
NDB_TagCache == OfDatabases
GlobalVariableCache == OnePage
DomainsCache == AllPages

Syncs ==
    [account |-> AccountCache, provider |-> ProviderCache, resource_type |-> ResourceTypeCache,
     ahv_cluster |-> AhvClustersCache, ahv_vpc |-> AhvVpcsCache, ahv_subnet |-> AhvSubnetsCache,
     ahv_disk_image |-> AhvImagesCache, project |-> ProjectCache, environment |-> EnvironmentCache,
     directory_service |-> DirectoryServiceCache, user |-> UsersCache, role |-> RolesCache,
     user_group |-> UserGroupCache, ahv_network_function_chain |-> AhvNetworkFunctionChain,
     app_protection_policy |-> AppProtectionPolicyCache, policy_event |-> PolicyEventCache,
     policy_attributes |-> PolicyAttributesCache, policy_action_type |-> PolicyActionTypeCache,
     tunnel |-> TunnelCache, ndb_database |-> NDB_DatabaseCache, ndb_profile |-> NDB_ProfileCache,
     ndb_sla |-> NDB_SLACache, ndb_cluster |-> NDB_ClusterCache,
     ndb_timemachine |-> NDB_TimeMachineCache, ndb_snapshot |-> NDB_SnapshotCache,
     ndb_tag |-> NDB_TagCache, global_variable |-> GlobalVariableCache, domain |-> DomainsCache]

Table == DOMAIN Syncs

Registered_SnapshotsFirst == \* Mutant: snapshots come before the time machines they belong to
    <<"account", "provider", "resource_type", "ahv_cluster", "ahv_vpc", "ahv_subnet",
      "ahv_disk_image", "project", "environment", "directory_service", "user", "role",
      "user_group", "ahv_network_function_chain", "app_protection_policy", "policy_event",
      "policy_attributes", "policy_action_type", "tunnel", "ndb_database", "ndb_profile",
      "ndb_sla", "ndb_cluster", "ndb_snapshot", "ndb_timemachine", "ndb_tag",
      "global_variable", "domain">>

(* update cache goes through the tables in the order of their classes.      *)
Registered ==
    <<"account", "provider", "resource_type", "ahv_cluster", "ahv_vpc", "ahv_subnet",
      "ahv_disk_image", "project", "environment", "directory_service", "user", "role",
      "user_group", "ahv_network_function_chain", "app_protection_policy", "policy_event",
      "policy_attributes", "policy_action_type", "tunnel", "ndb_database", "ndb_profile",
      "ndb_sla", "ndb_cluster", "ndb_timemachine", "ndb_snapshot", "ndb_tag",
      "global_variable", "domain">>

(* An entity is under an account or a directory, or under none (0); a       *)
(* snapshot has the number of its time machine.                            *)
CacheRow == [id : Nat, under : Nat]

CacheOp == {"updateCache", "syncTables"}

(* The tables a command goes through.                                      *)
TablesOf(r) == IF r.op = "updateCache" THEN Registered ELSE r.tables

ASSUME CacheAssumption ==
    /\ \A r \in CacheRequest : r.op \in CacheOp /\ TablesOf(r) \in Seq(Table)
    /\ \A s \in CacheServer :
         /\ s.enabled \subseteq Table /\ s.stratos \in BOOLEAN /\ s.accounts \subseteq Nat
         /\ s.held \in [Table -> SUBSET CacheRow] /\ s.bare \subseteq Nat
         /\ \A t \in Table : Syncs[t].by \in {"ahv", "ndb"} =>
              \A e \in s.held[t] : e.under \in s.accounts

CacheStage == {"idle", "version", "clear", "accounts", "ask", "list"}

CacheTypeOK ==
    /\ cacheServer \in CacheServer
    /\ tableRows \in [Table -> SUBSET CacheRow]
    /\ at \in [Admin -> Nat]
    /\ toAsk \in [Admin -> SUBSET Nat]
    /\ known \in [Admin -> SUBSET Nat]
    /\ warned \subseteq Table

(* Start with rows of entities that are gone.                              *)
CacheStart ==
    /\ cacheServer \in CacheServer
    /\ tableRows = [t \in Table |-> IF t \in cacheServer.enabled THEN {[id |-> 0, under |-> 0]} ELSE {}]
    /\ at = [a \in Admin |-> 0]
    /\ toAsk = [a \in Admin |-> {}]
    /\ known = [a \in Admin |-> {}]
    /\ warned = {}

CacheInit == AdminsInit /\ CacheStart

-----------------------------------------------------------------------------
Held(t) == cacheServer.held[t]
Current(a) == TablesOf(request[a])[at[a]]

(* One page of a collection, in an order that is the server's.              *)
Pages(S) == IF Cardinality(S) <= PageLen THEN {S} ELSE {P \in SUBSET S : Cardinality(P) = PageLen}

Listings(t, S) == IF Syncs[t].whole THEN {S} ELSE Pages(S)

(* Of some entities those that get a row: an environment without a project  *)
(* and a cluster without an account of its Prism Element are passed over,   *)
(* with no more than a line of debugging.                                  *)
Belonging(t, S) ==
    IF t \in {"ahv_cluster", "environment"} THEN {e \in S : e.id \notin cacheServer.bare} ELSE S

(* list_all asks for pages of the given length until the total is within    *)
(* the limit of the last offset, which is the length by default only.       *)
Reached(total, length, limit) ==
    length * (1 + CHOOSE n \in 0..total : total <= limit + n * length
                                          /\ \A m \in 0..(n - 1) : total > limit + m * length)

(* The accounts a sync goes by, in the order of their creation.             *)
AccountListings(t) ==
    LET all == cacheServer.accounts
    IN  CASE Syncs[t].by = "ndb" -> Pages(all)
          [] Syncs[t].by = "project" ->
               {{c \in all : Cardinality({b \in all : b <= c})
                               <= Reached(Cardinality(all), AccountLength, PageLen)}}
          [] OTHER -> {all}

(* j comes next after i of the tables that are enabled, or is the end.      *)
NextEnabled(ts, i, j) ==
    /\ \A k \in (i + 1)..(j - 1) : ts[k] \notin cacheServer.enabled
    /\ j <= Len(ts) => ts[j] \in cacheServer.enabled

(* The next table is begun, or the command ends.                           *)
NextTable(a, Report(_, _)) ==
    LET ts == TablesOf(request[a])
    IN  \E j \in (at[a] + 1)..(Len(ts) + 1) :
          /\ NextEnabled(ts, at[a], j)
          /\ at' = [at EXCEPT ![a] = j]
          /\ Report(a, IF j <= Len(ts) THEN "clear" ELSE "idle")

(* update cache logs the exception of a table and takes the next; one that  *)
(* is asked for by name ends with it.  No connection ends every command.    *)
TableFails(a) ==
    \/ request[a].op = "updateCache" /\ NextTable(a, Complain)
    \/ Fail(a) /\ UNCHANGED at

CacheClash(r, q) == TRUE

(* Tables that are not enabled are passed over.                            *)
CacheBegin(a) ==
    /\ \E r \in CacheRequest :
         IF r.op = "updateCache"
           THEN Start(a, r, "version", CacheClash) /\ at' = [at EXCEPT ![a] = 0]
           ELSE \E i \in DOMAIN r.tables :
                  /\ r.tables[i] \in cacheServer.enabled
                  /\ NextEnabled(r.tables, 0, i)
                  /\ Start(a, r, "clear", CacheClash)
                  /\ at' = [at EXCEPT ![a] = i]
    /\ UNCHANGED <<cacheServer, tableRows, toAsk, known, warned>>

(* The server's version says which tables there are.  It is then read once  *)
(* more into a table of its own, whose failure is like that of any other.   *)
GetVersion(a) ==
    /\ stage[a] = "version"
    /\ NextTable(a, Proceed) \/ NextTable(a, Complain) \/ (Fail(a) /\ UNCHANGED at)
    /\ UNCHANGED <<cacheServer, tableRows, toAsk, known, warned>>

(* A table of NDB entities stays empty where there is no NDB.               *)
ClearTable(a) ==
    /\ stage[a] = "clear"
    /\ \/ /\ tableRows' = [tableRows EXCEPT ![Current(a)] = {}]
          /\ warned' = warned \ {Current(a)}
          /\ known' = [known EXCEPT ![a] = {}]
          /\ LET by == Syncs[Current(a)].by
             IN  \/ by = "ndb" /\ ~ cacheServer.stratos /\ NextTable(a, Proceed)
                 \/ by = "none" /\ Proceed(a, "list") /\ UNCHANGED at
                 \/ /\ by \in {"ahv", "project"} \/ (by = "ndb" /\ cacheServer.stratos)
                    /\ Proceed(a, "accounts")
                    /\ UNCHANGED at
       \/ TableFails(a) /\ UNCHANGED <<tableRows, warned, known>>
    /\ UNCHANGED <<cacheServer, toAsk>>

-----------------------------------------------------------------------------
(* The accounts whose answers are in, all of those asked.                   *)
AfterAccounts(a, Report(_, _)) ==
    \/ toAsk'[a] # {} /\ Report(a, "ask") /\ UNCHANGED at
    \/ toAsk'[a] = {} /\ Syncs[Current(a)].by = "project" /\ Report(a, "list") /\ UNCHANGED at
    \/ toAsk'[a] = {} /\ Syncs[Current(a)].by # "project" /\ NextTable(a, Report)

(* With the accounts, the network groups of a table of VPCs are listed.     *)
ListAccounts(a) ==
    /\ stage[a] = "accounts"
    /\ \/ /\ \E P \in AccountListings(Current(a)) : toAsk' = [toAsk EXCEPT ![a] = P]
          /\ AfterAccounts(a, Proceed)
       \/ TableFails(a) /\ UNCHANGED toAsk
    /\ UNCHANGED <<cacheServer, tableRows, known, warned>>

(* Of the snapshots of an account only those of time machines in the cache, *)
(* of its clusters those with an account of their own.                     *)
KeptOf(t, S) ==
    IF Syncs[t].looksUp = "timeMachine"
      THEN {e \in S : \E m \in tableRows["ndb_timemachine"] : m.id = e.id}
      ELSE Belonging(t, S)

(* What an account has is added to the table, or is known when it comes to  *)
(* projects.  An account that does not answer is left out with a warning -  *)
(* an error, when it is the account itself that cannot be read - except     *)
(* for the accounts of NDB.                                                *)
AskAccount(a) ==
    /\ stage[a] = "ask"
    /\ \E c \in toAsk[a] :
         LET t == Current(a)
         IN  \/ /\ Syncs[t].by \in {"ahv", "ndb"}
                /\ \E P \in Listings(t, {e \in Held(t) : e.under = c}) :
                     tableRows' = [tableRows EXCEPT ![t] = @ \cup KeptOf(t, P)]
                /\ toAsk' = [toAsk EXCEPT ![a] = @ \ {c}]
                /\ AfterAccounts(a, Proceed)
                /\ UNCHANGED <<known, warned>>
             \/ /\ Syncs[t].by = "project"
                /\ toAsk' = [toAsk EXCEPT ![a] = @ \ {c}]
                /\ \/ known' = [known EXCEPT ![a] = @ \cup {c}] /\ AfterAccounts(a, Proceed)
                   \/ UNCHANGED known /\ AfterAccounts(a, Complain)
                /\ UNCHANGED <<tableRows, warned>>
             \/ /\ Syncs[t].by = "ahv"
                /\ toAsk' = [toAsk EXCEPT ![a] = @ \ {c}]
                /\ warned' = warned \cup {t}
                /\ \/ AfterAccounts(a, Proceed)
                   \/ t = "ahv_cluster" /\ (AfterAccounts(a, Complain) \/ (Fail(a) /\ UNCHANGED at))
                /\ UNCHANGED <<tableRows, known>>
             \/ /\ Syncs[t].by = "ndb"
                /\ TableFails(a)
                /\ UNCHANGED <<tableRows, toAsk, known, warned>>
    /\ UNCHANGED cacheServer

-----------------------------------------------------------------------------
(* The directory of a user or a group is found in its table, or by a call.  *)
Cached(t, e) ==
    Syncs[t].looksUp = "directory" /\ \E d \in tableRows["directory_service"] : d.id = e.under

(* A row without what could not be looked up: a group is then left out, as  *)
(* is one without a directory, a user becomes a local one, a project or an  *)
(* environment is without the account.                                     *)
RowsFor(t, P, lost) ==
    LET row(e) == IF e.under \in lost THEN [e EXCEPT !.under = 0] ELSE e
    IN  {e \in {row(f) : f \in P} : t = "user_group" => e.under # 0}

(* What rows of P look up with calls of their own; a project looks its      *)
(* accounts up in what it knows, without a call.                           *)
LookedUp(t, P) ==
    IF Syncs[t].looksUp \in {"subnets", "directory"}
      THEN {e.under : e \in {f \in P : f.under # 0 /\ ~ Cached(t, f)}}
      ELSE {}

Unknown(a, t, P) ==
    IF Syncs[t].looksUp = "account" THEN {e.under : e \in P} \ known[a] ELSE {}

(* The entities are listed, what they refer to is looked up, rows are made; *)
(* no connection ends the command between the rows of two users.            *)
ListEntities(a) ==
    /\ stage[a] = "list"
    /\ LET t == Current(a)
       IN  \/ \E P \in {Belonging(t, Q) : Q \in Listings(t, Held(t))} :
                \E lost \in SUBSET LookedUp(t, P) :
                  /\ tableRows' = [tableRows EXCEPT ![t] = @ \cup RowsFor(t, P, lost \cup Unknown(a, t, P))]
                  /\ \/ lost = {} /\ NextTable(a, Proceed)
                     \/ lost # {} /\ NextTable(a, Complain)
           \/ \E P \in Listings(t, Held(t)) :
                \E made \in SUBSET P :
                  /\ LookedUp(t, P \ made) # {} /\ Syncs[t].looksUp = "directory"
                  /\ tableRows' = [tableRows EXCEPT ![t] = @ \cup RowsFor(t, made, {})]
                  /\ Fail(a)
                  /\ UNCHANGED at
           \/ Syncs[t].fault = "raise" /\ TableFails(a) /\ UNCHANGED tableRows
           \/ Syncs[t].fault = "exit" /\ Fail(a) /\ UNCHANGED <<at, tableRows>>
           \/ Syncs[t].fault = "log" /\ NextTable(a, Complain) /\ UNCHANGED tableRows
    /\ UNCHANGED <<cacheServer, toAsk, known, warned>>

CacheWork(a) ==
    GetVersion(a) \/ ClearTable(a) \/ ListAccounts(a) \/ AskAccount(a) \/ ListEntities(a)

CacheFinished == Exhausted /\ UNCHANGED cacheVars

CacheNext ==
    \/ \E a \in Admin : CacheBegin(a) \/ CacheWork(a)
    \/ CacheFinished

CacheSpec == CacheInit /\ [][CacheNext]_cacheVars

-----------------------------------------------------------------------------
(* What a table is to list: not what there is no use for (a snapshot of an  *)
(* unknown time machine, a group without a directory, an environment        *)
(* without a project, a cluster without an account); a project may still    *)
(* refer to a deleted account.                                             *)
Wholly(t) ==
    IF Syncs[t].by = "ndb" /\ ~ cacheServer.stratos
      THEN {}
      ELSE CASE t = "ndb_snapshot" -> {e \in Held(t) : \E m \in Held("ndb_timemachine") : m.id = e.id}
             [] t = "user_group" -> {e \in Held(t) : e.under # 0}
             [] t = "project" ->
                  {IF e.under \in cacheServer.accounts THEN e ELSE [e EXCEPT !.under = 0] : e \in Held(t)}
             [] OTHER -> Belonging(t, Held(t))

(* What the server holds is within the pages a sync asks for.               *)
Fits(t) ==
    /\ AccountListings(t) = {cacheServer.accounts}
    /\ CASE Syncs[t].by \in {"ahv", "ndb"} ->
              \A c \in cacheServer.accounts :
                LET S == {e \in Held(t) : e.under = c} IN Listings(t, S) = {S}
         [] OTHER -> Listings(t, Held(t)) = {Held(t)}

(* A command that names tables fills that of the snapshots after that of    *)
(* the time machines.                                                      *)
Grounded(r, i) ==
    TablesOf(r)[i] = "ndb_snapshot" =>
        /\ "ndb_timemachine" \in cacheServer.enabled
        /\ r.op = "updateCache" \/ \E j \in 1..(i - 1) : r.tables[j] = "ndb_timemachine"

(* update cache that logs no error leaves in every table exactly what the   *)
(* server has that can be used - but for a table that was warned about, and *)
(* one the server has more for than the sync asks for.                     *)
CacheEndsAsAsked ==
    [][\A a \in Admin : at'[a] # at[a] /\ EndsSilently(a) /\ ~ overlapped' =>
         \A i \in DOMAIN TablesOf(request[a]) :
            LET t == TablesOf(request[a])[i]
            IN  t \in cacheServer.enabled \ warned' /\ Fits(t) /\ Grounded(request[a], i)
                  => tableRows'[t] = Wholly(t)]_cacheVars
=============================================================================
