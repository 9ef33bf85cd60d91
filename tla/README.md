# calm-dsl in TLA+

calm-dsl is a command line client for Nutanix Calm. Users write blueprints, runbooks, projects,
environments, accounts and so on as Python classes; `calm` commands compile them to payloads, send
these to a server over HTTPS, and follow by polling what the server does with them. A local SQLite
database holds a cache of the server's entities (names are resolved to uuids with it while
compiling), the user's encrypted secrets and the server's version.

Each command is one sequential thread. What is hard about the program comes from around it: several
commands run at once, in several shells and by several users; the server and its other users move
between any two calls a command makes; a call can fail, or its answer can be lost after the server
has carried it out; every command can be interrupted; polls are bounded while the work they wait
for is not. Paths below are relative to `src/calm/dsl`.

## 1. Inventory

| part | code | state | operations | talks to | what is hard | what makes it correct |
|---|---|---|---|---|---|---|
| app launch | `cli/apps.py` create_app, `cli/bps.py` | temporary blueprint, launch request, application | upload, launch, poll the launch, delete the blueprint, find and watch the application | server | launch outlasts the polls; answer lost; others take the name; clean-up on every path | a launch is reported only if the server granted it; no blueprint left by a normal return; what is watched was launched since the name was found free |
| app operations | `cli/apps.py` | application, runlogs of its runs | resolve by name, delete, run action/patch, watch | server | several entities listed for a name; runlogs created while they are listed | acts on the application named; success and failure are final |
| runbook runs | `cli/runbooks.py`, `cli/runlog.py`, `cli/constants.py` | runbook, execution, its tree of runlogs | upload, run, poll the queue, watch, answer, pause, play, abort, rerun, delete the upload | server, user at the terminal, other viewers and controllers | answers and keys act on an old snapshot | verdicts are true of the execution; the upload is there while needed and gone afterwards |
| local cache | `db/`, `store/cache.py`, `cli/cache_commands.py` | 28 tables, one per kind of entity | add, delete, update one; clear and re-list; recreate the file | SQLite, server | two processes on one file; a listing in pages over a changing collection; old columns | if nobody complained, the cache is the server's collection |
| sync of the tables | `db/table_config.py`, `store/cache.py`, `providers/plugins/ahv_vm/main.py`, `api/user_api_mapper.py` | the tables, in one order | empty and fill each: one page or all, account by account, with look-ups in other tables or on the server | server | a failure half way, an account that does not answer, an order in which a table refers to a later one, a page that is the last one asked for | without an error, each table has what the server has that can be used |
| environments | `cli/environments.py` | server entity, the project's reference list, cache row | create, update, delete | server, cache, project | three places changed one after the other; read-modify-write of the project | the three agree, or somebody was told |
| secret store | `store/secrets.py`, `cli/secrets.py` | two tables | create, update, find, delete, clear | SQLite | two statements per operation, no transaction, no enforced reference | a secret has exactly its value, the one stored last |
| task graphs | `builtins/models/node_visitor.py`, `runbook.py`, `decompile/action.py`, `runbook.py`, `task_tree.py`, `decompile_helpers.py` | abstract syntax, DAG, task tree, text | visit, create_edges, order the tasks, indent and print | Python's parser | branches inside branches, decisions inside loops | edges mean what the program says; the decompiled text compiles to the same DAG |
| placement of AHV machines | `builtins/models/substrate.py`, `ahv_vm.py`, `ahv_vm_nic.py`, `ahv_vm_cluster.py`, `ahv_vm_vpc.py`, `calm_ref.py`, `decompile/substrate.py`, `ahv_vm.py`, `ahv_vm_nic.py` | the machine as written, its payload, its decompiled text | choose the account and the cluster's account, find cluster, subnets and VPCs, turn uuids into names | cache, project and environment | names come again in other clusters, VPCs and accounts; each is looked up apart; the server renames between two commands | account, cluster and networks belong together; the decompiled text means the same placement or is refused |
| other entity compilation and decompilation | `builtins/models/`, `decompile/` | classes, payloads | translate, validate | cache (references) | breadth | field by field |
| HTTP client | `api/connection.py`, `api/resource.py` | session | request with retries, page | server | a POST sent again | at most once per user's wish |
| projects | `cli/projects.py`, `cli/acps.py`, `builtins/models/helper/quotas.py` | project, quotas, access control policies, environments, cache row | create, update from a file or by switches, delete, add and remove users of policies, poll a task | server, policy engine, cache | several calls, no undo; ten polls, then silence; two administrators on one project | project, quota, environments, policies and cache agree |
| accounts | `cli/accounts.py` | account, provider, resource types, cache row | create, update, delete, sync, verify | server, cache | one entity after another; answers nobody looks at | no account without the provider it needs |
| network groups, tunnels | `cli/network_group.py` | tunnel, tunnel VM's application | create, reset, delete | server, app launch | a reset deletes the old application; nobody waits for a deletion | one working tunnel VM |
| marketplace | `cli/marketplace.py` | items by name, version, type, state | publish, approve, reject, unpublish, delete | server | found by state and not always by type, changed by uuid | transitions only from the right state |
| entities by name | `cli/bps.py`, `runbooks.py`, `endpoints.py`, `library_tasks.py`, `global_variable.py`, `providers.py`, `scheduler.py`, `policy.py`, `users.py`, `groups.py`, `network_group.py` | server entities, cache rows | create, with --force delete first, update, delete several | server, cache | check and creation are two calls; secrets are patched in later; the delete succeeds and the create fails | one entity per name, with its secrets and its row |
| configuration, context, version row | `config/`, `store/version.py` | files, two rows | read layers; rewrite rows | files, server | little | lookup order |
| single-call commands | roles, directory services, approvals, protection policies, brownfield, enabling and disabling | server entity | one call each | server | – | – |
| terminal and formatting | `providers/`, `log/`, `init/`, `tools/`, `cli/main.py` … | none | questions, tables, templates | terminal | – | – |

How parts interact: every command reaches the server through the HTTP client. App launch compiles
a blueprint (with the cache), uploads it, and afterwards uses the app watch. Environments,
projects, accounts, providers, users and tunnels change the server, then the cache; `update cache`
fills it again as a whole. Projects keep a quota in the policy engine, a list of their environments
and the users of their policies, each changed by calls of its own. A publication in the marketplace
goes on as an approval and a publication of the item found anew. The tunnel of a network group runs
in an application, which the command waits for and a reset deletes. Runbook runs upload and delete
runbooks. The secret store and the cache share a database file, which `clear cache` removes.

`PROJECT.json` has the same list with a status for each part, and under "hazards" the places
where something can go wrong that a test would hardly reach.

## 2. Modules

| module | models | size of its state space in the runs |
|---|---|---|
| `AppLaunch` | create_app with the server and other users | 117 000 |
| `LaunchContract` | abstract: what create_app promises about a launch | (refined by AppLaunch) |
| `AppActions` | delete app, run action / run patch and their watch | 8 000 |
| `RunbookRun` | run and watch a runbook; pause, play, abort; reruns | 360 000 |
| `LocalCache` | environment table; create, also with --force, update and delete environment, update cache, clear cache; the task of the project | 1 930 000 |
| `SecretStore` | secrets in the local database | 156 000 (with symmetry) |
| `TaskGraph` | compile and decompile the body of a runbook or an action | part of Compilation |
| `Placement` | compile and decompile where an AHV machine is put, and compile that again | part of Compilation |
| `Compilation` | the two together, a behaviour translating one | 122 500 |
| `Administrators` | what the commands of the modules below share: a command, its calls, its errors | (extended) |
| `Projects` | create, update and delete a project, its policies, quota and environments | part of Administration |
| `Marketplace` | publish, approve, publish to the store, update, reject, unpublish, delete items of one name | part of Administration |
| `Catalogue` | create, update, delete entities by name: eleven kinds | part of Administration |
| `Accounts` | create, update, delete an account with its provider and resource type | part of Administration |
| `NetworkTunnels` | set up, reset, delete the tunnel of a network group | part of Administration |
| `CacheTables` | update cache: the sync of each of 28 tables | part of Administration |
| `Administration` | the six together, a behaviour working on one | 876 000 |
| `AppLaunchProofs`, `AppActionsProofs`, `RunbookRunProofs`, `LocalCacheProofs`, `SecretStoreProofs`, `CompilationProofs`, `ProjectsProofs`, `AdministrationProofs` (Marketplace, Catalogue, Accounts, NetworkTunnels, CacheTables and all together) | theorems | – |
| `MC…` | instances for TLC | – |

Components meet only through the server and the local database, so each module has the commands
of its own component and, as environment, every server step and every other command that touches
the same state. LocalCache composes environments, project and cache; Administration composes what
administrators do, where a command may be any of six areas' and the areas share the commands'
state; Compilation puts the two translations side by side; all three are checked as a whole. In a module, `Next` is a disjunction of the program's actions (one per call or per
statement, since everything else may move in between), the user's, the server's, failures and
interruptions, and a last disjunct that lets finished behaviours stutter. Variables marked
*history* in a module's comments are not in the code: no guard of the program reads them.
Operators with a comment `Mutant` are plausible mistakes: each is used in place of its original to
see that the property notices.

### AppLaunch
`pc` walks through create_app: name check (`start`), `create`, `fetch`, `launch`, `poll`,
`cleanup`, `find`, `watch`. `bp`, `request` and `app` are the server's blueprint, launch request
and application, one per command that made them; `verdict` is `app_launch_state`; `polls` counts
the iterations of both loops. Upload and launch have outcomes for a refusal and for an answer lost
after the server took the request. `Abort` is an exception, sys.exit or ctrl-c anywhere: nothing
deletes the blueprint on the way out, as in the code. Other users may edit or delete the blueprint
and delete applications. `Matches` has the names that the server's filter lets through for a name:
at least that name, and in the run the other one too. The name check refuses when anything is listed;
the watch takes whichever comes first (`FindApp`). `before` (history) has the applications that
were there when the command found its name free. Not in the model: compiling the blueprint, and the editing of runtime
variables before the launch (data).

### LaunchContract and the refinement
The abstract module has two variables: the request and how far the command is in its user's eyes.
`KeepsLaunchContract` states AppLaunch's specification under the mapping `Phase` (from `verdict`
and `pc`): a launch is reported only on the server's success, giving up says nothing of the
request, and nothing is asked twice.

### AppActions
`Resolve` is `_get_app`: any of the entities that the server's filter lists may come first, and the
listing may fail. Deletes go through their names one after the other and stop at the first error, also
when it is the answer of a deletion that was carried out; the answer to a run may be lost, too; action and patch act on the
uuid read before, then the watch resolves the name again and polls runlogs, which it filters by run
(nothing is listed if it resolved to another application). `Verdict` is the loop over the runlogs
in order of creation: the first one that failed or has not ended decides.

### RunbookRun
One runner, who may upload the runbook from a file and may watch, any number of watchers of the
same execution (`watch runbook-execution`) and of controllers (pause, play, abort as commands of
their own). A poll stores a snapshot (`seen`); the user's answers, space key and the code's decision
follow as later steps that use the snapshot, because the prompts are open for as long as the user
likes. `overtaken` is the set of viewers whose last poll was before somebody's rerun. Upload and run may be
carried out and reported as an error. Terminal
states are those of `RUNLOG.TERMINAL_STATES`, so TIMEOUT is not one. The rerun prompt of a watch is
bounded by `MaxReruns`.

### LocalCache
Environments are numbered in order of creation, which is the order of the listing, and have an
edition that an update on the server raises. A row is an environment with the edition it was made
from; `copy` is the edition that a command has fetched and will write, `overtaken` (history) the
environments that changed while a command held what it had read of them, `outrun` (history) those
whose row was deleted while a command had them listed and not yet inserted. `replace` is create with --force: it deletes
the environment of that name, takes it out of the project and the cache, and goes on as a create.
`read` is the copy of the project that update_project_envs changes and puts back. The put starts a task
of the server (`change`, one at a time) that takes effect, or fails, at any time (`TaskEnds`); the
command polls it and goes on without a word when the polls run out (`PollProject`). `lost` (history) has
the environments of tasks that failed when nobody waited for them any more. `listed` and
`offset` are list_all's; `rows` and `schema` are the table in the file; `stale` has the processes
whose handle is on a file `clear cache` removed, `emptied` (history) says that no update cache has begun
since. A table with another release's columns (`schema =
"old"`) can be read but not written. Here the collection changes while it is listed; CacheTables has
the other tables, over collections that do not.

### SecretStore
Each statement is a step: a create is a list, an insert into SecretTable and an insert into
DataTable. The reference is not enforced by SQLite and nothing makes it unique. `Interrupt` is the
process killed between two statements. `latest`, `interrupted` and `overlapped` are history.

### TaskGraph
A state is one program on its way: `written`, then `compiled` or `rejected` (create_edges raises,
or the visitor refuses a block), then `decompiled` or `failed` (KeyError), then `recompiled` or
`unreadable`. A program is a sequence of lines as Python reads them: the block of a line is what stands
deeper below it. `Legible` says that Python can parse it, `WellFormed` what stands in the block of a
`with`, an `if` or an `else`, `Visitor` which GetCallNodes a line is visited by; tasks are numbers. The
payload has the edges, the children of the dag task, the task list, and the meta tasks with their paths.
`From` is what create_edges passes along while it walks the list: the tasks of the last item before a
line or, as they are handed down to the first tasks of branches, before a block it is in; no recursion
is needed to say so. Decompilation walks the graph (`TaskChildMap`, `Decompiled`, `Lines`: recursive
functions) and its text is a program again, read with its indentation. In the task list the code puts a
decision after what is in it; nothing reads that order, and the model does not keep it.

### Placement
A state is one machine on its way: `written`, then `compiled` or `refused`, then `decompiled` or
`lost` (decompile ends because something is not there), then `recompiled` or `estranged` (the text is
refused). `world` is what the server has, as the cache lists it: subnets, clusters with the account
that serves them (`pe`), VPCs, what the project and the profile's environment allow, and the accounts
`listed`. A machine has a home (a profile with an environment or without), maybe an account, maybe a
cluster, and NICs with a subnet and maybe a cluster or a VPC, all by name; any may be a macro.
`Finds` is the look-up of each NIC, which takes any of the rows its query selects, `PeAccounts` the
choice of the account that serves the machine, `NicFits`, `ClustersOf` and `NetworksAgree` the
checks; `Compilations` has the payloads that may come out and `Refused` whether it may be refused. Once
after compilation and once after decompilation the server may move to any other of the worlds (`moves`
is history) and the cache follows. Left out: provider specs in YAML, machines written in an environment
file, disks, function chains, guest customization, a change of the project in between.

### Compilation
`subject` says which of the two is translated; they share no state.

### Administrators
A command is a `stage` and a `request`; `Start`, `Proceed`, `Complain` (an error is logged and the
command goes on), `Fail` (it ends with one) and `GiveUp` (a poll ends before its task, which is no
error) are the only ways to move it. A call that changes something may be carried out, refused, or
carried out and reported as an error. Histories: `complained`, `patient` (no poll gave up),
`overlapped` (two commands ran at the same time that nobody means to: each module says which, in its
`…Clash`).

### Projects
The server works on one task of a project at a time and takes a change only of the version it holds.
A command submits a task and polls it; `TaskEnds` decides. `Read` keeps a copy, `Put` puts it back
changed; the quota is set before the project is put, the environments are created before the update
that lists them, the users taken out of a project are taken out of its policies by a second task
whose end nobody looks at (`unnoticed`). `Wanted`, `Dropped` and `Joined` are what the commands make
of a project. A quota listing that fails is taken for none, after an error in the log, and a second quota
is created. When a command has ended with an error no further one is started: what follows an
error is not the subject of a property.

### Marketplace
The items of one name, each a version of a blueprint or of a runbook, in families. A publication of a
blueprint searches the blueprints of the name, one of a runbook all its items (`Rivals`); it checks that
the version is new, posts the item into a family of its own or the one it found, and may go on to
approve and publish it, finding it again by version and state each time and, as the code passes no type
then, of any kind (`Find`, `Candidates`). Every other command finds an item of its kind, or of any when
none is given (`unpublish_marketplace_item` with no type), and changes it by its identity (`Change`),
where its state is not looked at again. `Sought` is the state a verb looks for; `TakenOver` and
`ChangedItem` are the projects and the state an item ends in. Projects are counted, because an approval
appends those it is given to those there are, and an unpublication takes out the first occurrence only.
Unpublishing all versions lists the `MemberCount` latest (20 in the code) and unpublishes these.

### Catalogue
The commands on named entities make the same calls in the same order, and each kind leaves some out.
What a kind does is a record made from its own functions: whether create checks the name, looks
something up after a forced deletion, patches secrets in after the creation, adds a row; how delete
finds an entity (a call, one listing of all, the cache), whether it spares one in use, polls a task,
and when rows go. The calls are the actions; `kind` is chosen once. Rows that cannot be taken out of
the cache stay: `delete provider` and a forced `create provider` only warn about them
(`providers.py:734`). A tunnel may be renamed: a call changes it on the server, another its row.

### Accounts
An account with a credential provider is three entities, made in the order provider, resource type,
account and deleted in the order resource type, account, provider. The answers to three of these
calls are not looked at (`unheeded`). A `custom` account is that of a provider made before:
delete_account deletes nothing of it and drops its row. `nature` also tells AHV accounts, for which the
cache lists the accounts anew. A deletion polls the task that offboards the account, and ignores an
error of the cache (`accounts.py:711`): the row may stay.

### NetworkTunnels
A set-up or reset is a task that launches an application; the command polls the task, then the
application, and a reset asks to delete the application the tunnel ran in before. Either poll may give
up; only a failed task ends the command. `delete network-group-tunnel` runs an action of the
application that takes it and the tunnel away. Nobody waits for either deletion, and it may fail later
(`RemovalEnds`, `AppEnds`).

### CacheTables
`Syncs` has what the sync method of each table does: go by accounts (clusters', NDB's, those projects
may use) or not, ask for all pages or for one, raise, exit or log when the listing fails, look
something up per row. `Registered` is the order of the tables. Rows are an entity and what it is under
(an account, a directory, nothing); a snapshot has the number of its time machine. `Reached` is
list_all's arithmetic for a page length that is not the default. `Belonging` is what of a listing is
used: an environment without a project and a cluster without an account of its own are passed over
without a word. `warned` has the tables of which an
account was left out with a warning.

### Administration
`area` is what the administrators of a behaviour work on. An area's step leaves the others' state as
it is, which is what lets the theorems of each area hold in the whole.

## 3. Runs

Every bound below is a constant in a `.cfg`. Two is the number of polls that distinguishes "the
first poll", "a later poll" and "no poll left", and two tasks distinguish "the next task is not
created yet" from "all are there".

| run | instance | shows |
|---|---|---|
| app_launch | 2 commands for two names that the filter takes for the same, one brownfield, both watch; 2 launch polls, 1 watch poll | no blueprint left by a normal return or deleted under a pending launch before all polls, no older application watched, the contract is kept, every command ends |
| app_launch_timeout | 1 command | **violated**: False from poll_launch_status does not imply that the launch failed |
| app_actions | a delete of two names, a watched action; two applications of one name, one system application; 2 tasks, 2 polls | success and failure shown are those of a run that has ended, with the tasks created late |
| app_exact_match | 1 delete; the filter also lets a longer name through | **violated**: with several listed, the exact match is overwritten by the first entity |
| runbook_run | runner with all options, 1 watcher, 1 controller; 2 tasks, the second asks for input; 2 polls, 1 rerun | verdicts from snapshots are right, the upload lives as long as it must, the watch comes to its end or a question |
| runbook_space | the runner alone, 1 task | **violated**: space on a runlog that has just ended raises |
| local_cache | a create, a forced create, an update, an update cache, a clear cache; 2 environments, 4 ever, pages of 2; current and old columns; up to the first error | when nobody complained, cache, project and server agree, and rows have the edition the server has |
| local_cache_schema | a create, an update cache, old columns | **violated**: the recreation the comment promises does not take place |
| local_cache_skip | a delete during an update cache, pages of 1 | **violated**: list_all misses an environment that existed all along |
| secret_store | 2 processes, 2 secrets, 2 values, any 4 commands | values and secrets stay together through any interleaving and interruption, unless a deletion overlaps |
| compilation | every program of up to 3 tasks with all kinds of block; up to 5 tasks with nested branches; 4 with decisions and loops three deep; as runbook and as action. Machines with one or two NICs of nine kinds, five ways to give a cluster, three to give an account, in four worlds: names shared between clusters, VPCs and accounts; names exchanged; things withdrawn; accounts of clusters not in the cache | edges keep the program's order and no more; compile, decompile, compile is the identity where the documents say it is supported; account, cluster and networks of a machine belong together, and its decompiled text keeps its placement or is refused |
| administration | 2 administrators, 2 commands between them, in one of six areas | what a command that reports no error has done, and what holds whatever it reports |
| market_own | 1 administrator, 2 commands | **violated**: `publish … --publish_to_marketplace` can approve and publish a pending runbook of that name and version and leave the blueprint pending, without an error |
| market_all | the same | **violated**: versions beyond the listing stay published |
| tunnel_reset | the same | **violated**: when the poll gives up, a reset asks to delete the application the tunnel still runs in |
| tunnel_failed | the same | **violated**: the old application is deleted although the new one has failed |
| cache_page, cache_accounts | the same, more accounts than a page | **violated**: entities beyond the first page, and accounts beyond the last one asked for, are missing without an error |

Why the bounds are enough: one more command, poll, task or process adds behaviours but no new pair
of (actor, stage); the theorems of section 5 remove the bounds altogether for all but
liveness and DecompileKeepsProgram. In local_cache up to four environments and pages of two give a second page, a page that
is full to the last place, and a shift of the offset. Nesting in compilation reaches every pair of
block kinds, and three levels where indentation is computed from depth. Two NICs are a first one that
names a cluster and another, and every pair that must agree; two clusters and two VPCs of one account
and one of each in another have every look-up meet a namesake, and two worlds with the names exchanged
let a name mean something else at the second compilation.

In administration two commands are every pair that can meet, one after the other or at once; a third
would meet the state they leave, which the initial states (nothing, one or two entities, a whole
account, a running tunnel) stand for. There are two users, quotas, projects to share with, names and
descriptions: as many as it takes to add one and remove another. In the area of the cache the tables
are filled one at a time, or two of which one looks something up in the other, with two entities in
each (a page, exactly), with three for those that ask for one page or go by accounts (more than a
page), and with one for a server without NDB; accounts of projects are listed with a shorter length
than the limit, as in the code. A family in the marketplace starts with up to three published versions
and a listing returns two of them (`MemberCount`).

### What the properties say
- *app_launch*: `NoBlueprintLeftByReturn`, `WatchesALaunchedNamesake`, `PatientCleanup` (a blueprint is
  deleted under a pending launch only after all polls), `CommandsEnd`, `KeepsLaunchContract`.
- *app_actions*: `ReportIsTrue` – a success or failure shown is that of a run that has ended, with
  all its tasks.
- *runbook_run*: `VerdictIsTrue`, `RunbookIsCleanedUp`, `DeletedMeansOver`, `WatchEnds`.
- *secret_store*: `ValuesBelong` (no value without its secret, one per secret), `EmptyMeansInterrupted`,
  `FindsLatest`.
- *local_cache*: `SilentMeansListed` (the rows are the server's environments in their editions),
  `SilentMeansAssociated` (so is the project's list), `SilentMeansCurrent` (no handle on a removed file
  went unnoticed).
- *compilation*: `EdgesKeepOrder`, `PlainProgramsCompile`, `DecompileKeepsProgram`; `PlacedTogether` (the
  account that serves a machine serves the cluster of each of its VLANs, and every network is in the
  account above it and allowed), `DecompileKeepsPlacement` (what decompile writes compiles to the
  payload it came from, whatever was renamed since, or is refused; and is not refused if nothing
  changed).
- *administration*, invariants: `MembersOnly` (nobody has a role in a project he is not a user of),
  `QuotaAgrees`, `ListsAgree` (the cache lists the project and the project its environments),
  `OneLiveVersion`, `OnePerName`, `AccountHasProvider`; actions: `ProjectEndsAsAsked`,
  `MarketEndsAsAsked`, `CatalogueEndsAsAsked`, `AccountEndsAsAsked`, `TunnelEndsAsAsked`,
  `CacheEndsAsAsked` (a command that logs no error has done what it was asked for, with all the parts),
  `KeepsTheTunnelRunning`; liveness: `CommandsEnd`.

Deadlock is checked in all runs but compilation, where what has gone through the pipeline
is finished. A deadlock in the others would be a command stuck in the middle.

### Preconditions that properties state
- Cache properties are about behaviours in which no command reported an error (`Silent`): the code
  does not undo anything, and promises nothing once it has complained. SilentMeansListed also
  leaves out a listing during which an environment was deleted between two pages (the finding
  below) and a cache that was cleared.
- The secret store's are about databases where no deletion overlapped with another command. Such an
  overlap does leave orphans; nothing in the code or its documents says otherwise.
- DecompileKeepsProgram is about graphs in which no task has two parents ("Decompiling Blueprints"
  in docs), runbooks and actions without the blocks node_visitor.py:61 says they do not have, and
  decisions and loops without an empty path (those end in a KeyError at task_tree.py:35).
- PlacedTogether and DecompileKeepsPlacement are about machines that say their cluster, themselves or
  in each of their NICs (`SaysItsCluster`); the second, where the account of the cluster is in the cache
  (otherwise decompile leaves the account out, see section 7), and nothing moves between decompilation
  and the compilation of its text.
- SilentMeansListed leaves out, besides, rows of a command that was overtaken: two updates of an
  environment may write their rows in the other order (update_one writes what it fetched); and rows of
  environments that are gone, if a command was outrun: with two `update cache` the second may have listed
  an environment that is deleted, with its row, before the second inserts it again. The run has one
  `update cache` and does not meet this; the proof did.
- The properties of administration are about commands that logged no error, and not about overlaps
  that a `…Clash` names (nothing is locked, and nothing in the code says otherwise): two publications
  into one family, two commands on one name, any two on an account or a tunnel. MembersOnly needs no
  such condition. `patient` leaves out polls that gave up: the code does not notice, which the
  hazards list. `unnoticed` and `unheeded` leave out a failure nobody looks at.
- MarketEndsAsAsked leaves out versions of a family beyond the number that a listing returns: an
  unpublish of all versions does not reach them, and says nothing.
- CacheEndsAsAsked leaves out tables with more entities than the one page a sync asks for (`Fits`; for
  accounts of projects, more than list_all reaches), tables an account was left out of with a
  warning, and snapshots asked for without their time machines (`Grounded`).

### What is assumed of the server and of SQLite
- An update of a project with an old `spec_version` is refused, an accepted one takes effect at
  once; an upload, a launch or a delete is carried out once or not at all.
- The runlog of a run itself is the first one created, and stays RUNNING until its tasks have ended;
  a failed task stops the run. If this were not so, a watch could report a success in between.
- Answer, pause and play take effect at once; a call that comes too late changes nothing; a rerun
  keeps the runlog and runs the tasks that did not succeed.
- Pages are cut by offset from the listing of the moment, ordered by creation.
- A statement of SQLite is atomic; a write to a removed file fails.
- A project, and a network group, has one task at a time; a task may stay pending for ever.
- A put of a marketplace item is refused unless it was made from the version the server holds, so
  that reading and putting it are one step; versions are listed latest first.
- Names are not kept unique, except those of projects.
- Collections stay as they are while CacheTables fills its tables.
- Clusters and VPCs have one name each in an account, subnets in a cluster or a VPC; uuids are unique;
  a subnet in a cluster has no VPC (the cache's create_entry takes one or the other) and is in the
  account of what it is in (`WorldAssumption`).
- Between two commands the server renames things and withdraws them, and moves nothing to another
  account, cluster or VPC; the account that serves a cluster stays below one account
  (`ServerAssumption`).
- Programs can be parsed, put into their blocks what belongs there, and give every task a name of its
  own (`ProgramAssumption`): the payload refers to tasks by name and decompile keeps them in
  dictionaries by name, so that a program with two tasks of one name has no graph of its own.
- Only a project's file says quotas, which is what `create project` and `update project --file` read
  (`ProjectsAssumption`).

## 4. Fairness

Only weak fairness of the program's own steps is assumed, per command: `CommandStep(c)` in AppLaunch
and AppActions, `ViewerStep(v)` in RunbookRun, `AdministrationWork(a)` in Administration. A command is a sequential
loop that sleeps a fixed time between polls, and each request has a timeout, so a step that is
possible is taken; one of its steps is enabled in every stage before its end. Nothing is assumed of
the server, the other users, interruptions, failures, or of the user at the terminal: commands end
because their polls are counted, not because anyone answers. WatchEnds therefore says only that
a watch reaches its end or a question to its user. In Administration no task
of the server need ever end. LocalCache, SecretStore and Compilation have no liveness property and no
fairness: their commands make a bounded number of calls and wait for nothing.

## 5. Proofs

All theorems hold for every value of the constants under the `ASSUME`s of the modules (sizes are
naturals, names and processes are kept apart, sentinels are not values, requests are well formed).
None assumes fairness. Each component has an inductive invariant of named parts (`…IInv`) and one
lemma per action that it preserves it.

**AppLaunchProofs.** The properties are not inductive alone: that a give-up came after all polls
needs to know that no verdict exists while polling and that the counter never passes MaxPolls; that
a watched application was launched needs to know that only launched requests have live
applications. `StageInv` states what each stage of a command knows. Theorems: TypeCorrect,
VerdictSound (a launch is reported only if the server granted it), WatchSound, OwnWatchSound (a
command whose name nobody else asks for watches its own application), GivingUpSound, CleanReturn;
CleanupIsPatient (an action property, from IInv); and ImplementsContract: each step of AppLaunch is,
under `Phase`, a step of LaunchContract for one command or a stutter.

**AppActionsProofs.** `RunInv`: the runlog of the run comes before its tasks and stays open as long
as one of them is. A listing in which everything has succeeded therefore includes the run itself,
and ReportSound follows whatever was created between two polls. Theorems: Invariant, TypeCorrect,
ReportSound.

**RunbookRunProofs.** The argument is about snapshots. `Evolves` says how the server may change an
execution: success is final, failure is final until a rerun, which puts every viewer into
`overtaken`, and reasons stay. It is proved once for each server step and each call
(ServerEffect); snapshots, verdicts and the runner's runbook are then stable under it (SameShape,
RunlogsShape, FailureRead and SuccessRead say what the list of runlogs of a snapshot allows to
conclude). Theorems: Invariant, TypeCorrect, VerdictSound, UploadIsCleanedUp, UploadOutlivesItsRun.

**SecretStoreProofs.** `AtWork` says that a process in a stage has the arguments for it; `Alone`
that, without an overlap, a process that deletes is the only one at work; `OneCreator` that between
the two inserts a secret has no value and one creator; `ValuesGoFirst` that a secret is deleted
after its values; `TablesAgree` and `EmptyExplained` are the invariants wanted, strengthened by the
value stored last. All but the first are needed only while no deletion has overlapped. Theorems:
Invariant, TypeCorrect, ValuesBelongToSecrets, OnlyInterruptedIsEmpty and FindIsCurrent.

**LocalCacheProofs.** Each difference between server, project and cache, while nobody has complained,
is one that some command has yet to settle, and the invariant says which. `AssociatedInv`: an
environment that is on the server and not in the project's list, or the other way round, is some
command's whose change of the project is to come or has failed; a copy of the project that is of the
present version is the project (`ReadOK`), so that a put which is accepted undoes nobody's change.
`CompleteInv`: an environment that is missing in the cache will be brought by a command that made it, or
by one that lists and has not paged past it (`Unpaged`, a count of what comes before it), or holds it
listed. `GhostInv`: one that is gone and still in the cache, or held by somebody who will insert it, is
about to be removed by the command that deleted it. `HeldCurrent` and `RowsCurrent` say the same of
editions. When all have ended nothing is left to settle. Theorems: CacheInvariant, CacheTypes,
SilentMeansListedHolds, SilentMeansAssociatedHolds, SilentMeansCurrentHolds, for any number of
environments and any length of page.

**CompilationProofs.** *Task graphs.* EdgesKeepOrder says of every program, of any length and depth, that
a path of edges leads from one task to another exactly if the program has the first before the second.
`Reach` is the least closed set, so that this needs no induction over paths. Blocks given by indentation
lie in one another or apart (`Nested`, `Siblings`, `FirstIsOutermost`, `OneParent`). *Nothing waits that
need not:* an edge joins only tasks the program orders (`LeadsOrdered`), and that order is transitive
(`OrderedTrans`); so what comes after a task is a closed set. *No order is lost:* a task that comes
before another has an edge to it, or comes before one that has (`LastBefore`); this is where it matters
that nothing stands after a block with branches, as create_edges would have raised, and that a block
of parallel tasks is not empty. The least line that should be reached and is not would
therefore be reached (`EdgesOrder`). The edges are gathered by FlattenSeq, a recursive function of
the library; that there is such a function is shown by a least counterexample (`FlattenIs`,
`FlattenHolds`). `PlainAccepted` goes through the visitor's checks. Theorems: GraphInvariant,
EdgesKeepOrderHolds, PlainProgramsCompileHolds.

*Machines.* `WasCompiled`: what was compiled from a machine that says its cluster is a row of
clusters and one of subnets for each NIC, of one account, in one of the worlds; that names, not uuids, were
looked up, and each apart, is where an error could come in. It stays true as nothing moves (`Stands`).
From the worlds' assumptions then follows that a uuid which is turned into a name is found again by
it, in the cluster, VPC and account that the text gives (`TextSays`, `TextFindsBack`, `SameAgain`); and
that if nothing moved neither direction stops (`NotLost`, `NotRefused`). The choice of the first NIC
that names a cluster is a least element, which exists by well-founded induction. Theorems:
PlacementInvariant (of Placement alone), PlacedTogetherHolds, DecompileKeepsPlacementHolds.

**ProjectsProofs.** A *stranger* is somebody with a role in a project he is not a user of. There are
strangers on the way: an update takes a user out of the project first and out of its policies by a
second task. `StrangersGo` says that somebody sees to every stranger there is, and to every one a
pending task will make, other than by that task: a command between its put and its clean-up, whose
copy of the project still has him as a user. That a second command cannot bring him back unseen is
the version check of the put. Once all is quiet there is nobody left to see to one, hence MembersOnly.

What QuotaAgrees, ListsAgree and ProjectEndsAsAsked rest on is `AgreeIInv`. While nobody complained, no
poll gave up and no two commands overlapped that must not (`Orderly`), every difference between the
project, its quota in the policy engine, its environments and the cache is one that a command at work
has yet to settle: a quota that was set and whose project is to be put (`Unsettled`), a row to be
written (`RowPending`), an environment whose project is to be updated (`Joins`). A copy of a project is
never newer than the project, and what a task will make of it is what the command wants, or else what
was there. Theorems: ProjectInvariant, ProjectTypes, AgreementInvariant; what follows for the
specification of all areas is stated there.

**AdministrationProofs.** Marketplace: identities are handed out once (`ItemsDiffer`); while no commands that clash
have overlapped (`Apart`), a version about to be published is free (`StillFresh`) and an item about to
be changed is still in the state it was looked for in (`StillSought`). What a command has done so far
is `MarketAtWork`: a publication is after the one version it was asked for, whatever commands it has
become (`PublishesOne`), and what is still published while all versions are unpublished is still to be
found, in hand, or behind as many later versions as a listing returns (`StillPublished`). With it, the
step that ends a command without an error is the one asked for (MarketEndsRight). Theorems:
MarketInvariant, MarketTypes, MarketOneLiveVersion.

Catalogue: a name found free stays free until its entity is created (`NameFree`), because the
commands that may create it are on other names (`ApartInNames`), and the one entity that --force
deletes is the only one of its name (`OldOneFound`). What a command has done so far is
`CatalogueAtWork`: every identity known to anyone was handed out and still means the same name
(`Handed`, `NamesTrue`, `FoundAsked`), what was deleted does not come back, nor its row
(`GoneForGood`), the entity whose row is about to be written is there and nobody is deleting it
(`RowIsDue`), and an entity of a name to be deleted is still to be looked for or in hand
(`StillToDelete`). With it, the step that ends a command without an error is the one asked for
(CatalogueEndsRight), for all eleven kinds. Theorems: CatalogueInvariant, CatalogueTypes.

Accounts: one command at work while none overlapped, and a provider whenever
the next call relies on one (AccountInvariant, AccountTypes); `AccountAtWork` is what a creation, an
update or a deletion has done when it is at each of its calls, from which AccountEndsRight follows.

Tunnels: the application of a task under way is
new to every command that is to delete one, and past the poll the tunnel has left the old one
(TunnelInvariant); `TunnelAtWork` does for tunnels what AccountAtWork does for accounts.

Cache tables: what a command without an error has filled is right, the table it is
at has what the accounts asked so far have, and snapshots come after their time machines
(CacheInvariant; `FilledSoFar` is its centre).

The composition: an area's step keeps its own
invariant and leaves the variables of the others, so that all hold together (AreasInvariant), and with
them AdministrationTypes, MembersOnlyHolds, QuotaAgreesHolds, ListsAgreeHolds, OneLiveVersionHolds, OnePerNameHolds,
AccountHasProviderHolds, ProjectEndsHolds, MarketEndsHolds, CatalogueEndsHolds, AccountEndsHolds, TunnelEndsHolds,
TunnelKeepsRunning and CacheFillsTheTables, about the specification that the
run checks.

**Only model-checked:** liveness (CommandsEnd in two runs, WatchEnds), which rests on ENABLED, and
DecompileKeepsProgram: the walk over the graph and the printing of blocks are recursions over their
data, and what they give for every graph is an induction TLAPS cannot do. The
properties of the runs that expect a violation are false. The inductive invariants of the proofs were run
through TLC on the instances above, as invariants (with the naturals of AgreeIInv cut to a range); `outrun` and two of the
assumptions above come from steps that would not go through.

## 6. Disagreements found between code and text

1. `cli/bps.py:2151` – poll_launch_status also returns False when its polls are spent; the comment
   at `cli/apps.py:707` says that means the launch has failed (run app_launch_timeout). create_app
   then deletes the blueprint of a launch that may still succeed, and reports nothing.
2. `cli/apps.py:159` – `_get_app` overwrites the exact match by the first entity listed; the comment
   at line 146 says the exact match is used (run app_exact_match).
3. `cli/runlog.py:578` – space on an execution that has just ended uses `msg` unassigned; the
   comment at line 565 says it pauses or plays (run runbook_space).
4. `store/cache.py:208` – the broad except keeps the recovery from schema changes at line 227
   from ever running; its comment promises it (run local_cache_schema).
5. `api/resource.py:179` – paging by offset over a collection that shrinks skips an entity, without
   an error; the docstring says list_all returns the list of entities (run local_cache_skip).

## 7. Not modelled, and why

Entity compilation and decompilation other than Placement and TaskGraph translate data field by field,
with no state. Reading
of configuration is one pass of one thread, and so is the server's version row. The remaining
single-call commands (roles, directory services, approvals, brownfield lists, protection policies,
enabling a policy, syncing or verifying an account) have no control beyond the call. VM spec
generators, tables, logs, icons and templates are input and output. The session's repeated requests
are a library's; what a server does with a POST it receives twice is not in this code, so the
modules take a call to be carried out at most once, perhaps reported as an error.

Within modelled parts: contents of scripts, variables, inputs, credentials; layout; logging; listing
and describing commands; launching or running an item of the marketplace (AppLaunch and RunbookRun
have what follows); switches of update project other than those for users and groups.

Facts met on the way that no document contradicts, and that the models have:

- A forced creation of an account leaves the row of the old one in the cache, unless it is an AHV
  account, for which the table is filled again (`cli/accounts.py`); a
  deletion of a custom account deletes no account but drops its row.
- A failed clean-up of policies is not noticed by `update project` (`cli/projects.py:860`), a refused
  provider not by `create account`.
- A poll that gives up is no failure for projects, users, groups and tunnels.
- Unpublishing all versions of a marketplace item asks for 20 members of its group and never for
  more (`cli/marketplace.py:400`).
- A machine that names no cluster, whose NICs name none either, gets the first account of its Prism
  Central (`builtins/models/substrate.py:452`), whichever cluster its subnets are in. Its NICs may be on
  two clusters, and mix VLANs and overlays: "All VLANs should belong to same cluster"
  (`ahv_vm_nic.py:88`) is compared only with the machine's cluster, and `ahv_vm.py` compares NICs as
  they are written. The decompiled text of a mixture is then refused.
- A cluster that is a macro, or is given with another account, leaves the account that serves the
  machine empty (`helper/common.py:235`); decompile then leaves out the account of the substrate without
  a word (`decompile/substrate.py:95`), and compiling its text takes the project's first. The same
  happens if the cache has no row for the account.
- A cluster given with its account is not compared with what the project allows (`calm_ref.py:636`).
- A reset of a tunnel does not refresh the cache; the creation of a user group adds no row, while its
  deletion looks the group up in the cache.
- Tables of accounts, providers, resource types, clusters, VPCs, images and others ask for one page;
  the accounts of projects are listed with a page length of 200 against a limit of 250
  (`api/resource.py:176`), so that those between are never read.

## 8. What is left

1. What holds of machines that name no cluster, which PlacedTogether leaves out (section 7).
2. Changes of the collections while CacheTables fills its tables, which LocalCache has for one table.
3. Retries: a server that carries out a repeated POST twice, under AppLaunch and RunbookRun, once it is
   known which calls it does that for.
