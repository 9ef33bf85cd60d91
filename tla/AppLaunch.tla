------------------------------ MODULE AppLaunch ------------------------------
(***************************************************************************)
(* `calm create app`: src/calm/dsl/cli/apps.py create_app, with the parts  *)
(* of cli/bps.py it runs (get_app, create_blueprint, get_blueprint,        *)
(* launch_blueprint_simple, poll_launch_status) and the watch loop         *)
(* (apps.py _get_app, watch_app, poll_runnnable).                          *)
(*                                                                         *)
(* Several commands run at the same time against one server.  A command    *)
(* uploads a temporary blueprint, launches it, polls the launch request a  *)
(* bounded number of times, deletes the blueprint (unless it is            *)
(* brownfield) and, if asked to, watches the first application the server  *)
(* lists for the requested name.                                           *)
(***************************************************************************)
EXTENDS Naturals

CONSTANTS
    Command,        \* create_app invocations
    Name,           \* application names
    NameOf,         \* the name each command asks for
    Matches,        \* the names the server's filter name==n lets through
    Unnamed,        \* commands run without --name: the name is a fresh uuid
    Brownfield,     \* commands whose blueprint has type BROWNFIELD
    Watching,       \* commands run with --watch
    MaxPolls,       \* launch polls: one per 10 s, for 5 minutes
    MaxWatchPolls,  \* watch polls
    NoApp

ASSUME CommandAssumption ==
    /\ NameOf \in [Command -> Name]
    /\ Unnamed \subseteq Command
    /\ Matches \in [Name -> SUBSET Name]
    /\ \A n \in Name : n \in Matches[n]
    /\ \A c \in Unnamed, d \in Command : NameOf[d] \in Matches[NameOf[c]] => c = d
    /\ Brownfield \subseteq Command
    /\ Watching \subseteq Command
    /\ NoApp \notin Command

ASSUME BoundAssumption == MaxPolls \in Nat /\ MaxWatchPolls \in Nat

VARIABLES
    pc,       \* where each command is
    bp,       \* server: the blueprint each command uploaded
    request,  \* server: the launch request of each command
    app,      \* server: the application each command's launch created
    polls,    \* polls made in the current polling loop
    verdict,  \* app_launch_state of the command
    watched,  \* the application (by the command that created it) watch_app found
    before    \* history: the applications made before the command checked its name

vars == <<pc, bp, request, app, polls, verdict, watched, before>>

Ended == {"returned", "failed"}
Stage == {"start", "create", "fetch", "launch", "poll", "cleanup", "find", "watch"} \cup Ended
BlueprintState == {"absent", "ACTIVE", "DRAFT", "DELETED"}
LaunchState == {"none", "pending", "success", "failure"}
AppState == {"absent", "provisioning", "running", "error", "deleted"}
Verdict == {"unset", "launched", "not_launched"}

TypeOK ==
    /\ pc \in [Command -> Stage]
    /\ bp \in [Command -> BlueprintState]
    /\ request \in [Command -> LaunchState]
    /\ app \in [Command -> AppState]
    /\ polls \in [Command -> Nat]
    /\ verdict \in [Command -> Verdict]
    /\ watched \in [Command -> Command \cup {NoApp}]
    /\ before \in [Command -> SUBSET Command]

LiveApp(d) == app[d] \in {"provisioning", "running", "error"}

(* What the server lists for the name a command asks for.                  *)
Listed(c) == {d \in Command : LiveApp(d) /\ NameOf[d] \in Matches[NameOf[c]]}

Init ==
    /\ pc = [c \in Command |-> "start"]
    /\ bp = [c \in Command |-> "absent"]
    /\ request = [c \in Command |-> "none"]
    /\ app = [c \in Command |-> "absent"]
    /\ polls = [c \in Command |-> 0]
    /\ verdict = [c \in Command |-> "unset"]
    /\ watched = [c \in Command |-> NoApp]
    /\ before = [c \in Command |-> {}]

-----------------------------------------------------------------------------
(* The command *)

Goto(c, stage) == pc' = [pc EXCEPT ![c] = stage]

Remember(c) == before' = [before EXCEPT ![c] = {d \in Command : app[d] # "absent"}]

CheckName_Skipped(c) == \* Mutant: the check is left to the launch, which is told to skip it
    /\ pc[c] = "start"
    /\ Goto(c, "create")
    /\ Remember(c)
    /\ UNCHANGED <<bp, request, app, polls, verdict, watched>>

CheckName(c) ==
    /\ pc[c] = "start"
    /\ Goto(c, IF c \in Unnamed \/ Listed(c) = {} THEN "create" ELSE "failed")
    /\ Remember(c)
    /\ UNCHANGED <<bp, request, app, polls, verdict, watched>>

(* The upload; a blueprint that does not come out ACTIVE ends the command, *)
(* and an error ends it with a plain return.  The error may also be a lost *)
(* answer (a read timeout), with the blueprint on the server.              *)
CreateBlueprint(c) ==
    /\ pc[c] = "create"
    /\ \E state \in {"ACTIVE", "DRAFT"} :
         /\ bp' = [bp EXCEPT ![c] = state]
         /\ \/ Goto(c, IF state = "ACTIVE" THEN "fetch" ELSE "failed")
            \/ Goto(c, "returned")
    /\ UNCHANGED <<request, app, polls, verdict, watched, before>>

CreateBlueprintRefused(c) ==
    /\ pc[c] = "create"
    /\ Goto(c, "returned")
    /\ UNCHANGED <<bp, request, app, polls, verdict, watched, before>>

FetchBlueprint(c) ==
    /\ pc[c] = "fetch"
    /\ Goto(c, IF bp[c] = "ACTIVE" THEN "launch" ELSE "failed")
    /\ UNCHANGED <<bp, request, app, polls, verdict, watched, before>>

(* The launch call; as above the answer may be lost after the server has   *)
(* taken the request.                                                      *)
LaunchBlueprint(c) ==
    /\ pc[c] = "launch"
    /\ bp[c] = "ACTIVE"
    /\ request' = [request EXCEPT ![c] = "pending"]
    /\ Goto(c, "poll") \/ Goto(c, "failed")
    /\ UNCHANGED <<bp, app, polls, verdict, watched, before>>

(* The server refuses to launch what is no longer an ACTIVE blueprint. *)
LaunchRefused(c) ==
    /\ pc[c] = "launch"
    /\ bp[c] # "ACTIVE"
    /\ Goto(c, "failed")
    /\ UNCHANGED <<bp, request, app, polls, verdict, watched, before>>

(* Mutant: returning early on a launch that did not succeed. *)
AfterLaunch_EarlyReturn(c, v) ==
    IF v = "not_launched" THEN "returned"
    ELSE IF c \notin Brownfield THEN "cleanup"
    ELSE IF c \in Watching THEN "find" ELSE "returned"

(* What create_app does once it holds app_launch_state = v. *)
AfterLaunch(c, v) ==
    IF c \notin Brownfield THEN "cleanup"
    ELSE IF v = "launched" /\ c \in Watching THEN "find" ELSE "returned"

PollAnswered(c) ==
    /\ pc[c] = "poll"
    /\ polls[c] < MaxPolls
    /\ request[c] \in {"success", "failure"}
    /\ LET v == IF request[c] = "success" THEN "launched" ELSE "not_launched"
       IN  /\ verdict' = [verdict EXCEPT ![c] = v]
           /\ Goto(c, AfterLaunch(c, v))
    /\ UNCHANGED <<bp, request, app, polls, watched, before>>

(* Mutant: `count += 10` forgotten. *)
PollPending_NoCount(c) ==
    /\ pc[c] = "poll"
    /\ polls[c] < MaxPolls
    /\ request[c] = "pending"
    /\ UNCHANGED vars

PollPending(c) ==
    /\ pc[c] = "poll"
    /\ polls[c] < MaxPolls
    /\ request[c] = "pending"
    /\ polls' = [polls EXCEPT ![c] = @ + 1]
    /\ UNCHANGED <<pc, bp, request, app, verdict, watched, before>>

(* Mutant: the loop falls through to True. *)
PollTimeout_True(c) ==
    /\ pc[c] = "poll"
    /\ polls[c] >= MaxPolls
    /\ verdict' = [verdict EXCEPT ![c] = "launched"]
    /\ Goto(c, AfterLaunch(c, "launched"))
    /\ UNCHANGED <<bp, request, app, polls, watched, before>>

(* Mutant: the loop stops at the first state it does not know. *)
PollTimeout_AfterOne(c) ==
    /\ pc[c] = "poll"
    /\ polls[c] >= 1
    /\ verdict' = [verdict EXCEPT ![c] = "not_launched"]
    /\ Goto(c, AfterLaunch(c, "not_launched"))
    /\ UNCHANGED <<bp, request, app, polls, watched, before>>

(* The loop runs out: poll_launch_status returns False. *)
PollTimeout(c) ==
    /\ pc[c] = "poll"
    /\ polls[c] >= MaxPolls
    /\ verdict' = [verdict EXCEPT ![c] = "not_launched"]
    /\ Goto(c, AfterLaunch(c, "not_launched"))
    /\ UNCHANGED <<bp, request, app, polls, watched, before>>

(* Deleting what another user has deleted is an error, which is raised. *)
DeleteTemporaryBlueprint(c) ==
    /\ pc[c] = "cleanup"
    /\ bp' = [bp EXCEPT ![c] = "DELETED"]
    /\ Goto(c, IF bp[c] = "DELETED" THEN "failed"
               ELSE IF verdict[c] = "launched" /\ c \in Watching THEN "find"
               ELSE "returned")
    /\ UNCHANGED <<request, app, polls, verdict, watched, before>>

(* What _get_app may return: the first of the list, whatever its order; a  *)
(* list of several is refused only if none has the exact name.             *)
Resolved(c) ==
    IF \E d, e \in Listed(c) : d # e /\ \A g \in Listed(c) : NameOf[g] # NameOf[c]
      THEN {} ELSE Listed(c)

(* Mutant: the name of the entity is kept where its uuid is expected. *)
FindApp_KeepsName(c) ==
    /\ pc[c] = "find"
    /\ \E d \in Resolved(c) :
         /\ watched' = [watched EXCEPT ![c] = NameOf[d]]
         /\ polls' = [polls EXCEPT ![c] = 0]
         /\ Goto(c, "watch")
    /\ UNCHANGED <<bp, request, app, verdict, before>>

FindApp(c) ==
    /\ pc[c] = "find"
    /\ \/ /\ Resolved(c) = {}
          /\ Goto(c, "failed")
          /\ UNCHANGED <<polls, watched>>
       \/ \E d \in Resolved(c) :
            /\ watched' = [watched EXCEPT ![c] = d]
            /\ polls' = [polls EXCEPT ![c] = 0]
            /\ Goto(c, "watch")
    /\ UNCHANGED <<bp, request, app, verdict, before>>

WatchPoll(c) ==
    /\ pc[c] = "watch"
    /\ polls[c] < MaxWatchPolls
    /\ IF app[watched[c]] # "provisioning"
         THEN Goto(c, "returned") /\ UNCHANGED polls
         ELSE polls' = [polls EXCEPT ![c] = @ + 1] /\ UNCHANGED pc
    /\ UNCHANGED <<bp, request, app, verdict, watched, before>>

WatchTimeout(c) ==
    /\ pc[c] = "watch"
    /\ polls[c] >= MaxWatchPolls
    /\ Goto(c, "returned")
    /\ UNCHANGED <<bp, request, app, polls, verdict, watched, before>>

(* Any call to the server can fail and Ctrl-C unwinds the command from     *)
(* anywhere; no handler deletes the blueprint on the way out.              *)
Abort(c) ==
    /\ pc[c] \notin Ended
    /\ Goto(c, "failed")
    /\ UNCHANGED <<bp, request, app, polls, verdict, watched, before>>

CommandStep(c) ==
    \/ CheckName(c)
    \/ CreateBlueprint(c) \/ CreateBlueprintRefused(c)
    \/ FetchBlueprint(c)
    \/ LaunchBlueprint(c) \/ LaunchRefused(c)
    \/ PollAnswered(c) \/ PollPending(c) \/ PollTimeout(c)
    \/ DeleteTemporaryBlueprint(c)
    \/ FindApp(c) \/ WatchPoll(c) \/ WatchTimeout(c)

-----------------------------------------------------------------------------
(* The server and the other users (external). *)

LaunchSucceeds(c) ==
    /\ request[c] = "pending"
    /\ request' = [request EXCEPT ![c] = "success"]
    /\ app' = [app EXCEPT ![c] = "provisioning"]
    /\ UNCHANGED <<pc, bp, polls, verdict, watched, before>>

LaunchFails(c) ==
    /\ request[c] = "pending"
    /\ request' = [request EXCEPT ![c] = "failure"]
    /\ UNCHANGED <<pc, bp, app, polls, verdict, watched, before>>

AppDeployed(d) ==
    /\ app[d] = "provisioning"
    /\ \E s \in {"running", "error"} : app' = [app EXCEPT ![d] = s]
    /\ UNCHANGED <<pc, bp, request, polls, verdict, watched, before>>

AppDeleted(d) ==
    /\ LiveApp(d)
    /\ app' = [app EXCEPT ![d] = "deleted"]
    /\ UNCHANGED <<pc, bp, request, polls, verdict, watched, before>>

(* Another user edits the blueprint into an inconsistent draft or deletes it. *)
BlueprintTouched(c) ==
    /\ bp[c] = "ACTIVE"
    /\ \E s \in {"DRAFT", "DELETED"} : bp' = [bp EXCEPT ![c] = s]
    /\ UNCHANGED <<pc, request, app, polls, verdict, watched, before>>

ServerStep(c) ==
    \/ LaunchSucceeds(c) \/ LaunchFails(c)
    \/ AppDeployed(c) \/ AppDeleted(c)
    \/ BlueprintTouched(c)

Finished == (\A c \in Command : pc[c] \in Ended) /\ UNCHANGED vars

Next ==
    \/ \E c \in Command : CommandStep(c) \/ Abort(c) \/ ServerStep(c)
    \/ Finished

(* A running command keeps taking its steps: nothing blocks it but the     *)
(* sleep between two polls.  Nothing is assumed of the server.             *)
Spec == Init /\ [][Next]_vars /\ \A c \in Command : WF_vars(CommandStep(c))

-----------------------------------------------------------------------------
(* Properties *)

(* create_app reports and watches a launch only when the server finished   *)
(* it successfully (poll_launch_status returns True).                      *)
VerdictIsEarned ==
    \A c \in Command : verdict[c] = "launched" => request[c] = "success"

(* A launch is given up as not launched only when the server said so, or   *)
(* after all polls of poll_launch_status were spent.                       *)
GivesUpOnlyAfterAllPolls ==
    \A c \in Command :
        verdict[c] = "not_launched" => request[c] = "failure" \/ polls[c] = MaxPolls

(* The comment above the call in create_app: app_launch_state = 0 implies  *)
(* that the blueprint launch has failed.                                   *)
FalseMeansLaunchFailed ==
    \A c \in Command : verdict[c] = "not_launched" => request[c] = "failure"

(* A command that got past the launch and returns normally has not left    *)
(* its temporary blueprint behind.                                         *)
NoBlueprintLeftByReturn ==
    \A c \in Command \ Brownfield :
        pc[c] = "returned" /\ verdict[c] # "unset" => bp[c] = "DELETED"

(* watch_app looks the application up by name once more, and the filter may *)
(* list others: what a command watches after its own launch has succeeded   *)
(* was launched too, and since the command found its name free - never an   *)
(* application that was there when it began.                               *)
WatchesNoOlderApp ==
    \A c \in Command : watched[c] # NoApp =>
        /\ NameOf[watched[c]] \in Matches[NameOf[c]]
        /\ watched[c] \notin before[c]
        /\ request[watched[c]] = "success"
        /\ request[c] = "success"

(* A command watches its own application, unless since its check another    *)
(* was launched that the filter lists.                                     *)
WatchesItsOwn ==
    \A c \in Command :
        (\A d \in Command \ {c} :
            NameOf[d] \in Matches[NameOf[c]] => d \in before[c] \/ request[d] # "success")
        => watched[c] \in {c, NoApp}

(* The temporary blueprint is deleted under a running launch only if the   *)
(* command has waited for it as long as it is willing to.                  *)
PatientCleanup ==
    [][\A c \in Command :
         pc[c] = "cleanup" /\ bp[c] # bp'[c] /\ pc'[c] # pc[c] /\ request[c] = "pending"
            => polls[c] = MaxPolls]_vars

(* How far a command is, as its user sees it. *)
Phase(c) ==
    IF verdict[c] = "launched" THEN "launched"
    ELSE IF verdict[c] = "not_launched" THEN "gave_up"
    ELSE IF pc[c] = "poll" THEN "asked"
    ELSE IF pc[c] \in Ended THEN "dropped" ELSE "preparing"

Contract == INSTANCE LaunchContract WITH phase <- [c \in Command |-> Phase(c)]

(* create_app implements the contract of a launch. *)
KeepsLaunchContract == Contract!Spec

(* Every command ends, whatever the server does or does not answer.        *)
CommandsEnd == \A c \in Command : <>(pc[c] \in Ended)
=============================================================================
