------------------------------ MODULE AppActions ------------------------------
(***************************************************************************)
(* Commands on existing applications (src/calm/dsl/cli/apps.py): delete    *)
(* app, and run action / run patch with --watch.  Every command resolves   *)
(* the application by name with _get_app, acts on the uuid, and a watch    *)
(* resolves the name again before it polls the runlogs of its run.         *)
(***************************************************************************)
EXTENDS Naturals, Sequences

CONSTANTS
    App, Name,
    NameOf,       \* the name of each application
    Matches,      \* the names the server's filter name==n lets through
    SystemApp,    \* applications of the project _internal
    Command,
    Deleter,      \* delete app commands; the others run an action and watch it
    AllItems,     \* delete commands with --all-items
    Names,        \* the names each command was given, in order
    NTask,        \* tasks of an action
    MaxPolls,
    NoApp

ASSUME CommandAssumption ==
    /\ NameOf \in [App -> Name]
    /\ Matches \in [Name -> SUBSET Name]
    /\ \A n \in Name : n \in Matches[n]
    /\ SystemApp \subseteq App
    /\ Deleter \subseteq Command
    /\ AllItems \subseteq Command
    /\ Names \in [Command -> Seq(Name)]
    /\ \A c \in Command \ Deleter : Len(Names[c]) = 1
    /\ NTask \in Nat /\ MaxPolls \in Nat
    /\ NoApp \notin App

VARIABLES
    pc,       \* where each command is
    at,       \* index of the name a command is working on
    target,   \* the application _get_app returned
    alive,    \* server: applications that exist
    ran,      \* server: the application the run of each command belongs to
    log,      \* server: the runlogs of each run; 0 is the runbook runlog around the tasks
    watched,  \* the application whose runlogs a watch polls
    polls,
    report    \* what the watch ends with

vars == <<pc, at, target, alive, ran, log, watched, polls, report>>

Ended == {"done", "failed"}
Task == 0 .. NTask

TypeOK ==
    /\ pc \in [Command -> {"resolve", "act", "rewatch", "watch"} \cup Ended]
    /\ at \in [Command -> Nat]
    /\ target \in [Command -> App \cup {NoApp}]
    /\ alive \subseteq App
    /\ ran \in [Command -> App \cup {NoApp}]
    /\ log \in [Command -> [Task -> {"absent", "RUNNING", "SUCCESS", "FAILURE"}]]
    /\ watched \in [Command -> App \cup {NoApp}]
    /\ polls \in [Command -> Nat]
    /\ report \in [Command -> {"none", "succeeded", "failed"}]

Init ==
    /\ pc = [c \in Command |-> "resolve"]
    /\ at = [c \in Command |-> 1]
    /\ target = [c \in Command |-> NoApp]
    /\ alive = App
    /\ ran = [c \in Command |-> NoApp]
    /\ log = [c \in Command |-> [t \in Task |-> "absent"]]
    /\ watched = [c \in Command |-> NoApp]
    /\ polls = [c \in Command |-> 0]
    /\ report = [c \in Command |-> "none"]

-----------------------------------------------------------------------------
Query(c) == Names[c][at[c]]

Listed(n) == {a \in alive : NameOf[a] \in Matches[n]}

Goto(c, stage) == pc' = [pc EXCEPT ![c] = stage]

(* What _get_app(n) may return: the first entity of the list, in whatever  *)
(* order the server lists them.  A list of several is only refused when no *)
(* entity has the exact name; the match found is then overwritten.  An      *)
(* empty list, as a listing or a reading that fails, ends the command.      *)
Resolved(n) ==
    IF \E a, b \in Listed(n) : a # b /\ \A e \in Listed(n) : NameOf[e] # n
      THEN {} ELSE Listed(n)

Resolve(c) ==
    /\ pc[c] = "resolve"
    /\ at[c] <= Len(Names[c])
    /\ \/ \E a \in Resolved(Query(c)) :
            target' = [target EXCEPT ![c] = a] /\ Goto(c, "act")
       \/ Goto(c, "failed") /\ UNCHANGED target
    /\ UNCHANGED <<at, alive, ran, log, watched, polls, report>>

(* delete_app: one name after the other; the first error ends the command,  *)
(* also when it is the answer of a deletion that has been lost.            *)
DeleteApp(c) ==
    /\ pc[c] = "act" /\ c \in Deleter
    /\ IF target[c] \in SystemApp /\ c \notin AllItems
         THEN at' = [at EXCEPT ![c] = @ + 1] /\ Goto(c, "resolve") /\ UNCHANGED alive
         ELSE \/ /\ target[c] \in alive
                 /\ alive' = alive \ {target[c]}
                 /\ \/ at' = [at EXCEPT ![c] = @ + 1] /\ Goto(c, "resolve")
                    \/ Goto(c, "failed") /\ UNCHANGED at
              \/ Goto(c, "failed") /\ UNCHANGED <<at, alive>>
    /\ UNCHANGED <<target, ran, log, watched, polls, report>>

DeletesDone(c) ==
    /\ pc[c] = "resolve"
    /\ at[c] > Len(Names[c])
    /\ Goto(c, "done")
    /\ UNCHANGED <<at, target, alive, ran, log, watched, polls, report>>

(* run_actions and run_patches: the run is created on the uuid read before, *)
(* and its answer may be lost.                                             *)
RunAction(c) ==
    /\ pc[c] = "act" /\ c \notin Deleter
    /\ \/ /\ target[c] \in alive
          /\ ran' = [ran EXCEPT ![c] = target[c]]
          /\ log' = [log EXCEPT ![c][0] = "RUNNING"]
          /\ Goto(c, "rewatch") \/ Goto(c, "failed")
       \/ Goto(c, "failed") /\ UNCHANGED <<ran, log>>
    /\ UNCHANGED <<at, target, alive, watched, polls, report>>

(* watch_patch_or_action resolves the name once more. *)
ResolveAgain(c) ==
    /\ pc[c] = "rewatch"
    /\ \/ \E a \in Resolved(Query(c)) :
            watched' = [watched EXCEPT ![c] = a] /\ Goto(c, "watch")
       \/ Goto(c, "failed") /\ UNCHANGED watched
    /\ UNCHANGED <<at, target, alive, ran, log, polls, report>>

(* Mutant: runlogs of the runbook itself are skipped, as the tree skips META. *)
Runlogs_TasksOnly(c) ==
    IF watched[c] = ran[c] THEN {t \in Task \ {0} : log[c][t] # "absent"} ELSE {}

(* The runlogs listed for the application polled, filtered by the run.     *)
Runlogs(c) ==
    IF watched[c] = ran[c] THEN {t \in Task : log[c][t] # "absent"} ELSE {}

(* get_completion_func: the first runlog, in order of creation, that has   *)
(* failed or is not terminal decides.                                      *)
Verdict(c) ==
    LET open == {t \in Runlogs(c) : log[c][t] # "SUCCESS"}
    IN  IF Runlogs(c) = {} THEN "none"
        ELSE IF open = {} THEN "succeeded"
        ELSE LET first == CHOOSE t \in open : \A u \in open : t <= u
             IN  IF log[c][first] = "FAILURE" THEN "failed" ELSE "none"

(* Mutant: the count is not advanced. *)
WatchPoll_NoCount(c) ==
    /\ pc[c] = "watch"
    /\ polls[c] < MaxPolls
    /\ Verdict(c) # "none"
    /\ report' = [report EXCEPT ![c] = Verdict(c)]
    /\ Goto(c, "done")
    /\ UNCHANGED <<at, target, alive, ran, log, watched, polls>>

(* Mutant: the message of the poll is not the one shown. *)
WatchPoll_WrongReport(c) ==
    /\ pc[c] = "watch"
    /\ Verdict(c) # "none"
    /\ report' = [report EXCEPT ![c] = log[c][0]]
    /\ Goto(c, "done")
    /\ UNCHANGED <<at, target, alive, ran, log, watched, polls>>

(* A listing that fails ends the watch, and the command.                   *)
WatchPoll(c) ==
    /\ pc[c] = "watch"
    /\ polls[c] < MaxPolls
    /\ \/ Verdict(c) = "none" /\ polls' = [polls EXCEPT ![c] = @ + 1] /\ UNCHANGED <<pc, report>>
       \/ report' = [report EXCEPT ![c] = Verdict(c)] /\ Verdict(c) # "none" /\ Goto(c, "done") /\ UNCHANGED polls
       \/ Goto(c, "failed") /\ UNCHANGED <<polls, report>>
    /\ UNCHANGED <<at, target, alive, ran, log, watched>>

(* poll_runnnable falls out of its loop without a word. *)
WatchTimeout(c) ==
    /\ pc[c] = "watch"
    /\ polls[c] >= MaxPolls
    /\ Goto(c, "done")
    /\ UNCHANGED <<at, target, alive, ran, log, watched, polls, report>>

CommandStep(c) ==
    \/ Resolve(c) \/ DeleteApp(c) \/ DeletesDone(c)
    \/ RunAction(c) \/ ResolveAgain(c) \/ WatchPoll(c) \/ WatchTimeout(c)

-----------------------------------------------------------------------------
(* The server runs an action (external): the runbook runlog stays RUNNING  *)
(* around its tasks, which may overlap.                                    *)

StartTask(c, t) ==
    /\ log[c][0] = "RUNNING" /\ t > 0
    /\ log[c][t] = "absent" /\ log[c][t - 1] # "absent"
    /\ \A u \in Task : log[c][u] # "FAILURE"
    /\ log' = [log EXCEPT ![c][t] = "RUNNING"]
    /\ UNCHANGED <<pc, at, target, alive, ran, watched, polls, report>>

EndTask(c, t) ==
    /\ log[c][t] = "RUNNING" /\ t > 0
    /\ \E s \in {"SUCCESS", "FAILURE"} : log' = [log EXCEPT ![c][t] = s]
    /\ UNCHANGED <<pc, at, target, alive, ran, watched, polls, report>>

EndRun(c) ==
    /\ log[c][0] = "RUNNING"
    /\ \A t \in Task \ {0} : log[c][t] # "RUNNING"
    /\ \/ /\ \E t \in Task : log[c][t] = "FAILURE"
          /\ log' = [log EXCEPT ![c][0] = "FAILURE"]
       \/ /\ \A t \in Task \ {0} : log[c][t] = "SUCCESS"
          /\ log' = [log EXCEPT ![c][0] = "SUCCESS"]
    /\ UNCHANGED <<pc, at, target, alive, ran, watched, polls, report>>

ServerStep(c) == EndRun(c) \/ \E t \in Task : StartTask(c, t) \/ EndTask(c, t)

Finished == (\A c \in Command : pc[c] \in Ended) /\ UNCHANGED vars

Next == (\E c \in Command : CommandStep(c) \/ ServerStep(c)) \/ Finished

Spec == Init /\ [][Next]_vars /\ \A c \in Command : WF_vars(CommandStep(c))

-----------------------------------------------------------------------------
(* Properties *)

(* "Action ran successfully." is shown only for a run all of whose tasks   *)
(* have succeeded and which has ended: tasks not yet created count too.    *)
SuccessIsComplete ==
    \A c \in Command : report[c] = "succeeded" => \A t \in Task : log[c][t] = "SUCCESS"

(* "Action failed." is shown only for a run that has ended, so nothing of  *)
(* it is still running when the watch goes away.                           *)
FailureIsFinal ==
    \A c \in Command : report[c] = "failed" =>
        log[c][0] = "FAILURE" /\ \A t \in Task : log[c][t] # "RUNNING"

(* What the watch reports of a run is the truth about the whole of it.     *)
ReportIsTrue == SuccessIsComplete /\ FailureIsFinal

(* The comment in _get_app: of several entities the exact name match is    *)
(* used.  Deleting the application of that name deletes no other.          *)
ExactMatchIsUsed ==
    [][\A c \in Command : target'[c] # target[c] /\ target'[c] # NoApp =>
         LET n == Query(c) IN
         (\E a \in Listed(n) : NameOf[a] = n) => NameOf[target'[c]] = n]_vars

(* Every command ends, also when its run never does.                       *)
CommandsEnd == \A c \in Command : <>(pc[c] \in Ended)
===============================================================================
