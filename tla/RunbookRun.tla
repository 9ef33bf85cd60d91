------------------------------- MODULE RunbookRun -------------------------------
(***************************************************************************)
(* calm run runbook and calm watch runbook-execution                       *)
(* (src/calm/dsl/cli/runbooks.py and runlog.py).  The runner may upload    *)
(* the runbook from a file, starts the execution, waits for it to leave    *)
(* the queue and watches it; watchers do the last two on an execution      *)
(* somebody else started; controllers pause, resume or abort it.           *)
(* A watch polls a list of runlogs, lets the user answer the tasks that    *)
(* wait, pause and play with the space key and rerun a failed execution,   *)
(* all by the list it has polled, while the execution goes on.             *)
(***************************************************************************)
EXTENDS Naturals, Sequences

CONSTANTS
    Watcher, Controller, \* the other processes
    Runner,
    NTask,               \* tasks of the runbook, run one after the other
    Interactive,         \* tasks of type INPUT or CONFIRM
    MaxPolls,            \* polls of poll_action: 60 in the code
    MaxReruns            \* bound: reruns of the execution

Viewer == Watcher \cup {Runner}
Process == Viewer \cup Controller

ASSUME RunAssumption ==
    /\ NTask \in Nat /\ Interactive \subseteq 1 .. NTask
    /\ MaxPolls \in Nat /\ MaxReruns \in Nat
    /\ Watcher \cap Controller = {} /\ Runner \notin Watcher \cup Controller

VARIABLES
    run,      \* server: the state of the execution
    tasks,    \* server: the states of the tasks created so far
    reasons,  \* server: the execution failed before it ran, and says why
    reruns,   \* server: reruns so far
    runbook,  \* server: the runbook uploaded from a file
    pc,
    options,  \* what the runner was asked for: from a file, and to watch
    polls,
    seen,     \* the runlogs a viewer reacts to
    asked,    \* tasks a viewer has still to answer
    verdict,  \* what a process ends with
    command,  \* what a controller does
    overtaken \* history: viewers that polled before the last rerun

vars == <<run, tasks, reasons, reruns, runbook, pc, options, polls, seen, asked, verdict, command,
          overtaken>>
server == <<run, tasks, reasons, reruns, overtaken>>

Failing == {"FAILURE", "ABORTED"}
Terminal == Failing \cup {"SUCCESS"} \* RUNLOG.TERMINAL_STATES: TIMEOUT is not one
Queued == {"none", "PENDING", "POLICY_EXEC"}
RunState == Queued \cup Terminal \cup {"RUNNING", "PAUSED", "TIMEOUT"}
TaskState == Terminal \cup {"RUNNING", "INPUT", "TIMEOUT"}
Snapshot == [run : RunState, tasks : Seq(TaskState), listed : BOOLEAN]
Nothing == [run |-> "none", tasks |-> <<>>, listed |-> FALSE]

Commands == {"pause", "play", "abort"}

TypeOK ==
    /\ run \in RunState
    /\ tasks \in Seq(TaskState) /\ Len(tasks) <= NTask
    /\ reasons \in BOOLEAN
    /\ reruns \in Nat
    /\ runbook \in {"none", "there", "deleted"}
    /\ pc \in [Process -> {"idle", "run", "queue", "watch", "react", "rerun", "send",
                           "leave", "done"}]
    /\ options \in [file : BOOLEAN, watch : BOOLEAN]
    /\ polls \in [Viewer -> Nat]
    /\ seen \in [Viewer -> Snapshot]
    /\ asked \in [Viewer -> SUBSET (1 .. NTask)]
    /\ verdict \in [Process -> {"none", "queued", "stopped", "succeeded", "failed", "unknown",
                                "sent", "broken"}]
    /\ command \in [Controller -> Commands \cup {"none"}]
    /\ overtaken \subseteq Viewer

Init ==
    /\ run = "none" /\ tasks = <<>> /\ reasons = FALSE /\ reruns = 0
    /\ runbook = "none"
    /\ pc = [p \in Process |-> "idle"]
    /\ options \in [file : BOOLEAN, watch : BOOLEAN]
    /\ polls = [v \in Viewer |-> 0]
    /\ seen = [v \in Viewer |-> Nothing]
    /\ asked = [v \in Viewer |-> {}]
    /\ verdict = [p \in Process |-> "none"]
    /\ command = [c \in Controller |-> "none"]
    /\ overtaken = {}

Goto(p, stage) == pc' = [pc EXCEPT ![p] = stage]
End(p, v) == Goto(p, "done") /\ verdict' = [verdict EXCEPT ![p] = v]

-----------------------------------------------------------------------------
(* The server executes the runbook (external).  The runlog of the runbook  *)
(* itself is the first one listed, and RUNNING around its tasks.           *)

LeaveQueue ==
    /\ \/ run = "PENDING" /\ run' \in {"POLICY_EXEC", "RUNNING"} /\ UNCHANGED reasons
       \/ run = "POLICY_EXEC" /\ run' = "RUNNING" /\ UNCHANGED reasons
       \/ run \in {"PENDING", "POLICY_EXEC"} /\ run' = "FAILURE" /\ reasons' = TRUE
    /\ UNCHANGED tasks

StartTask ==
    /\ run = "RUNNING"
    /\ Len(tasks) < NTask
    /\ \A t \in DOMAIN tasks : tasks[t] = "SUCCESS"
    /\ tasks' = Append(tasks, IF Len(tasks) + 1 \in Interactive THEN "INPUT" ELSE "RUNNING")
    /\ UNCHANGED <<run, reasons>>

EndTask ==
    /\ run = "RUNNING"
    /\ \E t \in DOMAIN tasks, s \in {"SUCCESS", "FAILURE", "TIMEOUT"} :
         tasks[t] = "RUNNING" /\ tasks' = [tasks EXCEPT ![t] = s]
    /\ UNCHANGED <<run, reasons>>

EndRun ==
    /\ run = "RUNNING"
    /\ \/ Len(tasks) = NTask /\ (\A t \in DOMAIN tasks : tasks[t] = "SUCCESS") /\ run' = "SUCCESS"
       \/ \E t \in DOMAIN tasks : tasks[t] \in {"FAILURE", "TIMEOUT"} /\ run' = tasks[t]
    /\ UNCHANGED <<tasks, reasons>>

ServerStep ==
    /\ LeaveQueue \/ StartTask \/ EndTask \/ EndRun
    /\ UNCHANGED <<reruns, runbook, pc, options, polls, seen, asked, verdict, command, overtaken>>

(* What a call does to the execution; one that comes too late does nothing. *)
Resume(t) ==
    /\ tasks' = IF t \in DOMAIN tasks /\ tasks[t] = "INPUT" /\ run \in {"RUNNING", "PAUSED"}
                  THEN [tasks EXCEPT ![t] = "SUCCESS"] ELSE tasks
    /\ UNCHANGED <<run, reasons, reruns, overtaken>>

Pause ==
    /\ run' = IF run = "RUNNING" THEN "PAUSED" ELSE run
    /\ UNCHANGED <<tasks, reasons, reruns, overtaken>>

Play ==
    /\ run' = IF run = "PAUSED" THEN "RUNNING" ELSE run
    /\ UNCHANGED <<tasks, reasons, reruns, overtaken>>

Abort ==
    /\ run' = IF run \in Terminal \cup {"TIMEOUT"} THEN run ELSE "ABORTED"
    /\ tasks' = IF run \in Terminal \cup {"TIMEOUT"} THEN tasks
                ELSE [t \in DOMAIN tasks |-> IF tasks[t] \in {"RUNNING", "INPUT"} THEN "ABORTED"
                                             ELSE tasks[t]]
    /\ reasons' = (reasons \/ run \in Queued)
    /\ UNCHANGED <<reruns, overtaken>>

(* The tasks that did not succeed run once more.                           *)
Rerun ==
    IF run \in Failing /\ ~ reasons
      THEN /\ run' = "RUNNING"
           /\ tasks' = [t \in DOMAIN tasks |->
                          IF tasks[t] = "SUCCESS" THEN "SUCCESS"
                          ELSE IF t \in Interactive THEN "INPUT" ELSE "RUNNING"]
           /\ reruns' = reruns + 1
           /\ overtaken' = Viewer
           /\ UNCHANGED reasons
      ELSE UNCHANGED server

-----------------------------------------------------------------------------
(* run_runbook_command *)

(* The answer of an upload or of the run may be lost, which is an error.    *)
Upload ==
    /\ pc[Runner] = "idle"
    /\ \/ /\ runbook' = IF options.file THEN "there" ELSE "none"
          /\ (Goto(Runner, "run") /\ UNCHANGED verdict) \/ End(Runner, "broken")
       \/ End(Runner, "broken") /\ UNCHANGED runbook
    /\ UNCHANGED <<server, options, polls, seen, asked, command>>

StartRun ==
    /\ pc[Runner] = "run"
    /\ run' = "PENDING"
    /\ (Goto(Runner, "queue") /\ UNCHANGED verdict) \/ End(Runner, "broken")
    /\ UNCHANGED <<tasks, reasons, reruns, overtaken, runbook, options, polls, seen, asked, command>>

(* A watcher is given the uuid of an execution.                            *)
Join(w) ==
    /\ pc[w] = "idle"
    /\ run # "none"
    /\ Goto(w, "queue")
    /\ UNCHANGED <<server, runbook, options, polls, seen, asked, verdict, command>>

Watches(v) == v # Runner \/ options.watch

(* poll_action with get_runlog_status; after MaxPolls it goes on as well.  *)
PollQueue(v) ==
    /\ pc[v] = "queue"
    /\ IF polls[v] < MaxPolls /\ run = "PENDING"
         THEN polls' = [polls EXCEPT ![v] = @ + 1] /\ UNCHANGED <<pc, verdict>>
       ELSE IF polls[v] < MaxPolls /\ run \in Failing /\ reasons
         THEN /\ verdict' = [verdict EXCEPT ![v] = "stopped"]
              /\ Goto(v, "leave") /\ UNCHANGED polls
       ELSE IF Watches(v)
         THEN polls' = [polls EXCEPT ![v] = 0] /\ Goto(v, "watch") /\ UNCHANGED verdict
       ELSE /\ verdict' = [verdict EXCEPT ![v] = "queued"]
            /\ Goto(v, "leave") /\ UNCHANGED polls
    /\ UNCHANGED <<server, runbook, options, seen, asked, command>>

-----------------------------------------------------------------------------
(* watch_runbook: poll_action with is_action_complete *)

Waiting(ts) == {t \in DOMAIN ts : ts[t] = "INPUT"}

PollRunlogs(v) ==
    /\ pc[v] = "watch"
    /\ polls[v] < MaxPolls
    /\ seen' = [seen EXCEPT ![v] = IF run \in Queued \/ reasons THEN Nothing
                                     ELSE [run |-> run, tasks |-> tasks, listed |-> TRUE]]
    /\ asked' = [asked EXCEPT ![v] = Waiting(seen'[v].tasks)]
    /\ overtaken' = overtaken \ {v}
    /\ Goto(v, "react")
    /\ UNCHANGED <<run, tasks, reasons, reruns, runbook, options, polls, verdict, command>>

PollsUsedUp(v) ==
    /\ pc[v] = "watch"
    /\ polls[v] >= MaxPolls
    /\ verdict' = [verdict EXCEPT ![v] = "unknown"]
    /\ Goto(v, "leave")
    /\ UNCHANGED <<server, runbook, options, polls, seen, asked, command>>

(* The user fills in the frame of a task that waits.                       *)
Answer(v) ==
    /\ pc[v] = "react"
    /\ \E t \in asked[v] :
         Resume(t) /\ asked' = [asked EXCEPT ![v] = @ \ {t}]
    /\ UNCHANGED <<runbook, pc, options, polls, seen, verdict, command>>

Runlogs_TasksOnly(s) == IF s.listed THEN s.tasks ELSE <<>> \* Mutant: the runbook's own is left out

(* The runlogs in order of creation: the first that has not succeeded      *)
(* decides.                                                                *)
Runlogs(s) == IF s.listed THEN <<s.run>> \o s.tasks ELSE <<>>

Deciding_AnyRunlog(s, i) == \* Mutant: a failure counts wherever it is
    i \in DOMAIN Runlogs(s) /\ Runlogs(s)[i] # "SUCCESS"

Deciding(s, i) ==
    /\ i \in DOMAIN Runlogs(s)
    /\ Runlogs(s)[i] # "SUCCESS"
    /\ \A j \in 1 .. i - 1 : Runlogs(s)[j] = "SUCCESS"

HasFailed(s) == \E i \in DOMAIN Runlogs(s) : Deciding(s, i) /\ Runlogs(s)[i] \in Failing
HasSucceeded_Last(s) == \* Mutant: only the runlog created last counts
    s.listed /\ (Runlogs(s)[Len(Runlogs(s))] = "SUCCESS")

HasSucceeded(s) == s.listed /\ \A i \in DOMAIN Runlogs(s) : Runlogs(s)[i] = "SUCCESS"

Decide_NoCount(v) == \* Mutant: a poll that decides nothing is not counted
    /\ seen' = [seen EXCEPT ![v] = Nothing]
    /\ IF HasFailed(seen[v])
         THEN Goto(v, "rerun") /\ UNCHANGED <<polls, verdict>>
       ELSE IF HasSucceeded(seen[v])
         THEN /\ verdict' = [verdict EXCEPT ![v] = "succeeded"]
              /\ Goto(v, "leave") /\ UNCHANGED polls
       ELSE Goto(v, "watch") /\ UNCHANGED <<polls, verdict>>

Decide(v) ==
    /\ seen' = [seen EXCEPT ![v] = Nothing]
    /\ IF HasFailed(seen[v])
         THEN Goto(v, "rerun") /\ UNCHANGED <<polls, verdict>>
       ELSE IF HasSucceeded(seen[v])
         THEN /\ verdict' = [verdict EXCEPT ![v] = "succeeded"]
              /\ Goto(v, "leave") /\ UNCHANGED polls
       ELSE polls' = [polls EXCEPT ![v] = @ + 1] /\ Goto(v, "watch") /\ UNCHANGED verdict

React(v) ==
    /\ pc[v] = "react" /\ asked[v] = {}
    /\ Decide(v)
    /\ UNCHANGED <<server, runbook, options, asked, command>>

(* Space pauses or plays by the state of the first runlog.  In any other   *)
(* state no message is bound, unless by a task answered in the same poll:  *)
(* the exception ends the command.                                         *)
Space(v) ==
    /\ pc[v] = "react" /\ asked[v] = {} /\ seen[v].listed
    /\ \/ seen[v].run = "RUNNING" /\ Pause /\ Decide(v)
       \/ seen[v].run = "PAUSED" /\ Play /\ Decide(v)
       \/ /\ seen[v].run \notin {"RUNNING", "PAUSED"}
          /\ IF Waiting(seen[v].tasks) = {}
               THEN End(v, "broken") /\ UNCHANGED <<polls, seen>> ELSE Decide(v)
          /\ UNCHANGED server
    /\ UNCHANGED <<runbook, options, asked, command>>

(* On a terminal the user of a failed execution is asked for a rerun.      *)
AskRerun(v) ==
    /\ pc[v] = "rerun"
    /\ \/ /\ reruns < MaxReruns
          /\ Rerun
          /\ polls' = [polls EXCEPT ![v] = @ + 1]
          /\ Goto(v, "watch") /\ UNCHANGED verdict
       \/ /\ verdict' = [verdict EXCEPT ![v] = "failed"]
          /\ Goto(v, "leave") /\ UNCHANGED <<server, polls>>
    /\ UNCHANGED <<runbook, options, seen, asked, command>>

Leave_OnSuccess(v) == \* Mutant: the runbook is deleted after a success only
    /\ pc[v] = "leave"
    /\ runbook' = IF v = Runner /\ options.file /\ verdict[v] = "succeeded" THEN "deleted"
                  ELSE runbook
    /\ Goto(v, "done")
    /\ UNCHANGED <<server, options, polls, seen, asked, verdict, command>>

(* The runner deletes the runbook it has uploaded.                         *)
Leave(v) ==
    /\ pc[v] = "leave"
    /\ runbook' = IF v = Runner /\ options.file THEN "deleted" ELSE runbook
    /\ Goto(v, "done")
    /\ UNCHANGED <<server, options, polls, seen, asked, verdict, command>>

(* A call fails, which raises, or the user leaves with ctrl-c: sys.exit.   *)
Break(v) ==
    /\ pc[v] \in {"run", "queue", "watch", "react", "rerun", "leave"}
    /\ End(v, "broken")
    /\ seen' = [seen EXCEPT ![v] = Nothing]
    /\ asked' = [asked EXCEPT ![v] = {}]
    /\ UNCHANGED <<server, runbook, options, polls, command>>

-----------------------------------------------------------------------------
(* calm pause, play and abort runbook-execution *)

(* Only abort looks at the state before it sends its command.              *)
Control(c) ==
    /\ pc[c] = "idle"
    /\ run # "none"
    /\ \E k \in Commands :
         /\ command' = [command EXCEPT ![c] = k]
         /\ Goto(c, IF k = "abort" /\ run \in Terminal THEN "done" ELSE "send")
    /\ UNCHANGED <<server, runbook, options, polls, seen, asked, verdict>>

Send(c) ==
    /\ pc[c] = "send"
    /\ \/ command[c] = "pause" /\ Pause
       \/ command[c] = "play" /\ Play
       \/ command[c] = "abort" /\ Abort
    /\ End(c, "sent")
    /\ command' = [command EXCEPT ![c] = "none"]
    /\ UNCHANGED <<runbook, options, polls, seen, asked>>

(* Steps the program takes by itself, and steps of its user.               *)
ViewerStep(v) ==
    \/ (v # Runner /\ Join(v))
    \/ PollQueue(v) \/ PollRunlogs(v) \/ PollsUsedUp(v) \/ React(v) \/ Leave(v)
    \/ (v = Runner /\ (Upload \/ StartRun))

UserStep(v) == Answer(v) \/ Space(v) \/ AskRerun(v) \/ Break(v)

(* An execution that was never started is never joined.                    *)
Finished ==
    /\ \A p \in Process : pc[p] = "done" \/ (pc[p] = "idle" /\ run = "none" /\ pc[Runner] = "done")
    /\ UNCHANGED vars

Next ==
    \/ ServerStep
    \/ \E v \in Viewer : ViewerStep(v) \/ UserStep(v)
    \/ \E c \in Controller : Control(c) \/ Send(c)
    \/ Finished

Spec == Init /\ [][Next]_vars /\ \A v \in Viewer : WF_vars(ViewerStep(v))

-----------------------------------------------------------------------------
(* Properties *)

(* A watch says "Action ran successfully." only of an execution that has   *)
(* ended, with every task of the runbook successful, also those that were  *)
(* not created yet when it was polled.                                     *)
SuccessMeansFinished ==
    \A v \in Viewer : verdict[v] = "succeeded" =>
        run = "SUCCESS" /\ Len(tasks) = NTask /\ \A t \in DOMAIN tasks : tasks[t] = "SUCCESS"

(* A rerun is offered, and a failure reported, only of an execution that   *)
(* has ended: it is over still, or somebody has rerun it since.            *)
FailureMeansFailed ==
    \A v \in Viewer :
        pc[v] = "rerun" \/ verdict[v] \in {"failed", "stopped"} =>
            run \in Failing \/ v \in overtaken

(* What a watch reports of an execution is the truth about the whole of it, *)
(* although it is taken from a listing that others have outdated.          *)
VerdictIsTrue == SuccessMeansFinished /\ FailureMeansFailed

(* The runbook uploaded for a run is there while its execution is watched, *)
(* and gone when the command ends by itself; an exception or ctrl-c is     *)
(* what leaves it behind.                                                  *)
RunbookIsCleanedUp ==
    /\ options.file /\ pc[Runner] \in {"queue", "watch", "react", "rerun"} => runbook = "there"
    /\ options.file /\ pc[Runner] = "done" /\ verdict[Runner] # "broken"
         => runbook = "deleted"

(* It is deleted under a running execution only by a command that does not *)
(* watch, or whose watch ran out of polls, or when somebody else reruns it. *)
DeletedMeansOver ==
    runbook = "deleted" =>
        \/ run \in Terminal
        \/ verdict[Runner] \in {"queued", "unknown"}
        \/ Runner \in overtaken

UserIsAsked(v) == pc[v] = "rerun" \/ (pc[v] = "react" /\ asked[v] # {})

(* Between two questions to its user a viewer makes boundedly many polls:  *)
(* it comes to the next question or to its end, whatever the execution     *)
(* does, even if that is paused, or ends in a state the poll never takes   *)
(* for an end.                                                             *)
WatchEnds ==
    \A v \in Viewer :
        pc[v] \in {"queue", "watch", "leave"} ~> pc[v] = "done" \/ UserIsAsked(v)

(* The comment in is_action_complete: space pauses or plays by the current *)
(* state.  It never ends the command.                                      *)
SpaceIsSafe == [][\A v \in Viewer : Space(v) => pc'[v] # "done"]_vars
===============================================================================
