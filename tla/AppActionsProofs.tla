--------------------------- MODULE AppActionsProofs ---------------------------
(* Theorems about AppActions, for every set of commands and every number of *)
(* tasks and polls.                                                        *)
EXTENDS AppActions, TLAPS

(* A run has no runlog before it is started, and its runbook runlog, which  *)
(* is around its tasks, is the first of them to come and the last to end.  *)
RunInv ==
    \A c \in Command :
        /\ pc[c] \in {"resolve", "act"} => log[c][0] = "absent"
        /\ log[c][0] = "absent" => \A t \in Task : log[c][t] = "absent"
        /\ log[c][0] = "SUCCESS" => \A t \in Task : log[c][t] = "SUCCESS"
        /\ log[c][0] = "FAILURE" => \A t \in Task : log[c][t] # "RUNNING"

TargetInv == \A c \in Command : pc[c] = "act" => target[c] \in App

Reports == SuccessIsComplete /\ FailureIsFinal

IInv == TypeOK /\ RunInv /\ TargetInv /\ Reports

(* The runbook runlog is a runlog. *)
LEMMA ZeroIsTask == 0 \in Task
BY CommandAssumption DEF Task

(* What a name resolves to are applications. *)
LEMMA ResolvedIsApp == ASSUME TypeOK, NEW n PROVE Resolved(n) \subseteq App
BY DEF TypeOK, Resolved, Listed

(* A verdict on the runlogs listed is one on the whole run.                *)
LEMMA VerdictOfTheRun ==
    ASSUME TypeOK, RunInv, NEW c \in Command
    PROVE  /\ Verdict(c) \in {"none", "succeeded", "failed"}
           /\ Verdict(c) = "succeeded" => log[c][0] = "SUCCESS"
           /\ Verdict(c) = "failed" => log[c][0] = "FAILURE"
<1> DEFINE open == {t \in Runlogs(c) : log[c][t] # "SUCCESS"}
           first == CHOOSE t \in open : \A u \in open : t <= u
<1>1. Verdict(c) = IF Runlogs(c) = {} THEN "none"
                   ELSE IF open = {} THEN "succeeded"
                   ELSE IF log[c][first] = "FAILURE" THEN "failed" ELSE "none"
  BY DEF Verdict
<1>2. Runlogs(c) \subseteq Task /\ \A t \in Runlogs(c) : log[c][t] # "absent"
  BY DEF Runlogs
<1>3. Runlogs(c) # {} => 0 \in Runlogs(c)
  BY <1>2, ZeroIsTask DEF RunInv, Runlogs
<1>4. ASSUME Runlogs(c) # {}, open = {} PROVE log[c][0] = "SUCCESS"
  BY <1>3, <1>4
<1>5. ASSUME open # {} PROVE first = 0
  <2>1. 0 \in open
    <3>1. log[c][0] # "SUCCESS"
      BY <1>2, <1>5 DEF RunInv
    <3> QED
      BY <1>3, <1>5, <3>1
  <2>2. \A u \in open : u \in Nat
    BY <1>2, CommandAssumption DEF Task
  <2>3. \A u \in open : 0 <= u
    BY <2>2
  <2>4. first \in open /\ \A u \in open : first <= u
    BY <2>1, <2>3
  <2> HIDE DEF open, first
  <2>5. first \in Nat /\ first <= 0
    BY <2>1, <2>2, <2>4
  <2> QED
    BY <2>5
<1> HIDE DEF open, first
<1> QED
  BY <1>1, <1>4, <1>5

(* The initial states satisfy the inductive invariant. *)
LEMMA InitIInv == Init => IInv
BY CommandAssumption, ZeroIsTask
   DEF Init, IInv, TypeOK, RunInv, TargetInv, Reports, SuccessIsComplete, FailureIsFinal

(* Every step of a command keeps the types. *)
LEMMA CommandTypes ==
    ASSUME TypeOK, TargetInv, RunInv, NEW c \in Command, CommandStep(c)
    PROVE  TypeOK' /\ TargetInv'
<1> USE ZeroIsTask DEF TypeOK, TargetInv, Goto, Ended
<1>1. CASE Resolve(c)
  <2>1. ASSUME NEW a \in Resolved(Query(c)), target' = [target EXCEPT ![c] = a], Goto(c, "act")
        PROVE TypeOK' /\ TargetInv'
    <3>1. a \in App
      BY ResolvedIsApp
    <3> QED
      BY <1>1, <2>1, <3>1 DEF Resolve
  <2>2. ASSUME Goto(c, "failed"), UNCHANGED target PROVE TypeOK' /\ TargetInv'
    BY <1>1, <2>2 DEF Resolve
  <2> QED
    BY <1>1, <2>1, <2>2 DEF Resolve
<1>2. CASE DeleteApp(c)
  <2>1. at' = at \/ at' = [at EXCEPT ![c] = @ + 1]
    BY <1>2 DEF DeleteApp
  <2>2. at' \in [Command -> Nat]
    BY <2>1
  <2>3. alive' \subseteq App
    BY <1>2 DEF DeleteApp
  <2>4. Goto(c, "resolve") \/ Goto(c, "failed")
    BY <1>2 DEF DeleteApp
  <2>5. UNCHANGED <<target, ran, log, watched, polls, report>>
    BY <1>2 DEF DeleteApp
  <2> QED
    BY <2>2, <2>3, <2>4, <2>5
<1>3. CASE DeletesDone(c)
  BY <1>3 DEF DeletesDone
<1>4. CASE RunAction(c)
  <2>1. target[c] \in App
    BY <1>4 DEF RunAction
  <2>2. Goto(c, "rewatch") \/ Goto(c, "failed")
    BY <1>4 DEF RunAction
  <2>3. ran' = ran \/ ran' = [ran EXCEPT ![c] = target[c]]
    BY <1>4 DEF RunAction
  <2>4. log' = log \/ log' = [log EXCEPT ![c][0] = "RUNNING"]
    BY <1>4 DEF RunAction
  <2>5. UNCHANGED <<at, target, alive, watched, polls, report>>
    BY <1>4 DEF RunAction
  <2>6. ran' \in [Command -> App \cup {NoApp}]
    BY <2>1, <2>3
  <2>7. log' \in [Command -> [Task -> {"absent", "RUNNING", "SUCCESS", "FAILURE"}]]
    <3>1. CASE log' = log
      BY <3>1
    <3>2. CASE log' = [log EXCEPT ![c][0] = "RUNNING"]
      <4>1. [log[c] EXCEPT ![0] = "RUNNING"] \in [Task -> {"absent", "RUNNING", "SUCCESS", "FAILURE"}]
        OBVIOUS
      <4> QED
        BY <3>2, <4>1
    <3> QED
      BY <2>4, <3>1, <3>2
  <2>8. /\ pc' \in [Command -> {"resolve", "act", "rewatch", "watch"} \cup Ended]
        /\ \A d \in Command : pc'[d] = "act" => pc[d] = "act"
    BY <2>2
  <2> QED
    BY <2>5, <2>6, <2>7, <2>8
<1>5. CASE ResolveAgain(c)
  <2>1. ASSUME NEW a \in Resolved(Query(c)), watched' = [watched EXCEPT ![c] = a], Goto(c, "watch")
        PROVE TypeOK' /\ TargetInv'
    <3>1. a \in App
      BY ResolvedIsApp
    <3> QED
      BY <1>5, <2>1, <3>1 DEF ResolveAgain
  <2>2. ASSUME Goto(c, "failed"), UNCHANGED watched PROVE TypeOK' /\ TargetInv'
    BY <1>5, <2>2 DEF ResolveAgain
  <2> QED
    BY <1>5, <2>1, <2>2 DEF ResolveAgain
<1>6. CASE WatchPoll(c)
  <2>1. Verdict(c) \in {"none", "succeeded", "failed"}
    BY VerdictOfTheRun
  <2>2. polls' \in [Command -> Nat] /\ report' \in [Command -> {"none", "succeeded", "failed"}]
    <3>1. CASE Verdict(c) = "none"
      BY <1>6, <3>1 DEF WatchPoll
    <3>2. CASE Verdict(c) # "none"
      <4>1. UNCHANGED polls /\ (UNCHANGED report \/ report' = [report EXCEPT ![c] = Verdict(c)])
        BY <1>6, <3>2 DEF WatchPoll
      <4> QED
        BY <2>1, <3>2, <4>1
    <3> QED
      BY <3>1, <3>2
  <2>3. UNCHANGED pc \/ Goto(c, "done") \/ Goto(c, "failed")
    BY <1>6 DEF WatchPoll
  <2>4. UNCHANGED <<at, target, alive, ran, log, watched>>
    BY <1>6 DEF WatchPoll
  <2> QED
    BY <2>2, <2>3, <2>4
<1>7. CASE WatchTimeout(c)
  BY <1>7 DEF WatchTimeout
<1> QED
  BY <1>1, <1>2, <1>3, <1>4, <1>5, <1>6, <1>7 DEF CommandStep

(* A command starts its run once; the rest of its steps leave runs alone.  *)
LEMMA CommandRuns ==
    ASSUME TypeOK, RunInv, NEW c \in Command, CommandStep(c) PROVE RunInv'
<1> USE ZeroIsTask DEF TypeOK, RunInv, Goto, Ended
<1>1. ASSUME UNCHANGED log,
             \/ UNCHANGED pc
             \/ \E s : s \notin {"resolve", "act"} /\ pc' = [pc EXCEPT ![c] = s]
             \/ pc[c] \in {"resolve", "act"} /\ \E s : pc' = [pc EXCEPT ![c] = s]
      PROVE  RunInv'
  BY <1>1
<1>2. CASE Resolve(c) \/ DeleteApp(c) \/ DeletesDone(c)
  <2>1. UNCHANGED log /\ pc[c] \in {"resolve", "act"} /\ \E s : pc' = [pc EXCEPT ![c] = s]
    BY <1>2 DEF Resolve, DeleteApp, DeletesDone
  <2> QED
    BY <1>1, <2>1
<1>3. CASE RunAction(c)
  <2>1. CASE log' = [log EXCEPT ![c][0] = "RUNNING"]
    <3>1. \E s \in {"rewatch", "failed"} : pc' = [pc EXCEPT ![c] = s]
      BY <1>3 DEF RunAction
    <3>2. /\ log'[c][0] = "RUNNING" /\ pc'[c] \in {"rewatch", "failed"}
          /\ \A d \in Command \ {c} : log'[d] = log[d] /\ pc'[d] = pc[d]
      BY <2>1, <3>1
    <3> QED
      BY <3>2
  <2>2. CASE UNCHANGED log /\ pc[c] = "act" /\ Goto(c, "failed")
    BY <1>1, <2>2
  <2> QED
    BY <1>3, <2>1, <2>2 DEF RunAction
<1>4. CASE ResolveAgain(c) \/ WatchPoll(c) \/ WatchTimeout(c)
  <2>1. /\ UNCHANGED log
        /\ \/ UNCHANGED pc
           \/ \E s : s \notin {"resolve", "act"} /\ pc' = [pc EXCEPT ![c] = s]
    BY <1>4 DEF ResolveAgain, WatchPoll, WatchTimeout
  <2> QED
    BY <1>1, <2>1
<1> QED
  BY <1>2, <1>3, <1>4 DEF CommandStep

(* What has been reported stays true, and what is reported is.             *)
LEMMA CommandReports ==
    ASSUME TypeOK, RunInv, Reports, NEW c \in Command, CommandStep(c) PROVE Reports'
<1> USE ZeroIsTask DEF TypeOK, RunInv, Reports, SuccessIsComplete, FailureIsFinal
<1>1. CASE RunAction(c)
  <2>1. report' = report /\ report[c] = "none"
    BY <1>1 DEF RunAction
  <2>2. \A d \in Command \ {c} : log'[d] = log[d]
    BY <1>1 DEF RunAction
  <2> QED
    BY <2>1, <2>2
<1>2. CASE WatchPoll(c)
  <2>1. UNCHANGED log
    BY <1>2 DEF WatchPoll
  <2>2. UNCHANGED report \/ report' = [report EXCEPT ![c] = Verdict(c)]
    BY <1>2 DEF WatchPoll
  <2>3. /\ Verdict(c) = "succeeded" => log[c][0] = "SUCCESS"
        /\ Verdict(c) = "failed" => log[c][0] = "FAILURE"
    BY VerdictOfTheRun
  <2> QED
    BY <2>1, <2>2, <2>3
<1>3. CASE Resolve(c) \/ DeleteApp(c) \/ DeletesDone(c) \/ ResolveAgain(c) \/ WatchTimeout(c)
  <2>1. UNCHANGED <<log, report>>
    BY <1>3 DEF Resolve, DeleteApp, DeletesDone, ResolveAgain, WatchTimeout
  <2> QED
    BY <2>1
<1> QED
  BY <1>1, <1>2, <1>3 DEF CommandStep

(* The server changes a run only until it has ended.                       *)
LEMMA ServerIInv ==
    ASSUME IInv, NEW c \in Command, ServerStep(c) PROVE IInv'
<1> USE ZeroIsTask DEF IInv, TypeOK, RunInv
<1>1. UNCHANGED <<pc, at, target, alive, ran, watched, polls, report>>
  BY DEF ServerStep, EndRun, StartTask, EndTask
<1>2. ASSUME NEW t \in Task, StartTask(c, t)
      PROVE  TypeOK' /\ RunInv' /\ log[c][0] = "RUNNING" /\ \A d \in Command \ {c} : log'[d] = log[d]
  BY <1>2, <1>1 DEF StartTask, Task
<1>3. ASSUME NEW t \in Task, EndTask(c, t)
      PROVE  TypeOK' /\ RunInv' /\ log[c][0] = "RUNNING" /\ \A d \in Command \ {c} : log'[d] = log[d]
  <2>1. log[c][0] = "RUNNING"
    BY <1>3 DEF EndTask
  <2>2. PICK s \in {"SUCCESS", "FAILURE"} : log' = [log EXCEPT ![c][t] = s]
    BY <1>3 DEF EndTask
  <2>3. t # 0
    BY <1>3 DEF EndTask
  <2> QED
    BY <1>1, <2>1, <2>2, <2>3
<1>4. ASSUME EndRun(c)
      PROVE  TypeOK' /\ RunInv' /\ log[c][0] = "RUNNING" /\ \A d \in Command \ {c} : log'[d] = log[d]
  <2>1. log[c][0] = "RUNNING" /\ \A t \in Task \ {0} : log[c][t] # "RUNNING"
    BY <1>4 DEF EndRun
  <2>2. CASE log' = [log EXCEPT ![c][0] = "FAILURE"]
    BY <1>1, <2>1, <2>2
  <2>3. CASE log' = [log EXCEPT ![c][0] = "SUCCESS"] /\ \A t \in Task \ {0} : log[c][t] = "SUCCESS"
    BY <1>1, <2>1, <2>3
  <2> QED
    BY <1>4, <2>2, <2>3 DEF EndRun
<1>5. TypeOK' /\ RunInv' /\ log[c][0] = "RUNNING" /\ \A d \in Command \ {c} : log'[d] = log[d]
  BY <1>2, <1>3, <1>4 DEF ServerStep
<1>6. TargetInv'
  BY <1>1 DEF TargetInv
<1>7. Reports'
  <2>1. report[c] = "none"
    BY <1>5 DEF Reports, SuccessIsComplete, FailureIsFinal
  <2>2. report'[c] = "none" /\ \A d \in Command \ {c} : report'[d] = report[d] /\ log'[d] = log[d]
    BY <1>1, <1>5, <2>1
  <2>3. SuccessIsComplete'
    BY <2>2 DEF Reports, SuccessIsComplete
  <2>4. FailureIsFinal'
    BY <2>2 DEF Reports, FailureIsFinal
  <2> QED
    BY <2>3, <2>4 DEF Reports
<1> QED
  BY <1>5, <1>6, <1>7

LEMMA StepIInv == IInv /\ [Next]_vars => IInv'
<1>1. ASSUME IInv, UNCHANGED vars PROVE IInv'
  BY <1>1 DEF IInv, TypeOK, RunInv, TargetInv, Reports, SuccessIsComplete, FailureIsFinal, vars
<1>2. ASSUME IInv, NEW c \in Command, CommandStep(c) PROVE IInv'
  BY <1>2, CommandTypes, CommandRuns, CommandReports DEF IInv
<1> QED
  BY <1>1, <1>2, ServerIInv DEF Next, Finished

(* The inductive invariant holds in every reachable state. *)
THEOREM Invariant == Spec => []IInv
BY InitIInv, StepIInv, PTL DEF Spec

(* Every variable keeps its type. *)
THEOREM TypeCorrect == Spec => []TypeOK
BY Invariant, PTL DEF IInv

(* A watch reports success only of a complete run, failure only of an ended *)
(* one, whatever the server created or ended between two polls.            *)
THEOREM ReportSound == Spec => []ReportIsTrue
BY Invariant, PTL DEF IInv, Reports, ReportIsTrue
=============================================================================
