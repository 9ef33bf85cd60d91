---------------------------- MODULE RunbookRunProofs ----------------------------
(***************************************************************************)
(* For any number of viewers, controllers, tasks, polls and reruns: a      *)
(* watch that ends with a success or a failure is right about the          *)
(* execution, and the uploaded runbook is there as long as it is needed.   *)
(***************************************************************************)
EXTENDS RunbookRun, SequenceTheorems, TLAPS

ServerTypes ==
    /\ run \in RunState
    /\ tasks \in Seq(TaskState) /\ Len(tasks) <= NTask
    /\ reasons \in BOOLEAN
    /\ reruns \in Nat
    /\ overtaken \subseteq Viewer

(* An execution succeeds with all its tasks, and has reasons if it failed. *)
RunInv ==
    /\ run = "SUCCESS" => Len(tasks) = NTask /\ \A t \in DOMAIN tasks : tasks[t] = "SUCCESS"
    /\ reasons => run \in Failing

(* How the execution changes: a success is final, and a failure is until a *)
(* rerun overtakes every viewer.                                           *)
Evolves ==
    /\ run # "none" => run' # "none"
    /\ run = "SUCCESS" => run' = "SUCCESS" /\ tasks' = tasks
    /\ run \in Failing => run' \in Failing \/ overtaken' = Viewer
    /\ reasons => reasons'

(* A function on the domain of a sequence is a sequence of its length. *)
LEMMA SameShape ==
    ASSUME NEW S, NEW T, NEW s \in Seq(S), NEW f \in [DOMAIN s -> T]
    PROVE  f \in Seq(T) /\ Len(f) = Len(s) /\ DOMAIN f = DOMAIN s
<1>1. Len(s) \in Nat /\ DOMAIN s = 1 .. Len(s)
  BY LenProperties
<1>2. f \in Seq(T)
  <2> DEFINE n == Len(s)
             g == [i \in 1 .. n |-> f[i]]
  <2>1. f = g /\ \A i \in 1 .. n : f[i] \in T
    BY <1>1
  <2>2. n \in Nat
    BY <1>1
  <2> HIDE DEF n
  <2>3. g \in Seq(T)
    BY <2>1, <2>2
  <2> QED
    BY <2>1, <2>3
<1>3. DOMAIN f = 1 .. Len(f) /\ Len(f) \in Nat
  BY <1>2, LenProperties
<1> QED
  BY <1>1, <1>2, <1>3

(* A list of runlogs starts with that of the runbook itself. *)
LEMMA RunlogsShape ==
    ASSUME NEW s \in Snapshot, s.listed
    PROVE  /\ DOMAIN Runlogs(s) = 1 .. Len(s.tasks) + 1
           /\ Len(s.tasks) \in Nat /\ DOMAIN s.tasks = 1 .. Len(s.tasks)
           /\ Runlogs(s)[1] = s.run
           /\ \A i \in 2 .. Len(s.tasks) + 1 : Runlogs(s)[i] = s.tasks[i - 1]
<1> DEFINE S == RunState \cup TaskState
<1>1. <<s.run>> \in Seq(S) /\ s.tasks \in Seq(S) /\ Len(<<s.run>>) = 1 /\ <<s.run>>[1] = s.run
  BY SeqMonotonic DEF Snapshot
<1>2. Runlogs(s) = <<s.run>> \o s.tasks
  BY DEF Runlogs
<1>3. Len(s.tasks) \in Nat /\ DOMAIN s.tasks = 1 .. Len(s.tasks)
  BY <1>1, LenProperties
<1> HIDE DEF S
<1>4. /\ Runlogs(s) \in Seq(S) /\ Len(Runlogs(s)) = 1 + Len(s.tasks)
      /\ \A i \in 1 .. 1 + Len(s.tasks) :
           Runlogs(s)[i] = IF i <= 1 THEN <<s.run>>[i] ELSE s.tasks[i - 1]
  BY <1>1, <1>2, ConcatProperties
<1>5. DOMAIN Runlogs(s) = 1 .. 1 + Len(s.tasks)
  BY <1>4, LenProperties
<1> QED
  BY <1>1, <1>3, <1>4, <1>5

(* What a failure and a success say of the snapshot they are read from. *)
LEMMA FailureRead ==
    ASSUME NEW s \in Snapshot, HasFailed(s)
    PROVE  /\ s.listed
           /\ \/ s.run \in Failing
              \/ s.run = "SUCCESS" /\ \E t \in DOMAIN s.tasks : s.tasks[t] # "SUCCESS"
<1>1. PICK i \in DOMAIN Runlogs(s) : Deciding(s, i) /\ Runlogs(s)[i] \in Failing
  BY DEF HasFailed
<1>2. s.listed
  <2> SUFFICES ASSUME ~ s.listed PROVE FALSE
    OBVIOUS
  <2>1. Runlogs(s) = << >>
    BY DEF Runlogs
  <2> QED
    BY <1>1, <2>1
<1>3. CASE i = 1
  BY <1>1, <1>2, <1>3, RunlogsShape
<1>4. CASE i # 1
  <2>1. i \in 2 .. Len(s.tasks) + 1 /\ 1 \in 1 .. i - 1
    BY <1>2, <1>4, RunlogsShape
  <2>2. s.run = "SUCCESS"
    BY <1>1, <1>2, <2>1, RunlogsShape DEF Deciding
  <2>3. i - 1 \in DOMAIN s.tasks /\ s.tasks[i - 1] # "SUCCESS"
    BY <1>1, <1>2, <2>1, RunlogsShape DEF Deciding
  <2> QED
    BY <1>2, <2>2, <2>3
<1> QED
  BY <1>3, <1>4

LEMMA SuccessRead ==
    ASSUME NEW s \in Snapshot, HasSucceeded(s)
    PROVE  s.listed /\ s.run = "SUCCESS"
<1>1. s.listed
  BY DEF HasSucceeded
<1>2. 1 \in DOMAIN Runlogs(s) /\ Runlogs(s)[1] = s.run
  BY <1>1, RunlogsShape
<1> QED
  BY <1>1, <1>2 DEF HasSucceeded

-----------------------------------------------------------------------------
(* What the server does, by itself or when it is called. *)
LEMMA ServerEffect ==
    ASSUME RunAssumption, ServerTypes, RunInv,
           \/ (LeaveQueue \/ StartTask \/ EndTask \/ EndRun) /\ UNCHANGED <<reruns, overtaken>>
           \/ (\E t \in 1 .. NTask : Resume(t)) \/ Pause \/ Play \/ Rerun
           \/ Abort
           \/ UNCHANGED server
    PROVE  ServerTypes' /\ RunInv' /\ Evolves /\ overtaken \subseteq overtaken'
<1> USE DEF ServerTypes, RunInv, Evolves, RunState, TaskState, Terminal, Failing, Queued
<1>0. Len(tasks) \in Nat /\ DOMAIN tasks = 1 .. Len(tasks)
  BY LenProperties
<1>1. CASE LeaveQueue /\ UNCHANGED <<reruns, overtaken>>
  <2>1. ~ reasons /\ run \in {"PENDING", "POLICY_EXEC"} /\ tasks' = tasks
    BY <1>1 DEF LeaveQueue
  <2>2. \/ run' \in {"POLICY_EXEC", "RUNNING"} /\ reasons' = reasons
        \/ run' = "FAILURE" /\ reasons' = TRUE
    BY <1>1 DEF LeaveQueue
  <2>3. UNCHANGED <<reruns, overtaken>>
    BY <1>1
  <2>4. CASE run' \in {"POLICY_EXEC", "RUNNING"} /\ reasons' = reasons
    BY <2>1, <2>3, <2>4
  <2>5. CASE run' = "FAILURE" /\ reasons' = TRUE
    BY <2>1, <2>3, <2>5
  <2> QED
    BY <2>2, <2>4, <2>5
<1>2. CASE StartTask /\ UNCHANGED <<reruns, overtaken>>
  BY <1>2, <1>0 DEF StartTask, RunAssumption
<1>3. CASE EndTask /\ UNCHANGED <<reruns, overtaken>>
  <2>1. PICK t \in DOMAIN tasks, s \in {"SUCCESS", "FAILURE", "TIMEOUT"} :
          tasks' = [tasks EXCEPT ![t] = s]
    BY <1>3 DEF EndTask
  <2>2. tasks' \in [DOMAIN tasks -> TaskState]
    BY <2>1, <1>0
  <2>3. tasks' \in Seq(TaskState) /\ Len(tasks') = Len(tasks)
    BY <2>2, SameShape
  <2> QED
    BY <1>3, <2>3 DEF EndTask
<1>4. CASE EndRun /\ UNCHANGED <<reruns, overtaken>>
  BY <1>4 DEF EndRun
<1>5. CASE \E t \in 1 .. NTask : Resume(t)
  <2>1. PICK t \in 1 .. NTask : Resume(t)
    BY <1>5
  <2>2. tasks' \in [DOMAIN tasks -> TaskState]
    BY <2>1, <1>0 DEF Resume
  <2>3. tasks' \in Seq(TaskState) /\ Len(tasks') = Len(tasks)
    BY <2>2, SameShape
  <2> QED
    BY <2>1, <2>3 DEF Resume
<1>6. CASE Pause \/ Play
  BY <1>6 DEF Pause, Play
<1>7. CASE Rerun
  <2>1. tasks' \in [DOMAIN tasks -> TaskState]
    BY <1>7, <1>0 DEF Rerun, server
  <2>2. tasks' \in Seq(TaskState) /\ Len(tasks') = Len(tasks)
    BY <2>1, SameShape
  <2> QED
    BY <1>7, <2>2 DEF Rerun, server
<1>8. CASE Abort
  <2>1. tasks' \in [DOMAIN tasks -> TaskState]
    BY <1>8, <1>0 DEF Abort
  <2>2. tasks' \in Seq(TaskState) /\ Len(tasks') = Len(tasks)
    BY <2>1, SameShape
  <2> QED
    BY <1>8, <2>2 DEF Abort
<1>9. CASE UNCHANGED server
  BY <1>9 DEF server
<1> QED
  BY <1>1, <1>2, <1>3, <1>4, <1>5, <1>6, <1>7, <1>8, <1>9

-----------------------------------------------------------------------------
LocalTypes ==
    /\ runbook \in {"none", "there", "deleted"}
    /\ pc \in [Process -> {"idle", "run", "queue", "watch", "react", "rerun", "send",
                           "leave", "done"}]
    /\ options \in [file : BOOLEAN, watch : BOOLEAN]
    /\ polls \in [Viewer -> Nat]
    /\ seen \in [Viewer -> Snapshot]
    /\ asked \in [Viewer -> SUBSET (1 .. NTask)]
    /\ verdict \in [Process -> {"none", "queued", "stopped", "succeeded", "failed", "unknown",
                                "sent", "broken"}]
    /\ command \in [Controller -> Commands \cup {"none"}]

(* A command is only sent to an execution that was started. *)
StartInv ==
    /\ pc[Runner] \in {"idle", "run"} => run = "none"
    /\ \A c \in Controller : pc[c] = "send" => run # "none"

(* A snapshot of a success is exact, one of a failure unless overtaken. *)
SeenInv ==
    \A v \in Viewer : seen[v].listed =>
        /\ seen[v].run = "SUCCESS" => run = "SUCCESS" /\ seen[v].tasks = tasks
        /\ seen[v].run \in Failing => run \in Failing \/ v \in overtaken

(* So are the verdicts, which only those who leave have. *)
VerdictInv ==
    \A v \in Viewer :
        /\ pc[v] \notin {"leave", "done"} => verdict[v] = "none"
        /\ pc[v] = "leave" => verdict[v] \in {"queued", "stopped", "succeeded", "failed", "unknown"}
        /\ verdict[v] = "succeeded" => run = "SUCCESS"
        /\ verdict[v] = "stopped" => reasons
        /\ pc[v] = "rerun" \/ verdict[v] = "failed" => run \in Failing \/ v \in overtaken

RunbookInv ==
    /\ options.file /\ pc[Runner] \in {"run", "queue", "watch", "react", "rerun", "leave"}
         => runbook = "there"
    /\ options.file /\ pc[Runner] = "done" /\ verdict[Runner] # "broken"
         => runbook = "deleted"
    /\ runbook = "deleted" =>
         /\ pc[Runner] = "done"
         /\ verdict[Runner] \in {"queued", "stopped", "succeeded", "failed", "unknown"}

LocalInv == LocalTypes /\ StartInv /\ SeenInv /\ VerdictInv /\ RunbookInv

IInv == ServerTypes /\ RunInv /\ LocalInv

LEMMA InitIInv == Init => IInv
<1> SUFFICES ASSUME Init PROVE IInv
  OBVIOUS
<1> USE DEF Init
<1>1. ServerTypes /\ RunInv
  <2>1. tasks \in Seq(TaskState) /\ Len(tasks) = 0
    BY EmptySeq
  <2>2. run = "none" /\ reasons = FALSE /\ reruns = 0 /\ overtaken = {}
    OBVIOUS
  <2> HIDE DEF Init
  <2>3. Len(tasks) <= NTask
    BY <2>1, RunAssumption
  <2>4. run \in RunState
    BY <2>2 DEF RunState, Queued
  <2>5. reasons \in BOOLEAN /\ reruns \in Nat /\ overtaken \subseteq Viewer
    BY <2>2
  <2>6. ServerTypes
    BY <2>1, <2>3, <2>4, <2>5 DEF ServerTypes
  <2> QED
    BY <2>2, <2>6 DEF RunInv
<1>2. Nothing \in Snapshot /\ ~ Nothing.listed
  BY DEF Nothing, Snapshot, RunState, Queued
<1>3. LocalTypes
  BY <1>2 DEF LocalTypes
<1>4. StartInv /\ SeenInv /\ VerdictInv /\ RunbookInv
  BY <1>2 DEF StartInv, SeenInv, VerdictInv, RunbookInv, Process, Viewer
<1> QED
  BY <1>1, <1>3, <1>4 DEF IInv, LocalInv

(* The execution goes on, and no process moves. *)
LEMMA ServerStepInv ==
    ASSUME LocalInv, RunInv', Evolves, overtaken \subseteq overtaken', UNCHANGED <<runbook, pc, options, verdict>>,
           LocalTypes', run = "none" => run' = "none",
           \A v \in Viewer : seen'[v] = seen[v] \/ ~ seen'[v].listed
    PROVE  LocalInv'
<1> USE DEF LocalInv, Evolves, RunInv
<1>1. StartInv' /\ RunbookInv'
  BY DEF StartInv, RunbookInv
<1>2. SeenInv'
  BY DEF SeenInv
<1>3. VerdictInv'
  BY DEF VerdictInv
<1> QED
  BY <1>1, <1>2, <1>3

(* One process moves, not into a position the invariant says anything of   *)
(* but its verdict.                                                        *)
LEMMA MoveInv ==
    ASSUME LocalInv, LocalTypes', RunInv', Evolves, overtaken \subseteq overtaken',
           run = "none" => run' = "none",
           UNCHANGED <<options, runbook>>,
           NEW v \in Viewer,
           pc[v] \in {"queue", "watch", "react", "rerun"} \/ (pc[v] = "idle" /\ v # Runner),
           \A p \in Process \ {v} : pc'[p] = pc[p] /\ verdict'[p] = verdict[p],
           \A w \in Viewer : seen'[w] = seen[w] \/ ~ seen'[w].listed,
           \/ pc'[v] \in {"queue", "watch", "react"} /\ verdict'[v] = "none"
           \/ pc'[v] = "done" /\ verdict'[v] = "broken"
           \/ /\ pc'[v] = "rerun" /\ verdict'[v] = "none"
              /\ run' \in Failing \/ v \in overtaken'
           \/ /\ pc'[v] = "leave"
              /\ \/ verdict'[v] \in {"queued", "unknown"}
                 \/ verdict'[v] = "succeeded" /\ run' = "SUCCESS"
                 \/ verdict'[v] = "stopped" /\ reasons'
                 \/ verdict'[v] = "failed" /\ (run' \in Failing \/ v \in overtaken')
    PROVE  LocalInv'
<1> USE DEF LocalInv, Evolves, RunInv
<1>1. v \in Process /\ Runner \in Process /\ Runner \in Viewer
  BY DEF Process, Viewer
<1>2. StartInv'
  BY <1>1 DEF StartInv, Process
<1>3. RunbookInv'
  BY <1>1 DEF RunbookInv
<1>4. SeenInv'
  BY DEF SeenInv
<1>5. VerdictInv'
  <2> SUFFICES ASSUME NEW w \in Viewer
               PROVE  /\ pc'[w] \notin {"leave", "done"} => verdict'[w] = "none"
                      /\ pc'[w] = "leave" => verdict'[w] \in {"queued", "stopped", "succeeded", "failed", "unknown"}
                      /\ verdict'[w] = "succeeded" => run' = "SUCCESS"
                      /\ verdict'[w] = "stopped" => reasons'
                      /\ pc'[w] = "rerun" \/ verdict'[w] = "failed" => run' \in Failing \/ w \in overtaken'
    BY DEF VerdictInv
  <2>1. CASE w = v
    BY <2>1
  <2>2. CASE w # v
    BY <2>2 DEF VerdictInv, Process
  <2> QED
    BY <2>1, <2>2
<1> QED
  BY <1>2, <1>3, <1>4, <1>5
(* What a viewer reads from its snapshot is so, or was overtaken. *)
LEMMA DecideRead ==
    ASSUME IInv, NEW v \in Viewer
    PROVE  /\ HasFailed(seen[v]) => run \in Failing \/ v \in overtaken
           /\ HasSucceeded(seen[v]) => run = "SUCCESS"
<1>1. seen[v] \in Snapshot
  BY DEF IInv, LocalInv, LocalTypes
<1>2. ASSUME HasFailed(seen[v]) PROVE run \in Failing \/ v \in overtaken
  <2>1. /\ seen[v].listed
        /\ \/ seen[v].run \in Failing
           \/ seen[v].run = "SUCCESS" /\ \E t \in DOMAIN seen[v].tasks : seen[v].tasks[t] # "SUCCESS"
    BY <1>1, <1>2, FailureRead
  <2> QED
    BY <2>1 DEF IInv, LocalInv, SeenInv, RunInv
<1>3. ASSUME HasSucceeded(seen[v]) PROVE run = "SUCCESS"
  <2>1. seen[v].listed /\ seen[v].run = "SUCCESS"
    BY <1>1, <1>3, SuccessRead
  <2> QED
    BY <2>1 DEF IInv, LocalInv, SeenInv
<1> QED
  BY <1>2, <1>3

LEMMA NothingIsEmpty == Nothing \in Snapshot /\ ~ Nothing.listed /\ Waiting(Nothing.tasks) = {}
BY DEF Nothing, Snapshot, RunState, Queued, Waiting

(* A viewer that polls gets the execution as it is. *)
LEMMA PollInv ==
    ASSUME IInv, NEW v \in Viewer, PollRunlogs(v)
    PROVE  IInv'
<1> USE DEF IInv, LocalInv, Goto
<1>1. pc[v] = "watch" /\ pc' = [pc EXCEPT ![v] = "react"] /\ v \in Process
  BY DEF PollRunlogs, Process
<1>2. /\ UNCHANGED <<run, tasks, reasons, reruns, runbook, options, polls, verdict, command>>
      /\ overtaken' = overtaken \ {v}
  BY DEF PollRunlogs
<1>3. ServerTypes' /\ RunInv'
  BY <1>2 DEF ServerTypes, RunInv
<1> DEFINE snap == IF run \in Queued \/ reasons THEN Nothing
                   ELSE [run |-> run, tasks |-> tasks, listed |-> TRUE]
<1>4. /\ seen' = [seen EXCEPT ![v] = snap]
      /\ asked' = [asked EXCEPT ![v] = Waiting(seen'[v].tasks)]
  BY DEF PollRunlogs
<1>5. snap \in Snapshot
  BY NothingIsEmpty DEF Snapshot, ServerTypes
<1>6. snap.listed => snap.run = run /\ snap.tasks = tasks
  BY NothingIsEmpty
<1>7. Waiting(snap.tasks) \subseteq 1 .. NTask
  <2>1. DOMAIN tasks \subseteq 1 .. NTask
    <3>1. DOMAIN tasks = 1 .. Len(tasks) /\ Len(tasks) \in Nat
      BY LenProperties DEF ServerTypes
    <3> QED
      BY <3>1, RunAssumption DEF ServerTypes
  <2> QED
    BY <2>1, NothingIsEmpty DEF Waiting
<1> HIDE DEF snap
<1>8. seen'[v] = snap /\ \A w \in Viewer \ {v} : seen'[w] = seen[w]
  BY <1>4 DEF LocalTypes
<1>9. LocalTypes'
  BY <1>1, <1>2, <1>4, <1>5, <1>7, <1>8 DEF LocalTypes
<1>10. SeenInv'
  BY <1>2, <1>6, <1>8 DEF SeenInv
<1>11. verdict[v] = "none"
  BY <1>1 DEF VerdictInv
<1>12. VerdictInv'
  BY <1>1, <1>2, <1>11 DEF VerdictInv, LocalTypes, Process
<1>13. StartInv' /\ RunbookInv'
  BY <1>1, <1>2 DEF StartInv, RunbookInv, LocalTypes, Process
<1> QED
  BY <1>3, <1>9, <1>10, <1>12, <1>13
(* The steps of a viewer that leave the uploaded runbook alone. *)
LEMMA ViewerInv ==
    ASSUME IInv, NEW v \in Viewer,
           \/ (v # Runner /\ Join(v)) \/ PollQueue(v) \/ PollsUsedUp(v) \/ React(v)
           \/ Answer(v) \/ Space(v) \/ AskRerun(v)
    PROVE  IInv'
<1> USE DEF Goto, LocalTypes
<1>1. v \in Process /\ LocalTypes /\ LocalInv /\ ServerTypes /\ RunInv
  BY DEF Process, IInv, LocalInv
<1>2. pc[v] \notin {"leave", "done"} => verdict[v] = "none"
  BY <1>1 DEF LocalInv, VerdictInv
<1>3. ASSUME v # Runner, Join(v) PROVE IInv'
  <2>1. ServerTypes' /\ RunInv' /\ Evolves /\ overtaken \subseteq overtaken'
    BY <1>1, <1>3, ServerEffect, RunAssumption DEF Join
  <2>2. LocalTypes'
    BY <1>1, <1>3 DEF Join
  <2>3. LocalInv'
    BY <1>1, <1>2, <1>3, <2>1, <2>2, MoveInv DEF Join, server
  <2> QED
    BY <2>1, <2>3 DEF IInv
<1>4. ASSUME PollQueue(v) PROVE IInv'
  <2>1. ServerTypes' /\ RunInv' /\ Evolves /\ overtaken \subseteq overtaken'
    BY <1>1, <1>4, ServerEffect, RunAssumption DEF PollQueue
  <2>2. LocalTypes'
    BY <1>1, <1>4 DEF PollQueue
  <2>3. LocalInv'
    BY <1>1, <1>2, <1>4, <2>1, <2>2, MoveInv DEF PollQueue, server
  <2> QED
    BY <2>1, <2>3 DEF IInv
<1>5. ASSUME PollsUsedUp(v) PROVE IInv'
  <2>1. ServerTypes' /\ RunInv' /\ Evolves /\ overtaken \subseteq overtaken'
    BY <1>1, <1>5, ServerEffect, RunAssumption DEF PollsUsedUp
  <2>2. LocalTypes'
    BY <1>1, <1>5 DEF PollsUsedUp
  <2>3. LocalInv'
    BY <1>1, <1>2, <1>5, <2>1, <2>2, MoveInv DEF PollsUsedUp, server
  <2> QED
    BY <2>1, <2>3 DEF IInv
<1>6. ASSUME Answer(v) PROVE IInv'
  <2>1. PICK t \in asked[v] : Resume(t) /\ asked' = [asked EXCEPT ![v] = @ \ {t}]
    BY <1>6 DEF Answer
  <2>2. t \in 1 .. NTask
    BY <1>1, <2>1
  <2>3. ServerTypes' /\ RunInv' /\ Evolves /\ overtaken \subseteq overtaken'
    BY <1>1, <2>1, <2>2, ServerEffect, RunAssumption
  <2>4. LocalTypes'
    BY <1>1, <1>6, <2>1 DEF Answer
  <2>5. LocalInv'
    BY <1>1, <1>2, <1>6, <2>1, <2>3, <2>4, MoveInv DEF Answer, Resume
  <2> QED
    BY <2>3, <2>5 DEF IInv
<1>7. ASSUME Decide(v), pc[v] = "react", UNCHANGED <<runbook, options, asked, command>>,
             Pause \/ Play \/ UNCHANGED server
      PROVE  IInv'
  <2>1. ServerTypes' /\ RunInv' /\ Evolves /\ overtaken \subseteq overtaken'
    BY <1>1, <1>7, ServerEffect, RunAssumption
  <2>2. LocalTypes'
    BY <1>1, <1>7, NothingIsEmpty DEF Decide
  <2>3. run = "none" => run' = "none"
    BY <1>7 DEF Pause, Play, server
  <2>4. \A w \in Viewer : seen'[w] = seen[w] \/ ~ seen'[w].listed
    BY <1>1, <1>7, NothingIsEmpty DEF Decide
  <2>5. CASE HasFailed(seen[v])
    <3>1. run' \in Failing \/ v \in overtaken'
      BY <1>1, <2>1, <2>5, DecideRead DEF Evolves
    <3> QED
      BY <1>1, <1>2, <1>7, <2>1, <2>2, <2>3, <2>4, <2>5, <3>1, MoveInv DEF Decide, IInv
  <2>6. CASE ~ HasFailed(seen[v]) /\ HasSucceeded(seen[v])
    <3>1. run' = "SUCCESS"
      BY <1>1, <2>1, <2>6, DecideRead DEF Evolves
    <3> QED
      BY <1>1, <1>2, <1>7, <2>1, <2>2, <2>3, <2>4, <2>6, <3>1, MoveInv DEF Decide, IInv
  <2>7. CASE ~ HasFailed(seen[v]) /\ ~ HasSucceeded(seen[v])
    BY <1>1, <1>2, <1>7, <2>1, <2>2, <2>3, <2>4, <2>7, MoveInv DEF Decide, IInv
  <2> QED
    BY <2>5, <2>6, <2>7
<1>8. ASSUME React(v) PROVE IInv'
  BY <1>7, <1>8 DEF React
<1>9. ASSUME Space(v) PROVE IInv'
  <2>1. CASE Decide(v)
    BY <1>7, <1>9, <2>1 DEF Space
  <2>2. CASE ~ Decide(v)
    <3>1. End(v, "broken") /\ UNCHANGED <<polls, seen>> /\ UNCHANGED server
      BY <1>9, <2>2 DEF Space
    <3>2. ServerTypes' /\ RunInv' /\ Evolves /\ overtaken \subseteq overtaken'
      BY <1>1, <3>1, ServerEffect, RunAssumption
    <3>3. LocalTypes'
      BY <1>1, <1>9, <3>1 DEF Space, End
    <3>4. LocalInv'
      BY <1>1, <1>9, <3>1, <3>2, <3>3, MoveInv DEF Space, End, server
    <3> QED
      BY <3>2, <3>4 DEF IInv
  <2> QED
    BY <2>1, <2>2
<1>10. ASSUME AskRerun(v) PROVE IInv'
  <2>1. Rerun \/ UNCHANGED server
    BY <1>10 DEF AskRerun
  <2>2. ServerTypes' /\ RunInv' /\ Evolves /\ overtaken \subseteq overtaken'
    BY <1>1, <2>1, ServerEffect, RunAssumption
  <2>3. LocalTypes'
    BY <1>1, <1>10 DEF AskRerun
  <2>4. run = "none" => run' = "none"
    BY <2>1 DEF Rerun, server, Failing
  <2>5. run' \in Failing \/ v \in overtaken'
    BY <1>1, <1>10, <2>2 DEF AskRerun, Evolves, LocalInv, VerdictInv
  <2>6. LocalInv'
    BY <1>1, <1>2, <1>10, <2>2, <2>3, <2>4, <2>5, MoveInv DEF AskRerun
  <2> QED
    BY <2>2, <2>6 DEF IInv
<1> QED
  BY <1>3, <1>4, <1>5, <1>6, <1>8, <1>9, <1>10
(* The steps around the run: they upload, start, delete and break off. *)
LEMMA RunnerInv ==
    ASSUME IInv, NEW v \in Viewer,
           (v = Runner /\ (Upload \/ StartRun)) \/ Leave(v) \/ Break(v)
    PROVE  IInv'
<1> USE DEF Goto, LocalTypes, IInv, LocalInv
<1>1. v \in Process /\ Runner \in Viewer /\ Runner \in Process /\ Viewer \subseteq Process
      /\ Controller \subseteq Process /\ Runner \notin Controller
  BY RunAssumption DEF Process, Viewer
<1>2. ASSUME Upload PROVE IInv'
  <2>1. /\ pc[Runner] = "idle" /\ UNCHANGED <<options, seen, server>>
        /\ \/ /\ pc' = [pc EXCEPT ![Runner] = "run"] /\ verdict' = verdict
              /\ runbook' = IF options.file THEN "there" ELSE "none"
           \/ /\ pc' = [pc EXCEPT ![Runner] = "done"]
              /\ runbook' = runbook \/ runbook' = IF options.file THEN "there" ELSE "none"
              /\ verdict' = [verdict EXCEPT ![Runner] = "broken"]
    BY <1>2 DEF Upload, End
  <2>2. ServerTypes' /\ RunInv'
    BY <2>1 DEF server, ServerTypes, RunInv
  <2>3. LocalTypes'
    BY <1>1, <1>2, <2>1 DEF Upload
  <2>4. StartInv' /\ SeenInv' /\ VerdictInv'
    BY <1>1, <2>1 DEF server, StartInv, SeenInv, VerdictInv
  <2>5. RunbookInv'
    BY <1>1, <2>1 DEF RunbookInv
  <2> QED
    BY <2>2, <2>3, <2>4, <2>5
<1>3. ASSUME StartRun PROVE IInv'
  <2>1. /\ pc[Runner] = "run"
        /\ \/ pc' = [pc EXCEPT ![Runner] = "queue"] /\ UNCHANGED verdict
           \/ /\ pc' = [pc EXCEPT ![Runner] = "done"]
              /\ verdict' = [verdict EXCEPT ![Runner] = "broken"]
        /\ run = "none" /\ run' = "PENDING"
        /\ UNCHANGED <<tasks, reasons, reruns, overtaken, runbook, options, polls, seen, asked, command>>
    BY <1>3 DEF StartRun, StartInv, End
  <2>2. ServerTypes' /\ RunInv'
    BY <2>1 DEF ServerTypes, RunInv, RunState, Queued, Failing
  <2>3. LocalTypes'
    BY <1>1, <2>1
  <2>4. StartInv' /\ SeenInv' /\ VerdictInv'
    BY <1>1, <2>1 DEF StartInv, SeenInv, VerdictInv, Failing
  <2>5. RunbookInv'
    BY <1>1, <2>1 DEF RunbookInv
  <2> QED
    BY <2>2, <2>3, <2>4, <2>5
<1>4. ASSUME Leave(v) PROVE IInv'
  <2>1. /\ pc[v] = "leave" /\ pc' = [pc EXCEPT ![v] = "done"]
        /\ runbook' = IF v = Runner /\ options.file THEN "deleted" ELSE runbook
        /\ UNCHANGED <<run, tasks, reasons, reruns, overtaken, options, polls, seen, asked,
                       verdict, command>>
    BY <1>4 DEF Leave, server
  <2>2. ServerTypes' /\ RunInv'
    BY <2>1 DEF ServerTypes, RunInv
  <2>3. LocalTypes'
    BY <1>1, <2>1
  <2>4. StartInv' /\ SeenInv' /\ VerdictInv'
    BY <1>1, <2>1 DEF StartInv, SeenInv, VerdictInv
  <2>5. verdict[v] \in {"queued", "stopped", "succeeded", "failed", "unknown"}
    BY <2>1 DEF VerdictInv
  <2>6. RunbookInv'
    BY <1>1, <2>1, <2>5 DEF RunbookInv
  <2> QED
    BY <2>2, <2>3, <2>4, <2>6
<1>5. ASSUME Break(v) PROVE IInv'
  <2>1. /\ pc[v] \in {"run", "queue", "watch", "react", "rerun", "leave"}
        /\ pc' = [pc EXCEPT ![v] = "done"] /\ verdict' = [verdict EXCEPT ![v] = "broken"]
        /\ seen' = [seen EXCEPT ![v] = Nothing]
        /\ UNCHANGED <<run, tasks, reasons, reruns, overtaken, runbook, options, polls, command>>
    BY <1>5 DEF Break, End, server
  <2>2. ServerTypes' /\ RunInv'
    BY <2>1 DEF ServerTypes, RunInv
  <2>3. LocalTypes'
    BY <1>1, <1>5, <2>1, NothingIsEmpty DEF Break
  <2>4. StartInv' /\ VerdictInv'
    BY <1>1, <2>1 DEF StartInv, VerdictInv
  <2>5. SeenInv'
    BY <1>1, <2>1, NothingIsEmpty DEF SeenInv
  <2>6. RunbookInv'
    BY <1>1, <2>1 DEF RunbookInv
  <2> QED
    BY <2>2, <2>3, <2>4, <2>5, <2>6
<1> QED
  BY <1>2, <1>3, <1>4, <1>5

(* A controller sends nothing to an execution that was not started. *)
LEMMA ControllerInv ==
    ASSUME IInv, NEW c \in Controller, Control(c) \/ Send(c)
    PROVE  IInv'
<1> USE DEF Goto, LocalTypes, IInv, LocalInv
<1>1. c \in Process /\ c \notin Viewer /\ Runner \in Viewer /\ Viewer \subseteq Process
      /\ Controller \subseteq Process
  BY RunAssumption DEF Process, Viewer
<1>2. ASSUME Control(c) PROVE IInv'
  <2>1. /\ run # "none"
        /\ \/ pc' = [pc EXCEPT ![c] = "done"] \/ pc' = [pc EXCEPT ![c] = "send"]
        /\ UNCHANGED <<run, tasks, reasons, reruns, overtaken, runbook, options, polls, seen,
                       asked, verdict>>
    BY <1>2 DEF Control, server
  <2>2. ServerTypes' /\ RunInv'
    BY <2>1 DEF ServerTypes, RunInv
  <2>3. LocalTypes'
    BY <1>1, <1>2, <2>1 DEF Control
  <2>4. \A v \in Viewer : pc'[v] = pc[v]
    BY <1>1, <2>1
  <2>5. StartInv' /\ SeenInv' /\ VerdictInv' /\ RunbookInv'
    BY <1>1, <2>1, <2>4 DEF StartInv, SeenInv, VerdictInv, RunbookInv
  <2> QED
    BY <2>2, <2>3, <2>5
<1>3. ASSUME Send(c) PROVE IInv'
  <2>1. /\ pc[c] = "send" /\ pc' = [pc EXCEPT ![c] = "done"]
        /\ verdict' = [verdict EXCEPT ![c] = "sent"]
        /\ Pause \/ Play \/ Abort
        /\ UNCHANGED <<runbook, options, polls, seen, asked>>
    BY <1>3 DEF Send, End
  <2>2. run # "none"
    BY <2>1 DEF StartInv
  <2>3. ServerTypes' /\ RunInv' /\ Evolves /\ overtaken \subseteq overtaken'
    BY <2>1, ServerEffect, RunAssumption
  <2>4. LocalTypes'
    BY <1>1, <1>3, <2>1 DEF Send
  <2>5. \A v \in Viewer : pc'[v] = pc[v] /\ verdict'[v] = verdict[v]
    BY <1>1, <2>1
  <2>6. StartInv' /\ RunbookInv'
    BY <1>1, <2>1, <2>2, <2>3, <2>5 DEF StartInv, RunbookInv, Evolves
  <2>7. SeenInv' /\ VerdictInv'
    BY <1>1, <2>1, <2>3, <2>5 DEF SeenInv, VerdictInv, Evolves
  <2> QED
    BY <2>3, <2>4, <2>6, <2>7
<1> QED
  BY <1>2, <1>3

-----------------------------------------------------------------------------
(* The inductive invariant holds in every reachable state. *)
THEOREM Invariant == Spec => []IInv
<1>1. ASSUME IInv, [Next]_vars PROVE IInv'
  <2>1. CASE ServerStep
    <3>1. ServerTypes' /\ RunInv' /\ Evolves /\ overtaken \subseteq overtaken'
      BY <1>1, <2>1, ServerEffect, RunAssumption DEF ServerStep, IInv
    <3>2. run = "none" => run' = "none"
      BY <2>1 DEF ServerStep, LeaveQueue, StartTask, EndTask, EndRun
    <3>3. LocalTypes'
      BY <1>1, <2>1 DEF ServerStep, IInv, LocalInv, LocalTypes
    <3>4. LocalInv'
      BY <1>1, <2>1, <3>1, <3>2, <3>3, ServerStepInv DEF ServerStep, IInv
    <3> QED
      BY <3>1, <3>4 DEF IInv
  <2>2. ASSUME NEW v \in Viewer, ViewerStep(v) \/ UserStep(v) PROVE IInv'
    BY <1>1, <2>2, ViewerInv, PollInv, RunnerInv DEF ViewerStep, UserStep
  <2>3. ASSUME NEW c \in Controller, Control(c) \/ Send(c) PROVE IInv'
    BY <1>1, <2>3, ControllerInv
  <2>4. CASE UNCHANGED vars
    BY <1>1, <2>4 DEF vars, IInv, ServerTypes, RunInv, LocalInv, LocalTypes, StartInv, SeenInv,
       VerdictInv, RunbookInv
  <2> QED
    BY <1>1, <2>1, <2>2, <2>3, <2>4 DEF Next, Finished
<1> QED
  BY <1>1, InitIInv, PTL DEF Spec

(* Every variable keeps its type. *)
THEOREM TypeCorrect == Spec => []TypeOK
<1>1. IInv => TypeOK
  BY DEF IInv, ServerTypes, LocalInv, LocalTypes, TypeOK
<1> QED
  BY <1>1, Invariant, PTL

(* A watch reports success only of an execution that ended with it; a       *)
(* failure, and the offer of a rerun, is of an execution that failed.      *)
THEOREM VerdictSound == Spec => []VerdictIsTrue
<1>1. IInv => SuccessMeansFinished
  BY DEF IInv, RunInv, LocalInv, VerdictInv, SuccessMeansFinished
<1>2. IInv => FailureMeansFailed
  BY DEF IInv, RunInv, LocalInv, VerdictInv, FailureMeansFailed
<1> QED
  BY <1>1, <1>2, Invariant, PTL DEF VerdictIsTrue

(* The uploaded runbook lives as long as the command, and no longer. *)
THEOREM UploadIsCleanedUp == Spec => []RunbookIsCleanedUp
<1>1. IInv => RunbookIsCleanedUp
  BY DEF IInv, LocalInv, RunbookInv, RunbookIsCleanedUp
<1> QED
  BY <1>1, Invariant, PTL

(* It is not deleted under an execution that a complete watch has followed. *)
THEOREM UploadOutlivesItsRun == Spec => []DeletedMeansOver
<1>1. IInv => DeletedMeansOver
  <2> SUFFICES ASSUME IInv, runbook = "deleted" PROVE DeletedMeansOver
    BY DEF DeletedMeansOver
  <2>1. Runner \in Viewer
    BY DEF Viewer
  <2>2. verdict[Runner] \in {"queued", "stopped", "succeeded", "failed", "unknown"}
    BY DEF IInv, LocalInv, RunbookInv
  <2> QED
    BY <2>1, <2>2 DEF IInv, RunInv, LocalInv, VerdictInv, DeletedMeansOver, Terminal
<1> QED
  BY <1>1, Invariant, PTL
=================================================================================
