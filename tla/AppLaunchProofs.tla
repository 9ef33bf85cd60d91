--------------------------- MODULE AppLaunchProofs ---------------------------
(* Theorems about AppLaunch, for every set of commands and every bound. *)
EXTENDS AppLaunch, TLAPS

(* What each stage of a command knows; it makes the properties inductive. *)
StageInv ==
    \A c \in Command :
        /\ pc[c] \in {"start", "create", "fetch", "launch", "poll"} => verdict[c] = "unset"
        /\ pc[c] = "cleanup" => verdict[c] # "unset"
        /\ pc[c] \in {"find", "watch"} => verdict[c] = "launched"
        /\ pc[c] = "watch" => watched[c] # NoApp
        /\ pc[c] \in {"start", "create", "fetch", "launch"} =>
              request[c] = "none" /\ polls[c] = 0
        /\ pc[c] = "poll" => polls[c] <= MaxPolls
        /\ pc[c] \in {"find", "watch"} /\ c \notin Brownfield => bp[c] = "DELETED"
        /\ app[c] # "absent" => request[c] = "success"
        /\ watched[c] # NoApp => verdict[c] = "launched"
        /\ c \notin before[c]

(* Of the applications that were there when a command found its name free, *)
(* those the filter lists are deleted, and stay so.                        *)
OlderAreGone ==
    \A c, d \in Command :
        /\ d \in before[c] => app[d] # "absent"
        /\ pc[c] \notin {"start"} \cup Ended /\ d \in before[c] /\ NameOf[d] \in Matches[NameOf[c]]
              => app[d] = "deleted"

IInv ==
    /\ TypeOK
    /\ StageInv
    /\ OlderAreGone
    /\ VerdictIsEarned
    /\ WatchesNoOlderApp
    /\ GivesUpOnlyAfterAllPolls
    /\ NoBlueprintLeftByReturn

USE DEF Ended, Stage, BlueprintState, LaunchState, AppState, Verdict

(* The initial states satisfy the inductive invariant. *)
LEMMA InitIInv == Init => IInv
  BY CommandAssumption DEF Init, IInv, TypeOK, StageInv, OlderAreGone, VerdictIsEarned,
     WatchesNoOlderApp, GivesUpOnlyAfterAllPolls,
     NoBlueprintLeftByReturn, LiveApp

(* Every step keeps it. *)
LEMMA StepIInv == IInv /\ [Next]_vars => IInv'
<1> SUFFICES ASSUME IInv, [Next]_vars PROVE IInv'
  OBVIOUS
<1> USE CommandAssumption, BoundAssumption
<1> USE DEF IInv, TypeOK, StageInv, OlderAreGone, VerdictIsEarned, WatchesNoOlderApp,
            GivesUpOnlyAfterAllPolls, NoBlueprintLeftByReturn, LiveApp, Goto
<1>1. ASSUME NEW c \in Command, CheckName(c) PROVE IInv'
  BY <1>1 DEF CheckName, Remember, Listed
<1>2. ASSUME NEW c \in Command, CreateBlueprint(c) PROVE IInv'
  BY <1>2 DEF CreateBlueprint
<1>3. ASSUME NEW c \in Command, CreateBlueprintRefused(c) \/ LaunchRefused(c) \/ Abort(c) PROVE IInv'
  BY <1>3 DEF CreateBlueprintRefused, LaunchRefused, Abort
<1>4. ASSUME NEW c \in Command, FetchBlueprint(c) PROVE IInv'
  BY <1>4 DEF FetchBlueprint
<1>5. ASSUME NEW c \in Command, LaunchBlueprint(c) PROVE IInv'
  BY <1>5 DEF LaunchBlueprint
<1>6. ASSUME NEW c \in Command, PollAnswered(c) PROVE IInv'
  BY <1>6 DEF PollAnswered, AfterLaunch
<1>7. ASSUME NEW c \in Command, PollPending(c) PROVE IInv'
  BY <1>7 DEF PollPending
<1>8. ASSUME NEW c \in Command, PollTimeout(c) PROVE IInv'
  <2>1. TypeOK' /\ StageInv'
    BY <1>8 DEF PollTimeout, AfterLaunch
  <2>2. OlderAreGone'
    BY <1>8 DEF PollTimeout, AfterLaunch
  <2>3. VerdictIsEarned' /\ GivesUpOnlyAfterAllPolls'
    BY <1>8 DEF PollTimeout, AfterLaunch
  <2>4. WatchesNoOlderApp'
    BY <1>8 DEF PollTimeout, AfterLaunch
  <2>5. NoBlueprintLeftByReturn'
    BY <1>8 DEF PollTimeout, AfterLaunch
  <2> QED
    BY <2>1, <2>2, <2>3, <2>4, <2>5
<1>9. ASSUME NEW c \in Command, DeleteTemporaryBlueprint(c) PROVE IInv'
  BY <1>9 DEF DeleteTemporaryBlueprint
<1>10. ASSUME NEW c \in Command, FindApp(c) PROVE IInv'
  <2>1. TypeOK' /\ StageInv'
    BY <1>10 DEF FindApp, Resolved, Listed
  <2>2. OlderAreGone'
    BY <1>10 DEF FindApp, Resolved, Listed
  <2>3. VerdictIsEarned' /\ GivesUpOnlyAfterAllPolls'
    BY <1>10 DEF FindApp, Resolved, Listed
  <2>4. WatchesNoOlderApp'
    BY <1>10 DEF FindApp, Resolved, Listed
  <2>5. NoBlueprintLeftByReturn'
    BY <1>10 DEF FindApp, Resolved, Listed
  <2> QED
    BY <2>1, <2>2, <2>3, <2>4, <2>5
<1>11. ASSUME NEW c \in Command, WatchPoll(c) PROVE IInv'
  BY <1>11 DEF WatchPoll
<1>12. ASSUME NEW c \in Command, WatchTimeout(c) PROVE IInv'
  BY <1>12 DEF WatchTimeout
<1>13. ASSUME NEW c \in Command, LaunchSucceeds(c) PROVE IInv'
  BY <1>13 DEF LaunchSucceeds
<1>14. ASSUME NEW c \in Command, LaunchFails(c) PROVE IInv'
  BY <1>14 DEF LaunchFails
<1>15. ASSUME NEW c \in Command, AppDeployed(c) PROVE IInv'
  BY <1>15 DEF AppDeployed
<1>16. ASSUME NEW c \in Command, AppDeleted(c) PROVE IInv'
  BY <1>16 DEF AppDeleted
<1>17. ASSUME NEW c \in Command, BlueprintTouched(c) PROVE IInv'
  BY <1>17 DEF BlueprintTouched
<1>18. CASE UNCHANGED vars
  BY <1>18 DEF vars
<1> QED
  BY <1>1, <1>2, <1>3, <1>4, <1>5, <1>6, <1>7, <1>8, <1>9, <1>10, <1>11, <1>12,
     <1>13, <1>14, <1>15, <1>16, <1>17, <1>18
     DEF Next, CommandStep, ServerStep, Finished

(* The inductive invariant holds in every reachable state. *)
THEOREM Invariant == Spec => []IInv
  BY InitIInv, StepIInv, PTL DEF Spec

(* Every variable keeps its type. *)
THEOREM TypeCorrect == Spec => []TypeOK
  BY Invariant, PTL DEF IInv

(* A launch is reported and watched only if the server finished it. *)
THEOREM VerdictSound == Spec => []VerdictIsEarned
  BY Invariant, PTL DEF IInv

(* Whatever is watched was launched, and since the command checked its name. *)
THEOREM WatchSound == Spec => []WatchesNoOlderApp
  BY Invariant, PTL DEF IInv

(* A command watches its own application, unless another that the filter    *)
(* lists was launched since its check.                                     *)
THEOREM OwnWatchSound == Spec => []WatchesItsOwn
<1>1. IInv => WatchesItsOwn
  BY CommandAssumption DEF IInv, TypeOK, WatchesNoOlderApp, WatchesItsOwn
<1> QED
  BY <1>1, Invariant, PTL

(* A launch is given up only when it failed or all polls were spent. *)
THEOREM GivingUpSound == Spec => []GivesUpOnlyAfterAllPolls
  BY Invariant, PTL DEF IInv

(* A normal return after the launch leaves no temporary blueprint. *)
THEOREM CleanReturn == Spec => []NoBlueprintLeftByReturn
  BY Invariant, PTL DEF IInv

(* The temporary blueprint is not deleted early: the step of PatientCleanup *)
(* from any state of the invariant, hence in every behaviour.               *)
THEOREM CleanupIsPatient == Spec => PatientCleanup
<1>1. IInv /\ [Next]_vars =>
        [\A c \in Command :
           pc[c] = "cleanup" /\ bp[c] # bp'[c] /\ pc'[c] # pc[c] /\ request[c] = "pending"
              => polls[c] = MaxPolls]_vars
  <2> SUFFICES ASSUME IInv, [Next]_vars, NEW c \in Command, pc[c] = "cleanup",
                      request[c] = "pending"
               PROVE  polls[c] = MaxPolls
    OBVIOUS
  <2>1. verdict[c] # "launched"
    BY DEF IInv, VerdictIsEarned
  <2>2. verdict[c] # "unset"
    BY DEF IInv, StageInv
  <2> QED
    BY <2>1, <2>2 DEF IInv, TypeOK, GivesUpOnlyAfterAllPolls
<1> QED
  BY <1>1, Invariant, PTL DEF Spec, PatientCleanup

-----------------------------------------------------------------------------
(* A step that leaves the requests, the verdicts and the stages alone, or   *)
(* moves one command between two stages of the same phase, is a stutter.   *)
LEMMA StutterLemma ==
    ASSUME NEW c \in Command, TypeOK, TypeOK', request' = request,
           \A d \in Command \ {c} : pc'[d] = pc[d] /\ verdict'[d] = verdict[d],
           Phase(c)' = Phase(c)
    PROVE  UNCHANGED Contract!vars
<1>1. \A d \in Command : Phase(d)' = Phase(d)
  BY DEF Phase
<1> QED
  BY <1>1 DEF Contract!vars

(* A step that changes the phase of one command only. *)
LEMMA OnePhaseLemma ==
    ASSUME NEW c \in Command, TypeOK, TypeOK',
           \A d \in Command \ {c} : pc'[d] = pc[d] /\ verdict'[d] = verdict[d]
    PROVE  [d \in Command |-> Phase(d)]' = [[d \in Command |-> Phase(d)] EXCEPT ![c] = Phase(c)']
<1>1. \A d \in Command \ {c} : Phase(d)' = Phase(d)
  BY DEF Phase
<1> QED
  BY <1>1

(* Every step of create_app is a step of the contract, or a stutter. *)
LEMMA StepContract == IInv /\ IInv' /\ [Next]_vars => [Contract!Next]_(Contract!vars)
<1> SUFFICES ASSUME IInv, IInv', [Next]_vars
             PROVE  Contract!Next \/ UNCHANGED Contract!vars
  OBVIOUS
<1> USE DEF IInv, TypeOK, StageInv, VerdictIsEarned, Goto
<1> DEFINE ph == [d \in Command |-> Phase(d)]
<1>1. ASSUME NEW c \in Command,
             CheckName(c) \/ CreateBlueprint(c) \/ CreateBlueprintRefused(c)
               \/ FetchBlueprint(c) \/ LaunchRefused(c) \/ Abort(c)
      PROVE  Contract!Next \/ UNCHANGED Contract!vars
  <2>1. request' = request /\ verdict' = verdict
    BY <1>1 DEF CheckName, CreateBlueprint, CreateBlueprintRefused, FetchBlueprint,
         LaunchRefused, Abort
  <2>2. \A d \in Command \ {c} : pc'[d] = pc[d]
    BY <1>1 DEF CheckName, CreateBlueprint, CreateBlueprintRefused, FetchBlueprint,
         LaunchRefused, Abort
  <2>3. Phase(c)' = Phase(c) \/ (Phase(c) \in {"preparing", "asked"} /\ Phase(c)' = "dropped")
    BY <1>1, <2>1 DEF CheckName, CreateBlueprint, CreateBlueprintRefused, FetchBlueprint,
         LaunchRefused, Abort, Phase
  <2>4. CASE Phase(c)' = Phase(c)
    BY <2>1, <2>2, <2>4, StutterLemma
  <2>5. CASE Phase(c) \in {"preparing", "asked"} /\ Phase(c)' = "dropped"
    <3>1. ph' = [ph EXCEPT ![c] = Phase(c)']
      BY <2>1, <2>2, OnePhaseLemma, SMTT(60)
    <3>2. ph' = [ph EXCEPT ![c] = "dropped"]
      BY <2>5, <3>1
    <3> QED
      BY <2>1, <2>5, <3>2 DEF Contract!Next, Contract!Drop
  <2> QED
    BY <2>3, <2>4, <2>5
<1>2. ASSUME NEW c \in Command, LaunchBlueprint(c) PROVE Contract!Next
  <2>1. Phase(c) = "preparing" /\ Phase(c)' \in {"asked", "dropped"} /\ request[c] = "none"
    BY <1>2 DEF LaunchBlueprint, Phase
  <2>2. ph' = [ph EXCEPT ![c] = Phase(c)']
    BY <1>2, OnePhaseLemma DEF LaunchBlueprint
  <2>3. ph' = [ph EXCEPT ![c] = "asked"] \/ ph' = [ph EXCEPT ![c] = "dropped"]
    BY <2>1, <2>2
  <2>4. Contract!Ask(c)
    BY <1>2, <2>1, <2>3 DEF LaunchBlueprint, Contract!Ask
  <2> QED
    BY <2>4 DEF Contract!Next
<1>3. ASSUME NEW c \in Command, PollAnswered(c) PROVE Contract!Next
  <2>1. Phase(c) = "asked"
    BY <1>3 DEF PollAnswered, Phase
  <2>2. \/ request[c] = "success" /\ Phase(c)' = "launched"
        \/ Phase(c)' = "gave_up"
    BY <1>3 DEF PollAnswered, Phase
  <2>3. ph' = [ph EXCEPT ![c] = Phase(c)']
    BY <1>3, OnePhaseLemma DEF PollAnswered
  <2>4. request' = request
    BY <1>3 DEF PollAnswered
  <2>5. CASE request[c] = "success" /\ Phase(c)' = "launched"
    <3>1. ph' = [ph EXCEPT ![c] = "launched"]
      BY <2>3, <2>5
    <3> QED
      BY <2>1, <2>4, <2>5, <3>1 DEF Contract!Next, Contract!ReportLaunched
  <2>6. CASE Phase(c)' = "gave_up"
    <3>1. ph' = [ph EXCEPT ![c] = "gave_up"]
      BY <2>3, <2>6
    <3> QED
      BY <2>1, <2>4, <3>1 DEF Contract!Next, Contract!GiveUp
  <2> QED
    BY <2>2, <2>5, <2>6
<1>4. ASSUME NEW c \in Command, PollTimeout(c) PROVE Contract!Next
  <2>1. Phase(c) = "asked" /\ Phase(c)' = "gave_up"
    BY <1>4 DEF PollTimeout, Phase
  <2>2. ph' = [ph EXCEPT ![c] = "gave_up"]
    BY <1>4, <2>1, OnePhaseLemma DEF PollTimeout
  <2> QED
    BY <1>4, <2>1, <2>2 DEF PollTimeout, Contract!Next, Contract!GiveUp
<1>5. ASSUME NEW c \in Command,
             PollPending(c) \/ DeleteTemporaryBlueprint(c) \/ FindApp(c)
               \/ WatchPoll(c) \/ WatchTimeout(c)
      PROVE  UNCHANGED Contract!vars
  <2>1. request' = request /\ verdict' = verdict
    BY <1>5 DEF PollPending, DeleteTemporaryBlueprint, FindApp, WatchPoll, WatchTimeout
  <2>2. \A d \in Command \ {c} : pc'[d] = pc[d]
    BY <1>5 DEF PollPending, DeleteTemporaryBlueprint, FindApp, WatchPoll, WatchTimeout
  <2>3. pc'[c] = pc[c] \/ verdict[c] # "unset"
    BY <1>5 DEF PollPending, DeleteTemporaryBlueprint, FindApp, WatchPoll, WatchTimeout
  <2>4. Phase(c)' = Phase(c)
    BY <2>1, <2>3 DEF Phase
  <2> QED
    BY <2>1, <2>2, <2>4, StutterLemma
<1>6. ASSUME NEW c \in Command, LaunchSucceeds(c) \/ LaunchFails(c) PROVE Contract!Next
  <2>1. ph' = ph
    BY <1>6 DEF LaunchSucceeds, LaunchFails, Phase
  <2> QED
    BY <1>6, <2>1 DEF LaunchSucceeds, LaunchFails, Contract!Next, Contract!ServerAnswers
<1>7. ASSUME NEW c \in Command, AppDeployed(c) \/ AppDeleted(c) \/ BlueprintTouched(c)
      PROVE  UNCHANGED Contract!vars
  BY <1>7 DEF AppDeployed, AppDeleted, BlueprintTouched, Phase, Contract!vars
<1>8. CASE UNCHANGED vars
  BY <1>8 DEF vars, Phase, Contract!vars
<1> QED
  BY <1>1, <1>2, <1>3, <1>4, <1>5, <1>6, <1>7, <1>8
     DEF Next, CommandStep, ServerStep, Finished

(* create_app implements the contract of a launch: it reports only what    *)
(* the server granted, whatever its polls, blueprints and names do.        *)
THEOREM ImplementsContract == Spec => KeepsLaunchContract
<1>1. Init => Contract!Init
  BY DEF Init, Contract!Init, Phase
<1> QED
  BY <1>1, StepContract, Invariant, PTL DEF Spec, KeepsLaunchContract, Contract!Spec
=============================================================================
