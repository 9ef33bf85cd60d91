---------------------------- MODULE LaunchContract ----------------------------
(***************************************************************************)
(* What `calm create app` promises about a launch, without its polls,      *)
(* blueprints and names: the server answers each request at most once, and *)
(* the command reports the launch only on the answer "success".  Giving up *)
(* is always allowed, and says nothing about the request.                  *)
(***************************************************************************)
CONSTANTS Command

VARIABLES
    request,  \* server: none, pending, success, failure
    phase     \* preparing, asked, launched, gave_up, dropped

vars == <<request, phase>>

Init ==
    /\ request = [c \in Command |-> "none"]
    /\ phase = [c \in Command |-> "preparing"]

(* The call to the server; its answer may be lost. *)
Ask(c) ==
    /\ phase[c] = "preparing"
    /\ request[c] = "none"
    /\ request' = [request EXCEPT ![c] = "pending"]
    /\ \E p \in {"asked", "dropped"} : phase' = [phase EXCEPT ![c] = p]

ServerAnswers(c) ==
    /\ request[c] = "pending"
    /\ \E r \in {"success", "failure"} : request' = [request EXCEPT ![c] = r]
    /\ UNCHANGED phase

ReportLaunched(c) ==
    /\ phase[c] = "asked"
    /\ request[c] = "success"
    /\ phase' = [phase EXCEPT ![c] = "launched"]
    /\ UNCHANGED request

(* Also when the answer has come in after the last poll. *)
GiveUp(c) ==
    /\ phase[c] = "asked"
    /\ phase' = [phase EXCEPT ![c] = "gave_up"]
    /\ UNCHANGED request

Drop(c) ==
    /\ phase[c] \in {"preparing", "asked"}
    /\ phase' = [phase EXCEPT ![c] = "dropped"]
    /\ UNCHANGED request

Next == \E c \in Command :
    Ask(c) \/ ServerAnswers(c) \/ ReportLaunched(c) \/ GiveUp(c) \/ Drop(c)

Spec == Init /\ [][Next]_vars
===============================================================================
