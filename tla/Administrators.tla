---------------------------- MODULE Administrators ----------------------------
(***************************************************************************)
(* Administrators at work on the server with the commands of               *)
(* src/calm/dsl/cli.  A command is one process: a sequence of calls, each   *)
(* made on what an earlier one returned, with nothing locked in between.    *)
(* This module holds what the models of these commands share; the objects  *)
(* they change are in the modules that extend it.                          *)
(*                                                                         *)
(* A call that changes something may be carried out, be refused, or be      *)
(* carried out and reported as an error: the session repeats a call after a *)
(* 429 or a 5xx, and the server refuses to carry it out twice.              *)
(***************************************************************************)
EXTENDS Naturals

CONSTANTS
    Admin,
    MaxOps      \* bound: commands started in all

ASSUME AdministratorsAssumption == MaxOps \in Nat

VARIABLES
    stage,      \* where the command of each administrator is
    request,    \* what it was asked for
    started,    \* history: commands started
    complained, \* history: whose command has logged an error, or ended with one
    patient,    \* history: no poll gave up before the task had ended
    overlapped  \* history: two commands that must not overlap did

admins == <<stage, request, started, complained, patient, overlapped>>

NoRequest == [op |-> "none"]

Idle(a) == stage[a] = "idle"
Quiet == \A a \in Admin : Idle(a)

AdminsTypeOK(Stage, Request) ==
    /\ stage \in [Admin -> Stage]
    /\ request \in [Admin -> Request \cup {NoRequest}]
    /\ started \in Nat
    /\ complained \subseteq Admin
    /\ patient \in BOOLEAN
    /\ overlapped \in BOOLEAN

AdminsInit ==
    /\ stage = [a \in Admin |-> "idle"]
    /\ request = [a \in Admin |-> NoRequest]
    /\ started = 0
    /\ complained = {}
    /\ patient = TRUE
    /\ overlapped = FALSE

Goto(a, s) == stage' = [stage EXCEPT ![a] = s]

(* Overlap(r, q): a command asked for r and one asked for q are not meant  *)
(* to run at the same time.                                                *)
Start(a, r, first, Overlap(_, _)) ==
    /\ Idle(a)
    /\ started < MaxOps
    /\ started' = started + 1
    /\ request' = [request EXCEPT ![a] = r]
    /\ Goto(a, first)
    /\ overlapped' = (overlapped \/ \E b \in Admin \ {a} : ~ Idle(b) /\ Overlap(r, request[b]))
    /\ complained' = complained \ {a}
    /\ UNCHANGED patient

(* The command goes on to the stage s; it ends when s is "idle".           *)
Proceed(a, s) == Goto(a, s) /\ UNCHANGED <<request, started, complained, patient, overlapped>>

(* It logs an error, and goes on all the same.                             *)
Complain(a, s) ==
    /\ Goto(a, s)
    /\ complained' = complained \cup {a}
    /\ UNCHANGED <<request, started, patient, overlapped>>

(* It ends with an error: sys.exit or an exception.                        *)
Fail(a) == Complain(a, "idle")

(* The poll of a task gives up, and the command goes on without an error.  *)
GiveUp(a, s) ==
    /\ Goto(a, s)
    /\ patient' = FALSE
    /\ UNCHANGED <<request, started, complained, overlapped>>

Exhausted == started = MaxOps /\ Quiet

(* In this step the command of a ends, and has logged no error.             *)
EndsSilently(a) == ~ Idle(a) /\ stage'[a] = "idle" /\ a \notin complained'

(* A command ends, even when the task it waits for never does.             *)
CommandsEnd == \A a \in Admin : []<>Idle(a)
=============================================================================
