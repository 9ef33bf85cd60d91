----------------------------- MODULE NetworkTunnels -----------------------------
(***************************************************************************)
(* The tunnel of a network group (src/calm/dsl/cli/network_group.py): it    *)
(* runs in a VM that is an application.  Its creation, and a reset that     *)
(* gives it a new VM, are tasks of the server that launch an application;   *)
(* the command polls the task, then the application.  There is one group.   *)
(* A deletion, of the tunnel or of an application, is a task too: the       *)
(* command asks for it, and nobody waits for how it ends.                  *)
(*                                                                         *)
(* The server is external: it works on one task of a group at a time, and   *)
(* the tunnel moves to the new application when a launch succeeds.         *)
(***************************************************************************)
EXTENDS Administrators

CONSTANTS TunnelRequest    \* what an administrator may ask for

TunnelOp == {"createTunnel", "resetTunnel", "deleteTunnel"}

ASSUME TunnelsAssumption == TunnelRequest \subseteq [op : TunnelOp]

VARIABLES
    tunnelApp,    \* the application the tunnel of the group runs in, if any
    apps,         \* the tunnel VMs
    setup,        \* the task of the group under way, to launch an application or to
                  \* delete the tunnel with it: at most one
    milestone,    \* how the task of each command has ended
    oldApp,       \* the application each reset is to delete
    deletedApp,   \* the one whose deletion it has asked for
    appIds        \* identities handed out

tunnelOwn == <<tunnelApp, apps, setup, milestone, oldApp, deletedApp, appIds>>
tunnelVars == <<tunnelOwn, admins>>

AppState == {"provisioning", "running", "error", "deleting", "deleted"}

TunnelStage ==
    {"idle", "readGroup", "submit", "pollSetup", "pollApp", "readTunnel", "deleteOldApp",
     "findGroup", "readApp", "deleteTunnel"}

TunnelsTypeOK ==
    /\ tunnelApp \subseteq Nat
    /\ \A i, j \in tunnelApp : i = j
    /\ apps \subseteq [id : Nat, state : AppState]
    /\ setup \subseteq [by : Admin, app : Nat, what : {"launch", "delete"}]
    /\ milestone \in [Admin -> {"none", "queued", "succeeded", "failed"}]
    /\ oldApp \in [Admin -> SUBSET Nat]
    /\ deletedApp \in [Admin -> SUBSET Nat]
    /\ appIds \in Nat

(* Start with no tunnel, or with one that runs.                            *)
TunnelsStart ==
    /\ \/ tunnelApp = {} /\ apps = {} /\ appIds = 0
       \/ tunnelApp = {1} /\ apps = {[id |-> 1, state |-> "running"]} /\ appIds = 1
    /\ setup = {}
    /\ milestone = [a \in Admin |-> "none"]
    /\ oldApp = [a \in Admin |-> {}]
    /\ deletedApp = [a \in Admin |-> {}]

TunnelsInit == AdminsInit /\ TunnelsStart

-----------------------------------------------------------------------------
(* The group has one tunnel: two commands are not meant to work on it.     *)
TunnelClash(r, q) == TRUE

TunnelBegin(a) ==
    /\ \E r \in TunnelRequest :
         Start(a, r, CASE r.op = "createTunnel" -> "submit"
                       [] r.op = "resetTunnel" -> "readGroup"
                       [] r.op = "deleteTunnel" -> "findGroup", TunnelClash)
    /\ milestone' = [milestone EXCEPT ![a] = "none"]
    /\ oldApp' = [oldApp EXCEPT ![a] = {}]
    /\ deletedApp' = [deletedApp EXCEPT ![a] = {}]
    /\ UNCHANGED <<tunnelApp, apps, setup, appIds>>

TunnelRefused(a) == Fail(a) /\ UNCHANGED tunnelOwn

(* reset keeps the application the tunnel runs in, to delete it at the end. *)
ReadGroup(a) ==
    /\ stage[a] = "readGroup"
    /\ \/ /\ tunnelApp # {}
          /\ oldApp' = [oldApp EXCEPT ![a] = tunnelApp]
          /\ Proceed(a, "submit")
          /\ UNCHANGED <<tunnelApp, apps, setup, milestone, deletedApp, appIds>>
       \/ TunnelRefused(a)

(* The task launches the application at once.                              *)
SubmitSetup(a) ==
    /\ stage[a] = "submit"
    /\ \/ /\ setup = {}
          /\ (request[a].op = "createTunnel") = (tunnelApp = {})
          /\ setup' = {[by |-> a, app |-> appIds + 1, what |-> "launch"]}
          /\ apps' = apps \cup {[id |-> appIds + 1, state |-> "provisioning"]}
          /\ appIds' = appIds + 1
          /\ milestone' = [milestone EXCEPT ![a] = "queued"]
          /\ Proceed(a, "pollSetup") \/ Fail(a)
          /\ UNCHANGED <<tunnelApp, oldApp, deletedApp>>
       \/ TunnelRefused(a)

(* The server: a launch ends, and the tunnel has moved or has not.         *)
SetupEnds ==
    \E t \in setup, outcome \in {"succeeded", "failed"} :
        /\ t.what = "launch"
        /\ setup' = {}
        /\ milestone' = IF milestone[t.by] = "queued"
                          THEN [milestone EXCEPT ![t.by] = outcome] ELSE milestone
        /\ tunnelApp' = IF outcome = "succeeded" THEN {t.app} ELSE tunnelApp
        /\ UNCHANGED <<apps, oldApp, deletedApp, appIds, admins>>

(* The deletion of the tunnel ends, with its application, or has failed.   *)
RemovalEnds ==
    /\ \E t \in setup : t.what = "delete"
    /\ setup' = {}
    /\ \/ /\ tunnelApp' = {}
          /\ apps' = {IF p.id \in tunnelApp THEN [p EXCEPT !.state = "deleted"] ELSE p : p \in apps}
       \/ UNCHANGED <<tunnelApp, apps>>
    /\ UNCHANGED <<milestone, oldApp, deletedApp, appIds, admins>>

(* An application comes up or does not; one to be deleted goes or does not. *)
AppEnds ==
    \E p \in apps, s \in {"running", "error", "deleted"} :
        /\ \/ p.state = "provisioning" /\ s # "deleted"
           \/ p.state = "deleting" /\ s # "running"
        /\ apps' = (apps \ {p}) \cup {[p EXCEPT !.state = s]}
        /\ UNCHANGED <<tunnelApp, setup, milestone, oldApp, deletedApp, appIds, admins>>

PollSetup_AnyEnd(a) == \* Mutant: a task that has ended is taken for one that has succeeded
    /\ stage[a] = "pollSetup"
    /\ \/ milestone[a] \in {"succeeded", "failed"} /\ Proceed(a, "pollApp")
       \/ milestone[a] = "queued" /\ (GiveUp(a, "pollApp") \/ Fail(a))
    /\ UNCHANGED tunnelOwn

(* After twenty reads the last milestone read is returned, which is no      *)
(* failure; an error of a read ends the command.                           *)
PollSetup(a) ==
    /\ stage[a] = "pollSetup"
    /\ \/ milestone[a] = "succeeded" /\ Proceed(a, "pollApp")
       \/ milestone[a] = "failed" /\ Fail(a)
       \/ milestone[a] = "queued" /\ (GiveUp(a, "pollApp") \/ Fail(a))
    /\ UNCHANGED tunnelOwn

(* The application of the group is waited for twenty times until it runs;   *)
(* one that has failed is waited for as well.                              *)
PollApp(a) ==
    /\ stage[a] = "pollApp"
    /\ \/ (\E p \in apps : p.id \in tunnelApp /\ p.state = "running") /\ Proceed(a, "readTunnel")
       \/ (\A p \in apps : p.id \in tunnelApp => p.state # "running") /\ GiveUp(a, "readTunnel")
       \/ Fail(a)
    /\ UNCHANGED tunnelOwn

ReadTunnel(a) ==
    /\ stage[a] = "readTunnel"
    /\ Proceed(a, IF oldApp[a] = {} THEN "idle" ELSE "deleteOldApp") \/ Fail(a)
    /\ UNCHANGED tunnelOwn

(* The server starts to delete an application, unless it is gone.          *)
Deleting(ids) ==
    {IF p.id \in ids /\ p.state # "deleted" THEN [p EXCEPT !.state = "deleting"] ELSE p : p \in apps}

DeleteOldApp_Current(a) == \* Mutant: the application of the group is read when it is deleted
    /\ stage[a] = "deleteOldApp"
    /\ apps' = Deleting(tunnelApp)
    /\ deletedApp' = [deletedApp EXCEPT ![a] = tunnelApp]
    /\ Proceed(a, "idle")
    /\ UNCHANGED <<tunnelApp, setup, milestone, oldApp, appIds>>

(* The deletion of the old application is asked for, and the command ends;  *)
(* that it has been refused is an error that is logged.                    *)
DeleteOldApp(a) ==
    /\ stage[a] = "deleteOldApp"
    /\ \/ /\ apps' = Deleting(oldApp[a])
          /\ deletedApp' = [deletedApp EXCEPT ![a] = oldApp[a]]
          /\ Proceed(a, "idle") \/ Fail(a)
          /\ UNCHANGED <<tunnelApp, setup, milestone, oldApp, appIds>>
       \/ TunnelRefused(a)

-----------------------------------------------------------------------------
(* delete: the group is found by its tunnel, its application read, and the  *)
(* deletion of both asked for.                                             *)
FindGroup(a) ==
    /\ stage[a] = "findGroup"
    /\ (tunnelApp # {} /\ Proceed(a, "readApp")) \/ Fail(a)
    /\ UNCHANGED tunnelOwn

ReadApp(a) ==
    /\ stage[a] = "readApp"
    /\ Proceed(a, "deleteTunnel") \/ Fail(a)
    /\ UNCHANGED tunnelOwn

DropTunnel(a) ==
    /\ stage[a] = "deleteTunnel"
    /\ \/ /\ setup = {}
          /\ \E i \in tunnelApp : setup' = {[by |-> a, app |-> i, what |-> "delete"]}
          /\ Proceed(a, "idle") \/ Fail(a)
          /\ UNCHANGED <<tunnelApp, apps, milestone, oldApp, deletedApp, appIds>>
       \/ TunnelRefused(a)

TunnelWork(a) ==
    \/ ReadGroup(a) \/ SubmitSetup(a) \/ PollSetup(a) \/ PollApp(a) \/ ReadTunnel(a)
    \/ DeleteOldApp(a) \/ FindGroup(a) \/ ReadApp(a) \/ DropTunnel(a)

TunnelsFinished == Exhausted /\ UNCHANGED tunnelVars

TunnelsNext ==
    \/ \E a \in Admin : TunnelBegin(a) \/ TunnelWork(a)
    \/ SetupEnds \/ RemovalEnds \/ AppEnds
    \/ TunnelsFinished

TunnelsSpec == TunnelsInit /\ [][TunnelsNext]_tunnelVars

-----------------------------------------------------------------------------
(* reset never asks to delete the application the tunnel runs in, whatever  *)
(* other commands do to the tunnel - unless a poll of the task gave up,     *)
(* when the tunnel may not have moved yet.                                 *)
KeepsTheTunnelRunning ==
    [][patient' =>
         \A a \in Admin : deletedApp'[a] # deletedApp[a] => deletedApp'[a] \cap tunnelApp = {}
      ]_tunnelVars

(* The application reset asks to delete is the one "previously used for     *)
(* tunnel" (network_group.py:676), however the polls end.                  *)
DeletesOnlyTheOldApp ==
    [][\A a \in Admin : deletedApp'[a] # deletedApp[a] => deletedApp'[a] \cap tunnelApp = {}
      ]_tunnelVars

(* A creation or a reset that logs no error leaves the tunnel in an         *)
(* application that runs and that nobody has asked to delete, after a       *)
(* reset a new one - unless a poll gave up, which is no error.  A deletion  *)
(* that logs no error promises nothing of how it ends.                     *)
TunnelEndsAsAsked ==
    [][\A a \in Admin :
         EndsSilently(a) /\ ~ overlapped' /\ patient' /\ request[a].op \in {"createTunnel", "resetTunnel"} =>
             /\ \E p \in apps' : p.id \in tunnelApp' /\ p.state = "running"
             /\ \A p \in apps' : p.id \in oldApp[a] => p.state \in {"deleting", "deleted"}
      ]_tunnelVars
=============================================================================
