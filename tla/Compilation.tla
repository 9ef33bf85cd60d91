------------------------------ MODULE Compilation ------------------------------
(***************************************************************************)
(* `calm compile`, `calm decompile` and `calm compile` of what that wrote,  *)
(* on the body of a runbook or an action or on a machine of a blueprint:    *)
(* the two are translated independently of one another.                    *)
(***************************************************************************)
EXTENDS TaskGraph, Placement

VARIABLE subject    \* which of the two is translated

compilationVars == <<subject, vars, placementOwn>>

CompilationInit ==
    /\ subject \in {"tasks", "machine"}
    /\ IF subject = "tasks" THEN Init
       ELSE /\ entity = "runbook" /\ program = <<>> /\ stage = "written"
            /\ payload = NoPayload /\ text = <<>> /\ recompiled = NoPayload
    /\ IF subject = "machine" THEN PlacementStart
       ELSE /\ world = CHOOSE w \in World : TRUE
            /\ machine = CHOOSE m \in Machine : TRUE
            /\ progress = "written"
            /\ spec = NoSpec /\ rewritten = machine /\ respec = NoSpec
            /\ moves = {}

CompilationNext ==
    \/ subject = "tasks" /\ Next /\ UNCHANGED <<subject, placementOwn>>
    \/ subject = "machine" /\ PlacementNext /\ UNCHANGED <<subject, vars>>

CompilationSpec == CompilationInit /\ [][CompilationNext]_compilationVars
=============================================================================
