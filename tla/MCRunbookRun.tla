----------------------------- MODULE MCRunbookRun -----------------------------
(* Instances of RunbookRun for TLC. *)
EXTENDS RunbookRun

(* Only the second task waits for an answer. *)
MCInteractive == {2}
================================================================================
