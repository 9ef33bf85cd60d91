----------------------------- MODULE MCAppLaunch -----------------------------
(* Instances of AppLaunch for TLC. *)
EXTENDS AppLaunch

CONSTANTS c1, c2, n1, n2

(* Two commands with names the filter does not tell apart.                 *)
TwoNames == [c \in {c1, c2} |-> IF c = c1 THEN n1 ELSE n2]

(* A single command. *)
OneName == [c \in {c1} |-> n1]

AnyName == [n \in Name |-> Name]
==============================================================================
