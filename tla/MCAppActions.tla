----------------------------- MODULE MCAppActions -----------------------------
(* Instances of AppActions for TLC. *)
EXTENDS AppActions

CONSTANTS web, web2, sys,   \* applications
          nWeb, nWeb2,      \* names
          del, act          \* commands

(* Two applications of one name, and a system application. *)
Duplicates == [a \in App |-> IF a = sys THEN nWeb2 ELSE nWeb]

(* One application of each name. *)
Distinct == [a \in App |-> IF a = web THEN nWeb ELSE nWeb2]

Exact == [n \in Name |-> {n}]

(* The filter lets the longer name through as well. *)
Loose == [n \in Name |-> IF n = nWeb THEN {nWeb, nWeb2} ELSE {n}]

Given == [c \in Command |-> IF c = del THEN <<nWeb2, nWeb>> ELSE <<nWeb>>]

(* One name. *)
GivenOne == [c \in Command |-> <<nWeb>>]
===============================================================================
