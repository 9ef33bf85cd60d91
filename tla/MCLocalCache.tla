----------------------------- MODULE MCLocalCache -----------------------------
(* Instances of LocalCache for TLC.                                         *)
EXTENDS LocalCache, TLC

CONSTANTS creator, creator2, deleter, deleter2, updater, updater2, replacer, syncer, syncer2, clearer

MCOpOf == [c \in Command |->
    CASE c \in {creator, creator2} -> "create"
      [] c \in {deleter, deleter2} -> "delete"
      [] c \in {updater, updater2} -> "update"
      [] c = replacer              -> "replace"
      [] c \in {syncer, syncer2}   -> "sync"
      [] c = clearer               -> "clear"]
MCNamed == [c \in Command |-> IF c \in {deleter2, updater2} THEN 2 ELSE 1]

(* Bound: what follows a command that ended with an error is not explored,  *)
(* as every property but the types is about states without an error.        *)
NoErrorYet == \A c \in Command : pc[c] \notin {"failed", "broken"}
=============================================================================
