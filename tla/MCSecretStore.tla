---------------------------- MODULE MCSecretStore ----------------------------
(* Instances of SecretStore for TLC. *)
EXTENDS SecretStore, TLC

Symmetry == Permutations(Process) \cup Permutations(Name) \cup Permutations(Value)
=============================================================================
