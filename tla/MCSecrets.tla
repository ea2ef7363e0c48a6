----------------------------- MODULE MCSecrets -----------------------------
(* Secrets on small instances. *)
EXTENDS Secrets, TLC

Symmetry == Permutations(Passphrase) \cup Permutations(Salt)
=============================================================================
