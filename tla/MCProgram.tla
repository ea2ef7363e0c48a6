----------------------------- MODULE MCProgram -----------------------------
(* A custom resource and an item of another kind: a component, which has   *)
(* no provider, or a read, which is not registered. Remote components,     *)
(* references and invokes take the same steps.                             *)
EXTENDS Program, TLC

CONSTANTS bucket, other

MCStatement == {bucket, other}
MCKinds == {bucket :> "resource" @@ other :> kind : kind \in {"component", "read"}}
MCChainOf == bucket :> <<"parent", "options", "other">> @@ other :> <<"options", "parent">>
Symmetry == Permutations(Transform)
=============================================================================
