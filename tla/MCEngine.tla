------------------------------ MODULE MCEngine ------------------------------
(* Engine on small instances. *)
EXTENDS Engine, TLC

CONSTANTS p, x, y, i1, i2, i3, i4, u1, u2, u3

(* Three statements, each with its own URN.                                *)
UrnDistinct ==
  [r \in Resource |-> CASE r = p -> u1 [] r = x -> u2 [] r = y -> u3]

(* Two resources that get the same URN.                                    *)
UrnClash == [r \in Resource |-> CASE r = p -> u1 [] r \in {x, y} -> u2]

Flat == [r \in Resource |-> None]

(* p is the parent of x and x that of y.                                   *)
Family == [r \in Resource |-> CASE r = p -> None [] r = x -> p [] r = y -> x]

Symmetry == Permutations(Handler) \cup Permutations(Id) \cup Permutations(Input)
=============================================================================
