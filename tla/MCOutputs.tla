----------------------------- MODULE MCOutputs -----------------------------
(* Graphs of two leaves, a combinator over them and one over that.         *)
EXTENDS Outputs

CONSTANTS FirstLeaf, SecondLeaf, Kinds

Leaves(kinds) == {[kind |-> k, src |-> {}, inner |-> 0] : k \in kinds}

(* Combinators that use the latest output n - 1 or, for n = 3, any.        *)
Combinations(n) ==
  LET singles == {{m} : m \in 1 .. n - 1}
      pairs == {{m, n - 1} : m \in 1 .. n - 2}
      shapes == [kind : {"map"}, src : singles, inner : {0}]
                \cup [kind : {"flat_map"}, src : singles, inner : 1 .. n - 1]
                \cup [kind : {"join", "try_join"}, src : pairs, inner : {0}]
  IN  {s \in shapes :
         /\ s.kind \in Kinds
         /\ s.inner \notin s.src
         /\ n = 3 \/ n - 1 \in s.src \cup {s.inner}}

Graphs4 ==
  {<<a, b, c, d>> : a \in Leaves(FirstLeaf), b \in Leaves(SecondLeaf),
                    c \in Combinations(3), d \in Combinations(4)}

=============================================================================
