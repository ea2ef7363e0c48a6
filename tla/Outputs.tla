------------------------------ MODULE Outputs ------------------------------
(***************************************************************************)
(* The Output<T> graph of output.rs: lazily polled shared futures whose    *)
(* dependencies, known and secret flags are copied from input to result    *)
(* at different moments. One task builds outputs 1..N in order; the        *)
(* others, on a multi-threaded Tokio runtime, poll them a step at a time.  *)
(* A value is only whether it arrived; a URN is the output it was added to.*)
(***************************************************************************)
EXTENDS Integers, FiniteSets

CONSTANTS
  N,         \* outputs a program builds
  Programs,  \* programs: what each output is made of
  MaxAsked   \* bound on the outputs the program awaits

Node == 1 .. N
Leaf == {"new", "secret", "unknown", "unresolved", "future"}
Combinator == {"map", "flat_map", "join", "try_join"}  \* all2 and all3; all

(* inner is the output flat_map's f returns, 0 for other kinds.            *)
ASSUME OutputsAssumption ==
  /\ N \in Nat /\ MaxAsked \in Nat
  /\ \A prog \in Programs :
       /\ DOMAIN prog = Node
       /\ \A n \in Node :
            /\ prog[n].kind \in Leaf \cup Combinator
            /\ prog[n].src \subseteq 1 .. n - 1
            /\ prog[n].kind \in Leaf <=> prog[n].src = {}
            /\ prog[n].inner \in 0 .. n - 1
            /\ prog[n].kind = "flat_map" <=> prog[n].inner # 0

VARIABLES
  prog,     \* the program
  node,     \* [Node -> its future and its metadata]
  resolver, \* outputs whose OutputResolver is alive
  asked,    \* outputs some task awaits
  late      \* observation: what changed after somebody had copied it

vars == <<prog, node, resolver, asked, late>>

Aspect == {"deps", "known", "secret"}

State ==
  [stage : {"unbuilt", "probing", "idle", "polled"},
   deps : SUBSET Node, known : BOOLEAN, secret : BOOLEAN,
   ran : BOOLEAN,     \* f was called (flat_map)
   driven : BOOLEAN,  \* a background task polls it (flat_map)
   result : {"none", "ok", "err"}]

Unbuilt == [stage |-> "unbuilt", deps |-> {}, known |-> TRUE, secret |-> FALSE,
            ran |-> FALSE, driven |-> FALSE, result |-> "none"]

-----------------------------------------------------------------------------
(* The graph.                                                              *)

Kind(n) == prog[n].kind
Src(n) == prog[n].src
Built(n) == node[n].stage \notin {"unbuilt", "probing"}
Settled(n) == node[n].result # "none"
Inner(n) == IF node[n].ran THEN {prog[n].inner} ELSE {}

(* The outputs n's future awaits now: flat_map's inner once f has run.     *)
Awaited(n) == IF node[n].ran THEN Inner(n) ELSE Src(n)

(* The outputs whose flags, or whose dependencies, n has copied.           *)
FlagsFrom(n) ==
  IF node[n].stage = "unbuilt" THEN {} ELSE Src(n) \cup Inner(n)
DepsFrom(n) == IF node[n].stage = "polled" THEN Src(n) \cup Inner(n) ELSE {}
Copied(m, aspect) ==
  \E n \in Node : m \in (IF aspect = "deps" THEN DepsFrom(n) ELSE FlagsFrom(n))

(* What n's value was computed from, directly or not.                      *)
Up[n \in Node] ==
  LET direct == Src(n) \cup Inner(n)
  IN  direct \cup UNION {Up[m] : m \in direct}

(* Tasks that may be polling n at this moment: one awaits it, or drives it,*)
(* or polls an output above it, and with it what that awaits.              *)
Held[n \in Node] ==
  \/ n \in asked
  \/ node[n].driven
  \/ \E k \in n + 1 .. N :
       n \in Awaited(k) /\ node[k].stage = "polled" /\ ~Settled(k) /\ Held[k]

(* ... or the program does, in a flat_map that looks at its source.        *)
Wanted[n \in Node] ==
  \/ n \in asked
  \/ node[n].driven
  \/ \E k \in n + 1 .. N :
       /\ n \in Awaited(k)
       /\ \/ node[k].stage = "probing"
          \/ node[k].stage = "polled" /\ ~Settled(k) /\ Wanted[k]

Update(new) ==
  /\ node' = new
  /\ late' = late \cup {e \in Node \X Aspect :
                          /\ new[e[1]][e[2]] # node[e[1]][e[2]]
                          /\ Copied(e[1], e[2])}

-----------------------------------------------------------------------------
(* Futures, step by step.                                                  *)

AllKnown(M) == \A m \in M : node[m].known
AnySecret(M) == \E m \in M : node[m].secret
DepsOf(M) == UNION {node[m].deps : m \in M}

(* Mutant: errors of the inputs are dropped, as a join of options would.   *)
Variant_ErrorsDropped(n) ==
  IF \A m \in Awaited(n) : Settled(m) THEN "ok" ELSE "none"

(* The result of n's future once what it awaits allows one.                *)
Outcome(n) ==
  LET failed == {m \in Awaited(n) : node[m].result = "err"}
      over == \/ \A m \in Awaited(n) : Settled(m)
              \/ Kind(n) = "try_join" /\ failed # {}
  IN  IF ~over THEN "none" ELSE IF failed = {} THEN "ok" ELSE "err"

(* A pending flat_map whose source arrived: f is called next.              *)
CallsF(n) ==
  /\ Kind(n) = "flat_map" /\ ~node[n].ran
  /\ \A m \in Src(n) : node[m].result = "ok"

Advances(n) ==
  node[n].stage = "polled" /\ ~Settled(n)
    /\ Kind(n) \in Combinator /\ (CallsF(n) \/ Outcome(n) # "none")

(* A poll of n comes back with nothing: another task is at it, or all that *)
(* n waits for does.                                                       *)
Pending[n \in Node] ==
  /\ ~Settled(n)
  /\ \/ Held[n]
     \/ /\ ~Advances(n)
        /\ Kind(n) \in Combinator =>
             /\ node[n].stage = "polled"
             /\ \A m \in Awaited(n) : Settled(m) \/ Pending[m]

(* The first poll of a combinator: the dependencies are copied before the  *)
(* inputs are polled themselves.                                           *)
Poll(n) ==
  /\ node[n].stage = "idle" /\ Kind(n) \in Combinator /\ Wanted[n]
  /\ Update([node EXCEPT ![n].stage = "polled",
                         ![n].deps = DepsOf(Src(n) \cup Inner(n))])
  /\ UNCHANGED <<prog, resolver, asked>>

(* Mutant: merge_from forgets that the inner output may be unknown.        *)
Variant_RunFKeepsKnown(n) ==
  /\ node[n].stage = "polled" /\ Wanted[n] /\ CallsF(n)
  /\ LET i == prog[n].inner
     IN  Update([node EXCEPT ![n].ran = TRUE,
                             ![n].deps = @ \cup node[i].deps,
                             ![n].secret = @ \/ node[i].secret])
  /\ UNCHANGED <<prog, resolver, asked>>

(* f returns the inner output, whose metadata is merged into the result's. *)
RunF(n) ==
  /\ node[n].stage = "polled" /\ Wanted[n] /\ CallsF(n)
  /\ LET i == prog[n].inner
     IN  Update([node EXCEPT ![n].ran = TRUE,
                             ![n].deps = @ \cup node[i].deps,
                             ![n].known = @ /\ node[i].known,
                             ![n].secret = @ \/ node[i].secret])
  /\ UNCHANGED <<prog, resolver, asked>>

Settle(n) ==
  /\ Wanted[n] /\ Advances(n) /\ ~CallsF(n)
  /\ Update([node EXCEPT ![n].result = Outcome(n)])
  /\ UNCHANGED <<prog, resolver, asked>>

(* from_future: the wrapped future completes; only polling runs it.        *)
Complete(n) ==
  /\ Kind(n) = "future" /\ Built(n) /\ Wanted[n] /\ ~Settled(n)
  /\ Update([node EXCEPT ![n].result = "ok"])
  /\ UNCHANGED <<prog, resolver, asked>>

-----------------------------------------------------------------------------
(* The program: it builds outputs in order and awaits some of them.        *)

(* unknown drops the sender of its channel: it is rejected from the start. *)
LeafState(n) ==
  [Unbuilt EXCEPT !.stage = "idle",
                  !.known = Kind(n) # "unknown",
                  !.secret = Kind(n) = "secret",
                  !.result = IF Kind(n) \in {"new", "secret"} THEN "ok"
                             ELSE IF Kind(n) = "unknown" THEN "err"
                             ELSE "none"]

(* Mutant: AND where the secret flags of the inputs want OR.               *)
Variant_AllSecret(n) ==
  [Unbuilt EXCEPT !.stage = IF Kind(n) = "flat_map" THEN "probing" ELSE "idle",
                  !.known = AllKnown(Src(n)),
                  !.secret = \A m \in Src(n) : node[m].secret]

(* map, all2, all3 and all copy the flags; flat_map goes on to probe.      *)
CombinatorState(n) ==
  [Unbuilt EXCEPT !.stage = IF Kind(n) = "flat_map" THEN "probing" ELSE "idle",
                  !.known = AllKnown(Src(n)),
                  !.secret = AnySecret(Src(n))]

Build(n) ==
  /\ node[n].stage = "unbuilt" /\ \A m \in 1 .. n - 1 : Built(m)
  /\ Update([node EXCEPT ![n] = IF Kind(n) \in Leaf THEN LeafState(n)
                                ELSE CombinatorState(n)])
  /\ resolver' = IF Kind(n) = "unresolved" THEN resolver \cup {n} ELSE resolver
  /\ UNCHANGED <<prog, asked>>

(* now_or_never found the source settled: f runs, and only the flags are   *)
(* merged before flat_map returns.                                         *)
FastPath(n) ==
  /\ node[n].stage = "probing" /\ \A m \in Src(n) : Settled(m)
  /\ LET i == prog[n].inner
     IN  Update(IF \A m \in Src(n) : node[m].result = "ok"
                THEN [node EXCEPT ![n].stage = "idle", ![n].ran = TRUE,
                                  ![n].known = @ /\ node[i].known,
                                  ![n].secret = @ \/ node[i].secret]
                ELSE [node EXCEPT ![n].stage = "idle"])
  /\ UNCHANGED <<prog, resolver, asked>>

(* Mutant: the composition is left to whoever polls the result.            *)
Variant_NotSpawned(n) ==
  /\ node[n].stage = "probing"
  /\ \E m \in Src(n) : Pending[m]
  /\ Update([node EXCEPT ![n].stage = "idle"])
  /\ UNCHANGED <<prog, resolver, asked>>

(* now_or_never found the source pending: the composition is spawned.      *)
SlowPath(n) ==
  /\ node[n].stage = "probing"
  /\ \E m \in Src(n) : Pending[m]
  /\ Update([node EXCEPT ![n].stage = "idle", ![n].driven = TRUE])
  /\ UNCHANGED <<prog, resolver, asked>>

(* get, or .await on a clone.                                              *)
Ask(n) ==
  /\ Built(n) /\ n \notin asked /\ Cardinality(asked) < MaxAsked
  /\ asked' = asked \cup {n}
  /\ UNCHANGED <<prog, node, resolver, late>>

-----------------------------------------------------------------------------
(* The resolver of an unresolved output.                                   *)

AddDeps(n) ==
  /\ n \in resolver
  /\ Update([node EXCEPT ![n].deps = @ \cup {n}])
  /\ UNCHANGED <<prog, resolver, asked>>

SetSecret(n) ==
  /\ n \in resolver
  /\ \E secret \in BOOLEAN : Update([node EXCEPT ![n].secret = secret])
  /\ UNCHANGED <<prog, resolver, asked>>

(* Mutant: resolve borrows the sender instead of taking it.                *)
Variant_ResolverKept(n) ==
  /\ n \in resolver
  /\ Update([node EXCEPT ![n].result = "ok"])
  /\ UNCHANGED <<prog, resolver, asked>>

Resolve(n) ==
  /\ n \in resolver
  /\ Update([node EXCEPT ![n].result = "ok"])
  /\ resolver' = resolver \ {n}
  /\ UNCHANGED <<prog, asked>>

(* resolve_unknown up to its call of resolve: another task may read the    *)
(* flag before the value arrives.                                          *)
MarkUnknown(n) ==
  /\ n \in resolver /\ node[n].known
  /\ Update([node EXCEPT ![n].known = FALSE])
  /\ UNCHANGED <<prog, resolver, asked>>

(* Mutant: drop of a resolver sends nothing.                               *)
Variant_DropSilent(n) ==
  /\ n \in resolver
  /\ resolver' = resolver \ {n}
  /\ UNCHANGED <<prog, node, asked, late>>

(* reject, or drop without an answer.                                      *)
Reject(n) ==
  /\ n \in resolver
  /\ Update([node EXCEPT ![n].result = "err"])
  /\ resolver' = resolver \ {n}
  /\ UNCHANGED <<prog, asked>>

-----------------------------------------------------------------------------
Init ==
  /\ prog \in Programs
  /\ node = [n \in Node |-> Unbuilt]
  /\ resolver = {} /\ asked = {} /\ late = {}

Task(n) == Poll(n) \/ RunF(n) \/ Settle(n) \/ Complete(n)
Returns(n) == FastPath(n) \/ SlowPath(n)
Answer(n) == Resolve(n) \/ Reject(n)

Next == \E n \in Node :
  \/ Build(n) \/ Returns(n) \/ Ask(n)
  \/ Task(n)
  \/ AddDeps(n) \/ SetSecret(n) \/ MarkUnknown(n) \/ Answer(n)

Spec == Init /\ [][Next]_vars

(* Tokio polls some woken task, a call of flat_map returns, and owners of  *)
(* resolvers answer or drop them.                                          *)
Fairness ==
  /\ WF_vars(\E n \in Node : Task(n))
  /\ WF_vars(\E n \in Node : Returns(n))
  /\ WF_vars(\E n \in Node : Answer(n))

FairSpec == Spec /\ Fairness

-----------------------------------------------------------------------------
(* Every variable has its type; a live resolver has a pending output, and  *)
(* outputs are built in the program's order.                               *)
TypeOK ==
  /\ prog \in Programs
  /\ node \in [Node -> State]
  /\ asked \subseteq Node
  /\ late \subseteq Node \X Aspect
  /\ resolver \subseteq {n \in Node : Kind(n) = "unresolved" /\ Built(n) /\ ~Settled(n)}
  /\ \A n \in Node : node[n].stage # "unbuilt" => \A m \in 1 .. n - 1 : Built(m)

(* Some output on the way from m to n changed this after it was copied.    *)
Overtaken(m, n, aspect) ==
  \E k \in Up[n] : (k = m \/ m \in Up[k]) /\ <<k, aspect>> \in late

(* What a secret is computed into is secret, unless an output on the way   *)
(* became secret after the next one was built (map, flat_map, all).        *)
SecretsReach ==
  \A n \in Node : node[n].stage # "unbuilt" =>
    \A m \in Up[n] :
      node[m].secret => node[n].secret \/ Overtaken(m, n, "secret")

(* What an unknown value is computed into is unknown, with the same excuse.*)
UnknownReaches ==
  \A n \in Node : node[n].stage # "unbuilt" =>
    \A m \in Up[n] :
      ~node[m].known => ~node[n].known \/ Overtaken(m, n, "known")

(* map derives values "while preserving dependency tracking", and of a     *)
(* combination the "deps are unioned": an output that has its value has    *)
(* the dependencies its leaves had before anyone read them. (Each output   *)
(* copies those of its inputs at its own first poll, before theirs.)       *)
DepsTracked ==
  \A n \in Node : node[n].result = "ok" =>
    \A m \in Up[n] :
      Kind(m) \in Leaf /\ <<m, "deps">> \notin late => node[m].deps \subseteq node[n].deps

(* "If any output is rejected, the combined output is rejected", and f is  *)
(* never called on a rejected source: a value arrives only when all inputs *)
(* of a combinator, f's output among them, have arrived, an error only     *)
(* when one of them failed.                                                *)
ErrorsTravel ==
  \A n \in Node : Kind(n) \in Combinator =>
    /\ node[n].ran => \A m \in Src(n) : node[m].result = "ok"
    /\ node[n].result = "ok" => \A m \in Src(n) \cup Inner(n) : node[m].result = "ok"
    /\ node[n].result = "err" => \E m \in Src(n) \cup Inner(n) : node[m].result = "err"

(* Whoever awaits an output gets a value or an error: nothing in the graph *)
(* waits for a poll that never comes, and a dropped resolver rejects.      *)
(* (Neither asking nor settling is undone: [] <> says each ask ~> answer.) *)
AwaitEnds == []<>(\A n \in asked : Settled(n))

(* "The metadata converges as soon as the source resolves rather than      *)
(* waiting for the result to be polled": f of a flat_map over a pending    *)
(* output runs once the source has a value, though nobody asks for it.     *)
Converged(n) ==
  Built(n) /\ Kind(n) = "flat_map" /\ (\A m \in Src(n) : node[m].result = "ok")
    => node[n].ran

FlatMapConverges == []<>(\A n \in Node : Converged(n))
=============================================================================
