--------------------------- MODULE OutputsProofs ---------------------------
(* Theorems about Outputs, for every graph of outputs and any number of    *)
(* them: what one output hands on to the next, what therefore reaches all  *)
(* that is computed from it, what no step undoes, and that whoever awaits  *)
(* an output waits for something that can happen.                          *)
EXTENDS Outputs, FiniteSetTheorems, TLAPS

(* The types, and which kinds of outputs go through which stages.          *)
Typed ==
  /\ prog \in Programs
  /\ node \in [Node -> State]
  /\ asked \subseteq Node
  /\ late \subseteq Node \X Aspect
  /\ resolver = {n \in Node : Kind(n) = "unresolved" /\ Built(n) /\ ~Settled(n)}
  /\ \A n \in Node : node[n].stage # "unbuilt" => \A m \in 1 .. n - 1 : Built(m)
  /\ \A n \in Node : node[n].stage = "probing" \/ node[n].ran
                       => Kind(n) = "flat_map"
  /\ \A n \in Node : ~Built(n) => ~node[n].ran /\ node[n].result = "none"

(* Flags and dependencies arrive in what copied them, or came too late.    *)
FlagsHandedOn ==
  \A n \in Node : \A m \in FlagsFrom(n) :
    /\ node[m].secret => node[n].secret \/ <<m, "secret">> \in late
    /\ ~node[m].known => ~node[n].known \/ <<m, "known">> \in late

DepsHandedOn ==
  \A n \in Node : \A m \in DepsFrom(n) :
    node[m].deps \subseteq node[n].deps \/ <<m, "deps">> \in late

(* An output's result is explained by its inputs, f's included.            *)
ResultExplained(n) ==
  /\ node[n].ran => \A m \in Src(n) : node[m].result = "ok"
  /\ Kind(n) \in Combinator =>
       /\ node[n].result = "ok" =>
            /\ \A m \in Src(n) \cup Inner(n) : node[m].result = "ok"
            /\ Kind(n) = "flat_map" => node[n].ran
       /\ node[n].result = "err" =>
            \E m \in Src(n) \cup Inner(n) : node[m].result = "err"

ErrorsHandedOn == \A n \in Node : ResultExplained(n)

OInv == Typed /\ FlagsHandedOn /\ DepsHandedOn /\ ErrorsHandedOn

(* A program's outputs, as OutputsAssumption describes them: inputs, and   *)
(* what f returns, are other outputs.                                      *)
LEMMA ProgramInputs ==
  ASSUME NEW p \in Programs, NEW n \in Node
  PROVE  /\ p[n].kind \in Leaf \cup Combinator
         /\ p[n].src \subseteq Node /\ n \notin p[n].src
         /\ p[n].kind \in Leaf <=> p[n].src = {}
         /\ p[n].kind = "flat_map" => p[n].inner \in Node /\ p[n].inner # n
<1>1. /\ p[n].kind \in Leaf \cup Combinator
      /\ p[n].src \subseteq 1 .. n - 1
      /\ p[n].kind \in Leaf <=> p[n].src = {}
      /\ p[n].inner \in 0 .. n - 1
      /\ p[n].kind = "flat_map" <=> p[n].inner # 0
  BY OutputsAssumption
<1>2. \A m \in 1 .. n - 1 : m \in Node /\ m # n
  BY OutputsAssumption DEF Node
<1> QED
  BY <1>1, <1>2 DEF Node

(* A combinator's inputs, f's included, are outputs built before it.       *)
LEMMA EarlierInputs ==
  ASSUME Typed, NEW n \in Node
  PROVE  /\ FlagsFrom(n) \subseteq Node /\ n \notin FlagsFrom(n)
         /\ DepsFrom(n) \subseteq Node /\ n \notin DepsFrom(n)
         /\ Src(n) \cup Inner(n) \subseteq Node /\ n \notin Src(n) \cup Inner(n)
<1>1. Src(n) \cup Inner(n) \subseteq Node /\ n \notin Src(n) \cup Inner(n)
  BY ProgramInputs DEF Typed, Inner, Src, Kind
<1> QED
  BY <1>1 DEF FlagsFrom, DepsFrom

LEMMA PrimedInputs ==
  ASSUME Typed', NEW n \in Node
  PROVE  /\ FlagsFrom(n)' \subseteq Node /\ n \notin FlagsFrom(n)'
         /\ DepsFrom(n)' \subseteq Node /\ n \notin DepsFrom(n)'
         /\ (Src(n) \cup Inner(n))' \subseteq Node /\ n \notin (Src(n) \cup Inner(n))'
<1>1. (Src(n) \cup Inner(n))' \subseteq Node /\ n \notin (Src(n) \cup Inner(n))'
  BY ProgramInputs DEF Typed, Inner, Src, Kind
<1> QED
  BY <1>1 DEF FlagsFrom, DepsFrom

(* A step that changes one output keeps what has been handed on if it does *)
(* for that output, and keeps its result once it has one: what it changes  *)
(* after others have copied it is recorded in late.                        *)
LEMMA OneOutputChanges ==
  ASSUME OInv, NEW n \in Node, NEW s \in State, prog' = prog,
         Update([node EXCEPT ![n] = s]),
         \A m \in FlagsFrom(n)' :
           /\ node[m].secret => s.secret \/ <<m, "secret">> \in late
           /\ ~node[m].known => ~s.known \/ <<m, "known">> \in late,
         \A m \in DepsFrom(n)' :
           node[m].deps \subseteq s.deps \/ <<m, "deps">> \in late,
         node[n].result \in {"none", s.result},
         ResultExplained(n)',
         Typed'
  PROVE  OInv'
<1>1. \A k \in Node : node'[k] = IF k = n THEN s ELSE node[k]
  BY DEF Update, OInv, Typed
<1>2. late \subseteq late'
  BY DEF Update
<1>3. ASSUME NEW k \in Node, k # n
      PROVE  /\ FlagsFrom(k)' = FlagsFrom(k) /\ DepsFrom(k)' = DepsFrom(k)
             /\ Inner(k)' = Inner(k) /\ Src(k)' = Src(k) /\ Kind(k)' = Kind(k)
  BY <1>1, <1>3 DEF FlagsFrom, DepsFrom, Inner, Src, Kind
<1>4. ASSUME NEW k \in Node, k # n, NEW aspect \in Aspect,
             n \in (IF aspect = "deps" THEN DepsFrom(k) ELSE FlagsFrom(k)),
             s[aspect] # node[n][aspect]
      PROVE  <<n, aspect>> \in late'
  <2>1. Copied(n, aspect)
    BY <1>4 DEF Copied
  <2>2. [node EXCEPT ![n] = s][n] = s
    BY DEF OInv, Typed
  <2> QED
    BY <1>4, <2>1, <2>2 DEF Update
<1>5. FlagsHandedOn'
  <2> SUFFICES ASSUME NEW k \in Node, NEW m \in FlagsFrom(k)'
               PROVE  /\ node'[m].secret => node'[k].secret \/ <<m, "secret">> \in late'
                      /\ ~node'[m].known => ~node'[k].known \/ <<m, "known">> \in late'
    BY DEF FlagsHandedOn
  <2>1. m \in Node /\ m # k
    BY PrimedInputs
  <2>2. CASE k = n
    <3>1. node'[m] = node[m] /\ node'[k] = s
      BY <1>1, <2>1, <2>2
    <3>2. m \in FlagsFrom(n)'
      BY <2>2
    <3> QED
      BY <1>2, <3>1, <3>2
  <2>3. CASE k # n
    <3>1. m \in FlagsFrom(k) /\ node'[k] = node[k]
      BY <1>1, <1>3, <2>3
    <3>2. /\ node[m].secret => node[k].secret \/ <<m, "secret">> \in late
          /\ ~node[m].known => ~node[k].known \/ <<m, "known">> \in late
      BY <3>1 DEF OInv, FlagsHandedOn
    <3>3. CASE m = n
      <4>1. s.secret # node[n].secret => <<m, "secret">> \in late'
        BY <1>4, <2>3, <3>1, <3>3 DEF Aspect
      <4>2. s.known # node[n].known => <<m, "known">> \in late'
        BY <1>4, <2>3, <3>1, <3>3 DEF Aspect
      <4> QED
        BY <1>1, <1>2, <3>1, <3>2, <3>3, <4>1, <4>2 DEF State
    <3>4. CASE m # n
      BY <1>1, <1>2, <2>1, <3>1, <3>2, <3>4
    <3> QED
      BY <3>3, <3>4
  <2> QED
    BY <2>2, <2>3
<1>6. DepsHandedOn'
  <2> SUFFICES ASSUME NEW k \in Node, NEW m \in DepsFrom(k)'
               PROVE  node'[m].deps \subseteq node'[k].deps \/ <<m, "deps">> \in late'
    BY DEF DepsHandedOn
  <2>1. m \in Node /\ m # k
    BY PrimedInputs
  <2>2. CASE k = n
    <3>1. node'[m] = node[m] /\ node'[k] = s
      BY <1>1, <2>1, <2>2
    <3>2. m \in DepsFrom(n)'
      BY <2>2
    <3> QED
      BY <1>2, <3>1, <3>2
  <2>3. CASE k # n
    <3>1. m \in DepsFrom(k) /\ node'[k] = node[k]
      BY <1>1, <1>3, <2>3
    <3>2. node[m].deps \subseteq node[k].deps \/ <<m, "deps">> \in late
      BY <3>1 DEF OInv, DepsHandedOn
    <3>3. CASE m = n
      <4>1. s.deps # node[n].deps => <<m, "deps">> \in late'
        BY <1>4, <2>3, <3>1, <3>3 DEF Aspect
      <4> QED
        BY <1>1, <1>2, <3>1, <3>2, <3>3, <4>1
    <3>4. CASE m # n
      BY <1>1, <1>2, <2>1, <3>1, <3>2, <3>4
    <3> QED
      BY <3>3, <3>4
  <2> QED
    BY <2>2, <2>3
<1>7. ErrorsHandedOn'
  <2> SUFFICES ASSUME NEW k \in Node PROVE ResultExplained(k)'
    BY DEF ErrorsHandedOn
  <2>1. CASE k = n
    BY <2>1
  <2>2. CASE k # n
    <3>1. /\ node'[k] = node[k] /\ ResultExplained(k)
          /\ Inner(k)' = Inner(k) /\ Src(k)' = Src(k) /\ Kind(k)' = Kind(k)
      BY <1>1, <1>3, <2>2 DEF OInv, ErrorsHandedOn
    <3>2. \A m \in Src(k) \cup Inner(k) :
            /\ node[m].result = "ok" => node'[m].result = "ok"
            /\ node[m].result = "err" => node'[m].result = "err"
      BY <1>1, EarlierInputs DEF OInv
    <3> QED
      BY <3>1, <3>2 DEF ResultExplained
  <2> QED
    BY <2>1, <2>2
<1> QED
  BY <1>5, <1>6, <1>7 DEF OInv

-----------------------------------------------------------------------------
(* What is asked of an output's new state s.                               *)
InnerOf(n, s) == IF s.ran THEN {prog[n].inner} ELSE {}

Accounted(n, s) ==
  /\ s \in State
  /\ s.stage = "probing" \/ s.ran => Kind(n) = "flat_map"
  /\ s.stage \in {"unbuilt", "probing"} => ~s.ran /\ s.result = "none"
  /\ s.stage # "unbuilt" =>
       /\ \A m \in 1 .. n - 1 : Built(m)
       /\ \A m \in Src(n) \cup InnerOf(n, s) :
            /\ node[m].secret => s.secret \/ <<m, "secret">> \in late
            /\ ~node[m].known => ~s.known \/ <<m, "known">> \in late
  /\ s.stage = "polled" =>
       \A m \in Src(n) \cup InnerOf(n, s) :
         node[m].deps \subseteq s.deps \/ <<m, "deps">> \in late
  /\ s.ran => \A m \in Src(n) : node[m].result = "ok"
  /\ Kind(n) \in Combinator =>
       /\ s.result = "ok" =>
            /\ \A m \in Src(n) \cup InnerOf(n, s) : node[m].result = "ok"
            /\ Kind(n) = "flat_map" => s.ran
       /\ s.result = "err" =>
            \E m \in Src(n) \cup InnerOf(n, s) : node[m].result = "err"

LEMMA NowAccounted ==
  ASSUME OInv, NEW n \in Node
  PROVE  Accounted(n, node[n])
BY DEF OInv, Typed, FlagsHandedOn, DepsHandedOn, ErrorsHandedOn, ResultExplained,
       FlagsFrom, DepsFrom, Built, Inner, InnerOf, Accounted

Unanswered(n, s) ==
  Kind(n) = "unresolved" /\ s.stage \notin {"unbuilt", "probing"} /\ s.result = "none"

LEMMA AccountedStep ==
  ASSUME OInv, NEW n \in Node, NEW s, Accounted(n, s),
         prog' = prog, asked' \subseteq Node,
         Update([node EXCEPT ![n] = s]),
         Built(n) => s.stage \notin {"unbuilt", "probing"},
         node[n].result \in {"none", s.result},
         resolver' = IF Unanswered(n, s) THEN resolver \cup {n} ELSE resolver \ {n}
  PROVE  OInv'
<1>1. s \in State
  BY DEF Accounted
<1>2. \A k \in Node : node'[k] = IF k = n THEN s ELSE node[k]
  BY DEF Update, OInv, Typed
<1>3. \A k \in Node : Built(k) => Built(k)'
  BY <1>2 DEF Built
<1>4. Typed'
  <2>1. node' \in [Node -> State] /\ late' \subseteq Node \X Aspect
    BY <1>1 DEF Update, OInv, Typed
  <2>2. resolver' = {k \in Node : Kind(k) = "unresolved" /\ Built(k) /\ ~Settled(k)}'
    <3>1. \A k \in Node : (Kind(k) = "unresolved" /\ Built(k) /\ ~Settled(k))'
                            <=> IF k = n THEN Unanswered(n, s) ELSE k \in resolver
      BY <1>2 DEF OInv, Typed, Kind, Built, Settled, Unanswered
    <3>2. resolver \subseteq Node
      BY DEF OInv, Typed
    <3> QED
      BY <3>1, <3>2
  <2>3. \A k \in Node : node'[k].stage # "unbuilt" => \A m \in 1 .. k - 1 : Built(m)'
    <3>1. \A k \in Node : \A m \in 1 .. k - 1 : m \in Node
      BY OutputsAssumption DEF Node
    <3> QED
      BY <1>2, <1>3, <3>1 DEF OInv, Typed, Accounted
  <2>4. \A k \in Node : node'[k].stage = "probing" \/ node'[k].ran
                          => Kind(k)' = "flat_map"
    BY <1>2 DEF OInv, Typed, Accounted, Kind
  <2>5. \A k \in Node : ~Built(k)' => ~node'[k].ran /\ node'[k].result = "none"
    BY <1>2 DEF OInv, Typed, Accounted, Built
  <2> QED
    BY <2>1, <2>2, <2>3, <2>4, <2>5 DEF Typed, OInv
<1>5. /\ Inner(n)' = InnerOf(n, s) /\ Src(n)' = Src(n) /\ Kind(n)' = Kind(n)
      /\ node'[n] = s
  BY <1>2 DEF Inner, InnerOf, Src, Kind
<1>6. \A m \in Src(n) \cup InnerOf(n, s) : node'[m] = node[m]
  BY <1>2, <1>4, <1>5, PrimedInputs
<1>7. \A m \in FlagsFrom(n)' :
        /\ node[m].secret => s.secret \/ <<m, "secret">> \in late
        /\ ~node[m].known => ~s.known \/ <<m, "known">> \in late
  BY <1>5 DEF FlagsFrom, Accounted
<1>8. \A m \in DepsFrom(n)' :
        node[m].deps \subseteq s.deps \/ <<m, "deps">> \in late
  BY <1>5 DEF DepsFrom, Accounted
<1>9. ResultExplained(n)'
  BY <1>5, <1>6 DEF ResultExplained, Accounted
<1> QED
  BY <1>1, <1>4, <1>7, <1>8, <1>9, OneOutputChanges

-----------------------------------------------------------------------------
(* The actions.                                                            *)
LEMMA PollKeeps == ASSUME OInv, NEW n \in Node, Poll(n) PROVE OInv'
<1> DEFINE s == [node[n] EXCEPT !.stage = "polled", !.deps = DepsOf(Src(n) \cup Inner(n))]
<1>1. node[n] \in State /\ node[n].stage = "idle" /\ Kind(n) \in Combinator
  BY DEF Poll, OInv, Typed
<1>2. DepsOf(Src(n) \cup Inner(n)) \subseteq Node
      /\ \A m \in Src(n) \cup Inner(n) : node[m].deps \subseteq DepsOf(Src(n) \cup Inner(n))
  BY EarlierInputs DEF DepsOf, OInv, Typed, State
<1>3. /\ s \in State /\ s.stage = "polled" /\ s.deps = DepsOf(Src(n) \cup Inner(n))
      /\ s.known = node[n].known /\ s.secret = node[n].secret /\ s.ran = node[n].ran
      /\ s.result = node[n].result
  BY <1>1, <1>2 DEF State
<1>4. Update([node EXCEPT ![n] = s])
  BY DEF Poll
<1> HIDE DEF s
<1>5. Accounted(n, s)
  <2>1. InnerOf(n, s) = Inner(n) /\ InnerOf(n, node[n]) = Inner(n)
    BY <1>3 DEF InnerOf, Inner
  <2>2. Accounted(n, node[n])
    BY NowAccounted
  <2> QED
    BY <1>1, <1>2, <1>3, <2>1, <2>2 DEF Accounted
<1>6. resolver' = resolver /\ n \notin resolver /\ ~Unanswered(n, s)
  BY <1>1 DEF Poll, OInv, Typed, Unanswered, Combinator
<1>7. /\ prog' = prog /\ asked' \subseteq Node
      /\ node[n].result \in {"none", s.result}
      /\ s.stage \notin {"unbuilt", "probing"}
  BY <1>3 DEF Poll, OInv, Typed
<1> QED
  BY <1>3, <1>4, <1>5, <1>6, <1>7, AccountedStep

LEMMA RunFKeeps == ASSUME OInv, NEW n \in Node, RunF(n) PROVE OInv'
<1> DEFINE i == prog[n].inner
           s == [node[n] EXCEPT !.ran = TRUE, !.deps = @ \cup node[i].deps,
                                !.known = @ /\ node[i].known,
                                !.secret = @ \/ node[i].secret]
<1>1. /\ node[n] \in State /\ node[n].stage = "polled" /\ Kind(n) = "flat_map"
      /\ ~node[n].ran /\ \A m \in Src(n) : node[m].result = "ok"
  BY DEF RunF, CallsF, OInv, Typed
<1>2. i \in Node /\ node[i] \in State /\ i # n
  BY <1>1, ProgramInputs DEF OInv, Typed, Kind
<1>3. /\ s \in State /\ s.stage = "polled" /\ s.deps = node[n].deps \cup node[i].deps
      /\ s.known = (node[n].known /\ node[i].known)
      /\ s.secret = (node[n].secret \/ node[i].secret) /\ s.ran = TRUE
      /\ s.result = node[n].result
  BY <1>1, <1>2 DEF State
<1>4. Update([node EXCEPT ![n] = s])
  BY DEF RunF
<1> HIDE DEF s
<1>5. node[n].result = "none"
  BY <1>1, NowAccounted DEF Accounted, InnerOf, State, Combinator
<1>6. Accounted(n, s)
  BY <1>1, <1>2, <1>3, <1>5, NowAccounted DEF Accounted, InnerOf
<1>7. resolver' = resolver /\ n \notin resolver /\ ~Unanswered(n, s)
  BY <1>1 DEF RunF, OInv, Typed, Unanswered
<1> QED
  BY <1>3, <1>4, <1>5, <1>6, <1>7, AccountedStep DEF RunF, OInv, Typed

LEMMA SettleKeeps == ASSUME OInv, NEW n \in Node, Settle(n) PROVE OInv'
<1> DEFINE s == [node[n] EXCEPT !.result = Outcome(n)]
<1>1. /\ node[n] \in State /\ node[n].stage = "polled" /\ Kind(n) \in Combinator
      /\ node[n].result = "none" /\ ~CallsF(n) /\ Outcome(n) # "none"
  BY DEF Settle, Advances, Settled, OInv, Typed
<1>2. /\ Outcome(n) \in {"ok", "err"}
      /\ Outcome(n) = "ok" => \A m \in Awaited(n) : node[m].result = "ok"
      /\ Outcome(n) = "err" => \E m \in Awaited(n) : node[m].result = "err"
  <2>1. \A m \in Awaited(n) : node[m].result \in {"none", "ok", "err"}
    BY EarlierInputs DEF OInv, Typed, State, Awaited
  <2> DEFINE failed == {m \in Awaited(n) : node[m].result = "err"}
             over == \/ \A m \in Awaited(n) : Settled(m)
                     \/ Kind(n) = "try_join" /\ failed # {}
  <2>2. over /\ Outcome(n) = IF failed = {} THEN "ok" ELSE "err"
    BY <1>1 DEF Outcome
  <2>3. failed = {} => \A m \in Awaited(n) : node[m].result = "ok"
    BY <2>1, <2>2 DEF Settled
  <2> QED
    BY <2>2, <2>3
<1>3. /\ s \in State /\ s.stage = "polled" /\ s.deps = node[n].deps
      /\ s.known = node[n].known /\ s.secret = node[n].secret /\ s.ran = node[n].ran
      /\ s.result = Outcome(n)
  BY <1>1, <1>2 DEF State
<1>4. Update([node EXCEPT ![n] = s])
  BY DEF Settle
<1> HIDE DEF s
<1>5. Accounted(n, s)
  BY <1>1, <1>2, <1>3, NowAccounted DEF Accounted, InnerOf, Inner, Awaited, CallsF
<1>6. resolver' = resolver /\ n \notin resolver /\ ~Unanswered(n, s)
  BY <1>1 DEF Settle, OInv, Typed, Unanswered, Combinator
<1> QED
  BY <1>1, <1>3, <1>4, <1>5, <1>6, AccountedStep DEF Settle, OInv, Typed

LEMMA CompleteKeeps == ASSUME OInv, NEW n \in Node, Complete(n) PROVE OInv'
<1> DEFINE s == [node[n] EXCEPT !.result = "ok"]
<1>1. node[n] \in State /\ Kind(n) = "future" /\ node[n].result = "none" /\ Built(n)
  BY DEF Complete, Settled, OInv, Typed
<1>2. /\ s \in State /\ s.stage = node[n].stage /\ s.deps = node[n].deps
      /\ s.known = node[n].known /\ s.secret = node[n].secret /\ s.ran = node[n].ran
      /\ s.result = "ok"
  BY <1>1 DEF State
<1>3. Update([node EXCEPT ![n] = s])
  BY DEF Complete
<1> HIDE DEF s
<1>4. Accounted(n, s)
  BY <1>1, <1>2, NowAccounted DEF Accounted, InnerOf, Combinator, Built
<1>5. resolver' = resolver /\ n \notin resolver /\ ~Unanswered(n, s)
  BY <1>1 DEF Complete, OInv, Typed, Unanswered
<1> QED
  BY <1>1, <1>2, <1>3, <1>4, <1>5, AccountedStep DEF Complete, OInv, Typed, Built

LEMMA BuildKeeps == ASSUME OInv, NEW n \in Node, Build(n) PROVE OInv'
<1> DEFINE s == IF Kind(n) \in Leaf THEN LeafState(n) ELSE CombinatorState(n)
<1>1. /\ Update([node EXCEPT ![n] = s]) /\ node[n] \in State
      /\ node[n].stage = "unbuilt" /\ node[n].result = "none" /\ ~Built(n)
      /\ \A m \in 1 .. n - 1 : Built(m)
  BY DEF Build, OInv, Typed, Built
<1>2. /\ Kind(n) \in Leaf \cup Combinator
      /\ Kind(n) \in Leaf <=> Src(n) = {}
      /\ Src(n) \subseteq Node
  BY ProgramInputs DEF OInv, Typed, Kind, Src
<1>3. CASE Kind(n) \in Leaf
  <2>1. /\ LeafState(n) \in State /\ LeafState(n).stage = "idle"
        /\ ~LeafState(n).ran
        /\ Kind(n) = "unresolved" => LeafState(n).result = "none"
    BY DEF LeafState, Unbuilt, State
  <2>2. s = LeafState(n) /\ Kind(n) \notin Combinator /\ Src(n) = {}
    BY <1>2, <1>3 DEF Leaf, Combinator
  <2>3. Accounted(n, s)
    BY <1>1, <2>1, <2>2 DEF Accounted, InnerOf
  <2>4. resolver' = IF Unanswered(n, s) THEN resolver \cup {n} ELSE resolver \ {n}
    BY <1>1, <2>1, <2>2 DEF Build, Unanswered, OInv, Typed
  <2> HIDE DEF s
  <2> QED
    BY <1>1, <2>1, <2>3, <2>4, AccountedStep DEF Build, OInv, Typed, State, Accounted
<1>4. CASE Kind(n) \in Combinator
  <2>1. /\ CombinatorState(n) \in State
        /\ CombinatorState(n).stage = IF Kind(n) = "flat_map" THEN "probing" ELSE "idle"
        /\ ~CombinatorState(n).ran /\ CombinatorState(n).result = "none"
        /\ CombinatorState(n).known = AllKnown(Src(n))
        /\ CombinatorState(n).secret = AnySecret(Src(n))
    BY DEF CombinatorState, Unbuilt, State, AllKnown, AnySecret
  <2>2. s = CombinatorState(n)
    BY <1>4 DEF Leaf, Combinator
  <2>3. Accounted(n, s)
    BY <1>1, <2>1, <2>2 DEF Accounted, InnerOf, AllKnown, AnySecret
  <2>4. resolver' = resolver /\ n \notin resolver /\ ~Unanswered(n, s)
    BY <1>1, <1>4 DEF Build, Unanswered, OInv, Typed, Combinator
  <2> HIDE DEF s
  <2> QED
    BY <1>1, <2>1, <2>2, <2>3, <2>4, AccountedStep DEF Build, OInv, Typed
<1> QED
  BY <1>2, <1>3, <1>4

LEMMA FastPathKeeps == ASSUME OInv, NEW n \in Node, FastPath(n) PROVE OInv'
<1> DEFINE i == prog[n].inner
           t == [node[n] EXCEPT !.stage = "idle", !.ran = TRUE,
                                !.known = @ /\ node[i].known,
                                !.secret = @ \/ node[i].secret]
           e == [node[n] EXCEPT !.stage = "idle"]
<1>1. /\ node[n] \in State /\ node[n].stage = "probing" /\ Kind(n) = "flat_map"
      /\ ~node[n].ran /\ node[n].result = "none" /\ ~Built(n)
      /\ \A m \in 1 .. n - 1 : Built(m)
  BY DEF FastPath, OInv, Typed, Built
<1>2. i \in Node /\ node[i] \in State /\ i # n
  BY <1>1, ProgramInputs DEF OInv, Typed, Kind
<1>3. resolver' = resolver /\ n \notin resolver /\ prog' = prog /\ asked' \subseteq Node
  BY <1>1 DEF FastPath, OInv, Typed
<1>4. CASE \A m \in Src(n) : node[m].result = "ok"
  <2>1. /\ t \in State /\ t.stage = "idle" /\ t.deps = node[n].deps
        /\ t.known = (node[n].known /\ node[i].known)
        /\ t.secret = (node[n].secret \/ node[i].secret) /\ t.ran = TRUE
        /\ t.result = node[n].result
    BY <1>1, <1>2 DEF State
  <2>2. Update([node EXCEPT ![n] = t])
    BY <1>4 DEF FastPath
  <2> HIDE DEF t
  <2>3. Accounted(n, t)
    BY <1>1, <1>2, <1>4, <2>1, NowAccounted DEF Accounted, InnerOf
  <2>4. ~Unanswered(n, t)
    BY <1>1 DEF Unanswered
  <2> QED
    BY <1>1, <1>3, <2>1, <2>2, <2>3, <2>4, AccountedStep
<1>5. CASE ~\A m \in Src(n) : node[m].result = "ok"
  <2>1. /\ e \in State /\ e.stage = "idle" /\ e.deps = node[n].deps
        /\ e.known = node[n].known /\ e.secret = node[n].secret /\ ~e.ran
        /\ e.result = node[n].result
    BY <1>1 DEF State
  <2>2. Update([node EXCEPT ![n] = e])
    BY <1>5 DEF FastPath
  <2> HIDE DEF e
  <2>3. Accounted(n, e)
    BY <1>1, <2>1, NowAccounted DEF Accounted, InnerOf
  <2>4. ~Unanswered(n, e)
    BY <1>1 DEF Unanswered
  <2> QED
    BY <1>1, <1>3, <2>1, <2>2, <2>3, <2>4, AccountedStep
<1> QED
  BY <1>4, <1>5

LEMMA SlowPathKeeps == ASSUME OInv, NEW n \in Node, SlowPath(n) PROVE OInv'
<1> DEFINE s == [node[n] EXCEPT !.stage = "idle", !.driven = TRUE]
<1>1. /\ node[n] \in State /\ node[n].stage = "probing" /\ Kind(n) = "flat_map"
      /\ ~node[n].ran /\ node[n].result = "none" /\ ~Built(n)
      /\ \A m \in 1 .. n - 1 : Built(m)
  BY DEF SlowPath, OInv, Typed, Built
<1>2. resolver' = resolver /\ n \notin resolver /\ prog' = prog /\ asked' \subseteq Node
  BY <1>1 DEF SlowPath, OInv, Typed
<1>3. /\ s \in State /\ s.stage = "idle" /\ s.deps = node[n].deps
      /\ s.known = node[n].known /\ s.secret = node[n].secret /\ ~s.ran
      /\ s.result = node[n].result
  BY <1>1 DEF State
<1>4. Update([node EXCEPT ![n] = s])
  BY DEF SlowPath
<1> HIDE DEF s
<1>5. Accounted(n, s) /\ ~Unanswered(n, s)
  BY <1>1, <1>3, NowAccounted DEF Accounted, InnerOf, Unanswered
<1> QED
  BY <1>1, <1>2, <1>3, <1>4, <1>5, AccountedStep

(* What a resolver does to its output.                                     *)
LEMMA ResolverKeeps ==
  ASSUME OInv, NEW n \in Node,
         AddDeps(n) \/ SetSecret(n) \/ Resolve(n) \/ MarkUnknown(n) \/ Reject(n)
  PROVE  OInv'
<1>1. /\ n \in resolver /\ node[n] \in State /\ Kind(n) = "unresolved"
      /\ Built(n) /\ node[n].result = "none" /\ ~node[n].ran
      /\ prog' = prog /\ asked' \subseteq Node
  BY DEF AddDeps, SetSecret, Resolve, MarkUnknown, Reject, OInv, Typed, Settled
<1>2. Kind(n) \notin Combinator /\ Src(n) = {}
  BY <1>1, ProgramInputs DEF OInv, Typed, Kind, Src, Leaf, Combinator
<1>3. \E s \in State :
        /\ Update([node EXCEPT ![n] = s])
        /\ s.stage = node[n].stage /\ ~s.ran
        /\ resolver' = IF s.result = "none" THEN resolver ELSE resolver \ {n}
  <2>1. CASE AddDeps(n)
    <3> DEFINE s == [node[n] EXCEPT !.deps = @ \cup {n}]
    <3>1. s \in State /\ s.stage = node[n].stage /\ s.ran = node[n].ran
          /\ s.result = node[n].result
      BY <1>1 DEF State
    <3> QED
      BY <1>1, <2>1, <3>1 DEF AddDeps
  <2>2. CASE SetSecret(n)
    <3>1. PICK secret \in BOOLEAN : Update([node EXCEPT ![n].secret = secret])
      BY <2>2 DEF SetSecret
    <3> DEFINE s == [node[n] EXCEPT !.secret = secret]
    <3>2. s \in State /\ s.stage = node[n].stage /\ s.ran = node[n].ran
          /\ s.result = node[n].result
      BY <1>1 DEF State
    <3> QED
      BY <1>1, <2>2, <3>1, <3>2 DEF SetSecret
  <2>3. CASE Resolve(n)
    <3> DEFINE s == [node[n] EXCEPT !.result = "ok"]
    <3>1. s \in State /\ s.stage = node[n].stage /\ s.ran = node[n].ran
          /\ s.result = "ok"
      BY <1>1 DEF State
    <3> QED
      BY <1>1, <2>3, <3>1 DEF Resolve
  <2>4. CASE MarkUnknown(n)
    <3> DEFINE s == [node[n] EXCEPT !.known = FALSE]
    <3>1. s \in State /\ s.stage = node[n].stage /\ s.ran = node[n].ran
          /\ s.result = node[n].result
      BY <1>1 DEF State
    <3> QED
      BY <1>1, <2>4, <3>1 DEF MarkUnknown
  <2>5. CASE Reject(n)
    <3> DEFINE s == [node[n] EXCEPT !.result = "err"]
    <3>1. s \in State /\ s.stage = node[n].stage /\ s.ran = node[n].ran
          /\ s.result = "err"
      BY <1>1 DEF State
    <3> QED
      BY <1>1, <2>5, <3>1 DEF Reject
  <2> QED
    BY <2>1, <2>2, <2>3, <2>4, <2>5
<1>4. PICK s \in State :
        /\ Update([node EXCEPT ![n] = s])
        /\ s.stage = node[n].stage /\ ~s.ran
        /\ resolver' = IF s.result = "none" THEN resolver ELSE resolver \ {n}
  BY <1>3
<1>5. Accounted(n, s)
  BY <1>1, <1>2, <1>4, NowAccounted DEF Accounted, InnerOf, Built
<1>6. resolver' = IF Unanswered(n, s) THEN resolver \cup {n} ELSE resolver \ {n}
  BY <1>1, <1>4 DEF Unanswered, Built
<1> QED
  BY <1>1, <1>4, <1>5, <1>6, AccountedStep DEF Built, State

-----------------------------------------------------------------------------
LEMMA InitOInv == Init => OInv
<1> SUFFICES ASSUME Init PROVE OInv
  OBVIOUS
<1>1. \A n \in Node : node[n] = Unbuilt
  BY DEF Init
<1>2. Unbuilt \in State
  BY DEF Unbuilt, State
<1>3. /\ Unbuilt.stage = "unbuilt" /\ ~Unbuilt.ran /\ Unbuilt.result = "none"
  BY DEF Unbuilt
<1>4. Typed
  BY <1>1, <1>2, <1>3 DEF Init, Typed, Built
<1> QED
  BY <1>1, <1>3, <1>4 DEF OInv, FlagsHandedOn, DepsHandedOn, FlagsFrom, DepsFrom,
                         ErrorsHandedOn, ResultExplained

LEMMA NextOInv == OInv /\ [Next]_vars => OInv'
<1> SUFFICES ASSUME OInv, [Next]_vars PROVE OInv'
  OBVIOUS
<1>1. CASE UNCHANGED vars
  BY <1>1 DEF vars, OInv, Typed, FlagsHandedOn, DepsHandedOn, ErrorsHandedOn,
     ResultExplained, FlagsFrom, DepsFrom, Inner, Src, Kind, Built, Settled
<1>2. ASSUME NEW n \in Node, Ask(n) PROVE OInv'
  BY <1>2 DEF Ask, OInv, Typed, FlagsHandedOn, DepsHandedOn, ErrorsHandedOn,
     ResultExplained, FlagsFrom, DepsFrom, Inner, Src, Kind, Built, Settled
<1> QED
  BY <1>1, <1>2, BuildKeeps, FastPathKeeps, SlowPathKeeps, PollKeeps, RunFKeeps,
     SettleKeeps, CompleteKeeps, ResolverKeeps DEF Next, Returns, Task, Answer

THEOREM SpecOInv == Spec => []OInv
BY InitOInv, NextOInv, PTL DEF Spec

(* Types hold, resolvers belong to pending outputs, and outputs are built  *)
(* in order, for every graph.                                              *)
THEOREM SpecTypeOK == Spec => []TypeOK
<1>1. OInv => TypeOK
  BY DEF OInv, Typed, TypeOK
<1> QED
  BY <1>1, SpecOInv, PTL

(* Values and errors travel as documented, for every graph.                *)
THEOREM SpecErrorsTravel == Spec => []ErrorsTravel
<1>1. OInv => ErrorsTravel
  BY DEF OInv, ErrorsHandedOn, ResultExplained, ErrorsTravel
<1> QED
  BY <1>1, SpecOInv, PTL

(* A flag that does not arrive in what was made from an output was raised  *)
(* after it had been copied: the only way to lose one.                     *)
THEOREM SpecFlagsHandedOn == Spec => []FlagsHandedOn
<1>1. OInv => FlagsHandedOn
  BY DEF OInv
<1> QED
  BY <1>1, SpecOInv, PTL

(* The same of dependencies and what was polled.                           *)
THEOREM SpecDepsHandedOn == Spec => []DepsHandedOn
<1>1. OInv => DepsHandedOn
  BY DEF OInv
<1> QED
  BY <1>1, SpecOInv, PTL

-----------------------------------------------------------------------------
(* All that an output is computed from. Every nonempty set of numbers has  *)
(* a least element: the library's theorem about strict inclusion, applied  *)
(* to the intervals 1 .. k.                                                *)
LEMMA LeastNat ==
  ASSUME NEW T \in SUBSET Nat, T # {}
  PROVE  \E k \in T : \A j \in T : k <= j
<1> DEFINE R == StrictSubsetOrdering(Nat)
           S == FiniteSubsetsOf(Nat)
           Below == {1 .. k : k \in T}
<1>1. Below \subseteq S /\ Below # {}
  <2>1. \A k \in T : IsFiniteSet(1 .. k) /\ 1 .. k \in SUBSET Nat
    <3> TAKE k \in T
    <3>1. k \in Int /\ 1 \in Int
      OBVIOUS
    <3>2. IsFiniteSet(1 .. k)
      BY <3>1, FS_Interval
    <3> QED BY <3>1, <3>2
  <2> QED BY <2>1 DEF FiniteSubsetsOf
<1>2. IsWellFoundedOn(R, S)
  BY FS_StrictSubsetOrderingWellFounded
<1> HIDE DEF R, S, Below
<1>3. PICK b \in Below : \A c \in Below : <<c, b>> \notin R
  BY <1>1, <1>2, WFMin
<1>4. PICK k \in T : b = 1 .. k
  BY <1>3 DEF Below
<1>5. ASSUME NEW j \in T PROVE k <= j
  <2>1. 1 .. j \in Below /\ 1 .. j \in SUBSET Nat /\ 1 .. k \in SUBSET Nat
    BY DEF Below
  <2>2. <<1 .. j, 1 .. k>> \notin R
    BY <1>3, <1>4, <2>1
  <2>3. ~(1 .. j \subseteq 1 .. k /\ 1 .. j # 1 .. k)
    BY <2>1, <2>2 DEF R, StrictSubsetOrdering
  <2>4. ASSUME j < k PROVE FALSE
    <3>1. k \in 1 .. k /\ k \notin 1 .. j /\ 1 .. j \subseteq 1 .. k
      BY <2>4
    <3> QED BY <3>1, <2>3
  <2> QED BY <2>4
<1> QED BY <1>5

(* What an output is made from; what Up's equation makes of a function.    *)
Direct(n) == Src(n) \cup Inner(n)
Above(g, n) == Direct(n) \cup UNION {g[m] : m \in Direct(n)}

LEMMA DirectEarlier ==
  ASSUME Typed, NEW n \in Node
  PROVE  Direct(n) \subseteq 1 .. n - 1
<1>1. /\ prog[n].src \subseteq 1 .. n - 1
      /\ prog[n].kind = "flat_map" => prog[n].inner \in 1 .. n - 1
  <2>1. /\ prog[n].src \subseteq 1 .. n - 1
        /\ prog[n].inner \in 0 .. n - 1
        /\ prog[n].kind = "flat_map" <=> prog[n].inner # 0
    BY OutputsAssumption DEF Typed
  <2>2. n \in Nat
    BY OutputsAssumption DEF Node
  <2> QED BY <2>1, <2>2
<1> QED
  BY <1>1 DEF Direct, Src, Inner, Kind, Typed

(* Up exists: a function that solves its equation up to k - 1 is extended  *)
(* to k, since the inputs of an output are built before it.                *)
LEMMA UpEquation ==
  ASSUME Typed
  PROVE  \A n \in Node : Up[n] = Above(Up, n)
<1> DEFINE Solves(g, k) == g = [n \in 1 .. k |-> Above(g, n)]
           T == {k \in 0 .. N : ~\E g : Solves(g, k)}
<1>0. N \in Nat /\ Node = 1 .. N
  BY OutputsAssumption DEF Node
<1>1. T = {}
  <2> SUFFICES ASSUME T # {} PROVE FALSE
    OBVIOUS
  <2>1. PICK k \in T : \A j \in T : k <= j
    <3>1. T \in SUBSET Nat
      BY <1>0
    <3> HIDE DEF T
    <3> QED BY <3>1, LeastNat
  <2>2. k \in Nat /\ k <= N
    BY <1>0
  <2>3. CASE k = 0
    <3>1. Solves([n \in 1 .. 0 |-> {}], 0)
      OBVIOUS
    <3>2. \E g : Solves(g, k)
      BY <3>1, <2>3
    <3> QED BY <3>2
  <2>4. CASE k # 0
    <3>1. k - 1 \in 0 .. N /\ ~(k <= k - 1)
      BY <2>2, <2>4, <1>0
    <3>2. k - 1 \notin T
      BY <2>1, <3>1
    <3>3. PICK g : Solves(g, k - 1)
      BY <3>1, <3>2
    <3> DEFINE h == [n \in 1 .. k |-> IF n = k THEN Above(g, k) ELSE g[n]]
    <3>4. \A n \in 1 .. k - 1 : h[n] = g[n]
      BY <2>2
    <3>5. ASSUME NEW n \in 1 .. k PROVE h[n] = Above(h, n)
      <4>1. \A m \in Direct(n) : h[m] = g[m]
        <5>1. Direct(n) \subseteq 1 .. n - 1 /\ n \in Node
          BY DirectEarlier, <1>0, <2>2
        <5>2. 1 .. n - 1 \subseteq 1 .. k - 1
          BY <2>2
        <5> HIDE DEF h
        <5> QED BY <3>4, <5>1, <5>2
      <4>2. Above(h, n) = Above(g, n)
        <5> HIDE DEF h
        <5>1. {h[m] : m \in Direct(n)} = {g[m] : m \in Direct(n)}
          BY <4>1
        <5> QED BY <5>1 DEF Above
      <4>3. CASE n = k
        BY <4>2, <4>3
      <4>4. CASE n # k
        <5>1. n \in 1 .. k - 1
          BY <4>4, <2>2
        <5>2. g[n] = Above(g, n)
          BY <5>1, <3>3
        <5>3. h[n] = g[n]
          BY <5>1, <3>4
        <5> QED BY <4>2, <5>2, <5>3
      <4> QED BY <4>3, <4>4
    <3>6. Solves(h, k)
      <4>1. h = [n \in 1 .. k |-> h[n]]
        OBVIOUS
      <4> HIDE DEF h
      <4>2. [n \in 1 .. k |-> h[n]] = [n \in 1 .. k |-> Above(h, n)]
        BY <3>5
      <4> QED BY <4>1, <4>2
    <3>7. \E f : Solves(f, k)
      BY <3>6
    <3> QED BY <3>7
  <2> QED BY <2>3, <2>4
<1>2. \E g : g = [n \in Node |-> Above(g, n)]
  <2>1. N \in 0 .. N /\ N \notin T
    BY <1>0, <1>1
  <2>2. PICK g : Solves(g, N)
    BY <2>1
  <2> QED BY <2>2, <1>0
<1>3. Up = [n \in Node |-> Above(Up, n)]
  <2>1. Up = CHOOSE g : g = [n \in Node |-> Above(g, n)]
    BY DEF Up, Above, Direct
  <2> QED BY <1>2, <2>1
<1> QED BY <1>3

(* Induction over the order in which outputs are built.                    *)
LEMMA ByOrder ==
  ASSUME NEW T \in SUBSET Node,
         \A n \in Node : (\A k \in 1 .. n - 1 : k \in T) => n \in T
  PROVE  \A n \in Node : n \in T
<1>0. N \in Nat /\ Node = 1 .. N
  BY OutputsAssumption DEF Node
<1> SUFFICES ASSUME Node \ T # {} PROVE FALSE
  OBVIOUS
<1>1. PICK n \in Node \ T : \A j \in Node \ T : n <= j
  <2>1. Node \ T \in SUBSET Nat
    BY <1>0
  <2> QED BY <2>1, LeastNat
<1>2. \A k \in 1 .. n - 1 : k \in Node /\ ~(n <= k)
  BY <1>0, <1>1
<1> QED
  BY <1>1, <1>2

(* What is above an output is above everything made from it.               *)
LEMMA UpUnfolds ==
  ASSUME Typed, NEW n \in Node
  PROVE  /\ Direct(n) \subseteq Up[n]
         /\ \A k \in Direct(n) : k \in Node /\ k \in 1 .. n - 1 /\ Up[k] \subseteq Up[n]
         /\ \A m \in Up[n] : m \in Direct(n) \/ \E k \in Direct(n) : m \in Up[k]
<1>1. Up[n] = Direct(n) \cup UNION {Up[k] : k \in Direct(n)}
  BY UpEquation DEF Above
<1>2. Direct(n) \subseteq 1 .. n - 1 /\ Direct(n) \subseteq Node
  BY DirectEarlier, EarlierInputs DEF Direct
<1> QED
  BY <1>1, <1>2

(* What came too late for an input came too late for what is made from it. *)
LEMMA OvertakenBelow ==
  ASSUME Typed, NEW n \in Node, NEW k \in Direct(n), NEW m, NEW aspect
  PROVE  /\ Overtaken(m, k, aspect) => Overtaken(m, n, aspect)
         /\ (k = m \/ m \in Up[k]) /\ <<k, aspect>> \in late => Overtaken(m, n, aspect)
BY UpUnfolds DEF Overtaken

LEMMA InputsBuilt ==
  ASSUME Typed, NEW n \in Node, node[n].stage # "unbuilt", NEW k \in Direct(n)
  PROVE  node[k].stage # "unbuilt" /\ k \in FlagsFrom(n)
<1>1. k \in 1 .. n - 1
  BY UpUnfolds
<1> QED
  BY <1>1 DEF Typed, Built, FlagsFrom, Direct

(* A flag lost on the way was lost at an input, or on the way to it.       *)
LEMMA FlagsReach == OInv => SecretsReach /\ UnknownReaches
<1> SUFFICES ASSUME OInv PROVE SecretsReach /\ UnknownReaches
  OBVIOUS
<1> DEFINE Reached(m, n) ==
             /\ node[m].secret => node[n].secret \/ Overtaken(m, n, "secret")
             /\ ~node[m].known => ~node[n].known \/ Overtaken(m, n, "known")
           T == {n \in Node : node[n].stage # "unbuilt" => \A m \in Up[n] : Reached(m, n)}
<1>0. Typed /\ FlagsHandedOn
  BY DEF OInv
<1>1. ASSUME NEW n \in Node, \A k \in 1 .. n - 1 : k \in T
      PROVE  n \in T
  <2> SUFFICES ASSUME node[n].stage # "unbuilt", NEW m \in Up[n]
               PROVE  Reached(m, n)
    OBVIOUS
  <2>1. ASSUME NEW k \in Direct(n)
        PROVE  /\ node[k].secret => node[n].secret \/ <<k, "secret">> \in late
               /\ ~node[k].known => ~node[n].known \/ <<k, "known">> \in late
    BY <1>0, InputsBuilt DEF FlagsHandedOn
  <2>2. CASE m \in Direct(n)
    BY <1>0, <2>1, <2>2, OvertakenBelow
  <2>3. CASE \E k \in Direct(n) : m \in Up[k]
    <3>1. PICK k \in Direct(n) : m \in Up[k]
      BY <2>3
    <3>2. Reached(m, k)
      BY <1>0, <1>1, <3>1, UpUnfolds, InputsBuilt
    <3> QED
      BY <1>0, <2>1, <3>1, <3>2, OvertakenBelow
  <2> QED
    BY <1>0, <2>2, <2>3, UpUnfolds
<1>2. \A n \in Node : n \in T
  <2>1. T \in SUBSET Node
    OBVIOUS
  <2> HIDE DEF T
  <2> QED BY <1>1, <2>1, ByOrder
<1> QED
  BY <1>2 DEF SecretsReach, UnknownReaches

(* In every graph, however deep, a secret reaches whatever is computed     *)
(* from it, unless somewhere on the way a flag was raised too late.        *)
THEOREM SpecSecretsReach == Spec => []SecretsReach
<1>1. OInv => SecretsReach
  BY FlagsReach
<1> QED
  BY <1>1, SpecOInv, PTL

(* In every graph, however deep, what is computed from an unknown value is *)
(* unknown, with the same excuse.                                          *)
THEOREM SpecUnknownReaches == Spec => []UnknownReaches
<1>1. OInv => UnknownReaches
  BY FlagsReach
<1> QED
  BY <1>1, SpecOInv, PTL

-----------------------------------------------------------------------------
(* What no step undoes: a result, an await, what a polled output depends   *)
(* on, and that a value is unknown. Secrecy the resolver may undo.         *)
Grows(n) ==
  /\ Settled(n) => node'[n].result = node[n].result
  /\ n \in asked => n \in asked'
  /\ node[n].stage = "polled" => node[n].deps \subseteq node'[n].deps
  /\ Built(n) /\ ~node[n].known => ~node'[n].known

NothingUndone == [][\A n \in Node : Grows(n)]_vars

LEMMA ProgramGrows ==
  ASSUME OInv, NEW n \in Node,
         Build(n) \/ FastPath(n) \/ SlowPath(n) \/ Ask(n)
  PROVE  \A k \in Node : Grows(k)
<1>1. /\ node \in [Node -> State] /\ node[n] \in State
      /\ ~Built(n) => node[n].result = "none" /\ node[n].stage # "polled"
  BY DEF OInv, Typed, Built
<1>2. CASE Ask(n)
  BY <1>2 DEF Ask, Grows
<1>3. CASE Build(n) \/ FastPath(n) \/ SlowPath(n)
  <2>1. ~Built(n) /\ asked' = asked /\ \A k \in Node \ {n} : node'[k] = node[k]
    BY <1>1, <1>3 DEF Build, FastPath, SlowPath, Built, Update
  <2> QED BY <1>1, <2>1 DEF Grows, Settled
<1> QED BY <1>2, <1>3

LEMMA TaskGrows ==
  ASSUME OInv, NEW n \in Node, Task(n)
  PROVE  \A k \in Node : Grows(k)
<1>1. /\ node \in [Node -> State] /\ node[n] \in State /\ asked' = asked
      /\ \A k \in Node \ {n} : node'[k] = node[k]
  BY DEF OInv, Typed, Task, Poll, RunF, Settle, Complete, Update
<1>2. CASE Poll(n)
  <2>1. /\ node[n].stage = "idle" /\ node'[n].result = node[n].result
        /\ node'[n].known = node[n].known
    BY <1>1, <1>2 DEF Poll, Update, State
  <2> QED BY <1>1, <2>1 DEF Grows
<1>3. CASE RunF(n)
  <2>1. /\ node'[n].result = node[n].result /\ node[n].deps \subseteq node'[n].deps
        /\ node'[n].known = (node[n].known /\ node[prog[n].inner].known)
    BY <1>1, <1>3 DEF RunF, Update, State
  <2> QED BY <1>1, <2>1 DEF Grows
<1>4. CASE Settle(n) \/ Complete(n)
  <2>1. /\ ~Settled(n) /\ node'[n].deps = node[n].deps
        /\ node'[n].known = node[n].known
    BY <1>1, <1>4 DEF Settle, Complete, Advances, Update, State
  <2> QED BY <1>1, <2>1 DEF Grows
<1> QED BY <1>2, <1>3, <1>4 DEF Task

LEMMA ResolverGrows ==
  ASSUME OInv, NEW n \in Node,
         AddDeps(n) \/ SetSecret(n) \/ MarkUnknown(n) \/ Answer(n)
  PROVE  \A k \in Node : Grows(k)
<1>1. /\ node \in [Node -> State] /\ node[n] \in State /\ asked' = asked /\ ~Settled(n)
      /\ \A k \in Node \ {n} : node'[k] = node[k]
  BY DEF OInv, Typed, AddDeps, SetSecret, MarkUnknown, Answer, Resolve, Reject, Update
<1>2. CASE AddDeps(n)
  <2>1. node'[n].deps = node[n].deps \cup {n} /\ node'[n].known = node[n].known
    BY <1>1, <1>2 DEF AddDeps, Update, State
  <2> QED BY <1>1, <2>1 DEF Grows
<1>3. CASE SetSecret(n)
  <2>1. PICK secret \in BOOLEAN : node' = [node EXCEPT ![n].secret = secret]
    BY <1>3 DEF SetSecret, Update
  <2>2. node'[n].deps = node[n].deps /\ node'[n].known = node[n].known
    BY <1>1, <2>1 DEF State
  <2> QED BY <1>1, <2>2 DEF Grows
<1>4. CASE MarkUnknown(n)
  <2>1. node'[n].deps = node[n].deps /\ node'[n].known = FALSE
    BY <1>1, <1>4 DEF MarkUnknown, Update, State
  <2> QED BY <1>1, <2>1 DEF Grows
<1>5. CASE Answer(n)
  <2>1. node'[n].deps = node[n].deps /\ node'[n].known = node[n].known
    BY <1>1, <1>5 DEF Answer, Resolve, Reject, Update, State
  <2> QED BY <1>1, <2>1 DEF Grows
<1> QED BY <1>2, <1>3, <1>4, <1>5

(* For every graph and interleaving a result is final, and neither an      *)
(* await, nor an unknown value, nor a dependency of a polled output is     *)
(* taken back.                                                             *)
THEOREM SpecNothingUndone == Spec => NothingUndone
<1>1. OInv /\ [Next]_vars => [\A n \in Node : Grows(n)]_vars
  BY ProgramGrows, TaskGrows, ResolverGrows DEF Next, Returns
<1> QED
  BY <1>1, SpecOInv, PTL DEF Spec, NothingUndone

-----------------------------------------------------------------------------
(* What awaiting waits for.                                                *)

(* Who polls an output, by Wanted's equation.                              *)
Pulled(g, n) ==
  \/ n \in asked
  \/ node[n].driven
  \/ \E k \in n + 1 .. N :
       /\ n \in Awaited(k)
       /\ \/ node[k].stage = "probing"
          \/ node[k].stage = "polled" /\ ~Settled(k) /\ g[k]

(* Wanted exists: a function that solves its equation for the last k       *)
(* outputs is extended to one more, since what awaits an output is built   *)
(* after it.                                                               *)
LEMMA WantedEquation == \A n \in Node : Wanted[n] = Pulled(Wanted, n)
<1> DEFINE Solves(g, k) == g = [n \in N - k + 1 .. N |-> Pulled(g, n)]
           T == {k \in 0 .. N : ~\E g : Solves(g, k)}
<1>0. N \in Nat /\ Node = 1 .. N
  BY OutputsAssumption DEF Node
<1>1. T = {}
  <2> SUFFICES ASSUME T # {} PROVE FALSE
    OBVIOUS
  <2>1. PICK k \in T : \A j \in T : k <= j
    <3>1. T \in SUBSET Nat
      BY <1>0
    <3> HIDE DEF T
    <3> QED BY <3>1, LeastNat
  <2>2. k \in Nat /\ k <= N
    BY <1>0
  <2>3. CASE k = 0
    <3>1. N - k + 1 .. N = {}
      BY <1>0, <2>3
    <3> DEFINE none == [n \in {} |-> {}]
    <3>2. none = [n \in N - k + 1 .. N |-> Pulled(none, n)]
      BY <3>1
    <3>3. Solves(none, k)
      BY <3>2
    <3>4. \E g : Solves(g, k)
      BY <3>3
    <3> QED BY <3>4
  <2>4. CASE k # 0
    <3>1. k - 1 \in 0 .. N /\ ~(k <= k - 1)
      BY <2>2, <2>4, <1>0
    <3>2. k - 1 \notin T
      BY <2>1, <3>1
    <3>3. PICK g : Solves(g, k - 1)
      BY <3>1, <3>2
    <3> DEFINE f == N - k + 1
               h == [n \in f .. N |-> IF n = f THEN Pulled(g, f) ELSE g[n]]
    <3>4. \A n \in f .. N : n # f => h[n] = g[n]
      OBVIOUS
    <3>5. h[f] = Pulled(g, f)
      BY <1>0, <2>2, <2>4
    <3>6. f \in Int /\ N - (k - 1) + 1 = f + 1
      BY <1>0, <2>2
    <3>7. h = [n \in f .. N |-> h[n]]
      OBVIOUS
    <3> HIDE DEF h, f
    <3>8. ASSUME NEW n \in f .. N PROVE h[n] = Pulled(h, n)
      <4>1. \A m \in n + 1 .. N : m \in f .. N /\ m # f
        BY <3>6, <1>0
      <4>2. \A m \in n + 1 .. N : h[m] = g[m]
        BY <3>4, <4>1
      <4>3. Pulled(h, n) = Pulled(g, n)
        <5>1. Pulled(h, n) <=> Pulled(g, n)
          BY <4>2, Zenon DEF Pulled
        <5> QED BY <5>1 DEF Pulled
      <4>4. CASE n = f
        BY <4>3, <4>4, <3>5
      <4>5. CASE n # f
        <5>1. n \in N - (k - 1) + 1 .. N
          BY <4>5, <3>6, <1>0
        <5>2. g[n] = Pulled(g, n)
          BY <5>1, <3>3
        <5> QED BY <3>4, <4>3, <4>5, <5>2
      <4> QED BY <4>4, <4>5
    <3>9. h = [n \in f .. N |-> Pulled(h, n)]
      BY <3>7, <3>8
    <3>10. Solves(h, k)
      BY <3>9 DEF f
    <3>11. \E e : Solves(e, k)
      BY <3>10
    <3> QED BY <3>11
  <2> QED BY <2>3, <2>4
<1>2. \E g : g = [n \in Node |-> Pulled(g, n)]
  <2>1. N \in 0 .. N /\ N \notin T
    BY <1>0, <1>1
  <2>2. PICK g : Solves(g, N)
    BY <2>1
  <2>3. N - N + 1 = 1
    BY <1>0
  <2> QED BY <2>2, <2>3, <1>0
<1>3. Wanted = [n \in Node |-> Pulled(Wanted, n)]
  <2>1. Wanted = CHOOSE g : g = [n \in Node |-> Pulled(g, n)]
    BY DEF Wanted, Pulled
  <2> QED BY <1>2, <2>1
<1> QED BY <1>3

(* Polls of which outputs come back with nothing, by Pending's equation.   *)
Halted(g, n) ==
  /\ ~Settled(n)
  /\ \/ Held[n]
     \/ /\ ~Advances(n)
        /\ Kind(n) \in Combinator =>
             /\ node[n].stage = "polled"
             /\ \A m \in Awaited(n) : Settled(m) \/ g[m]

LEMMA AwaitedEarlier ==
  ASSUME Typed, NEW n \in Node
  PROVE  Awaited(n) \subseteq Direct(n) /\ Awaited(n) \subseteq 1 .. n - 1
<1>1. Awaited(n) \subseteq Direct(n)
  BY DEF Awaited, Direct
<1> QED BY <1>1, DirectEarlier

(* Pending exists, as Up does.                                             *)
LEMMA PendingEquation ==
  ASSUME Typed
  PROVE  \A n \in Node : Pending[n] = Halted(Pending, n)
<1> DEFINE Solves(g, k) == g = [n \in 1 .. k |-> Halted(g, n)]
           T == {k \in 0 .. N : ~\E g : Solves(g, k)}
<1>0. N \in Nat /\ Node = 1 .. N
  BY OutputsAssumption DEF Node
<1>1. T = {}
  <2> SUFFICES ASSUME T # {} PROVE FALSE
    OBVIOUS
  <2>1. PICK k \in T : \A j \in T : k <= j
    <3>1. T \in SUBSET Nat
      BY <1>0
    <3> HIDE DEF T
    <3> QED BY <3>1, LeastNat
  <2>2. k \in Nat /\ k <= N
    BY <1>0
  <2>3. CASE k = 0
    <3> DEFINE none == [n \in {} |-> {}]
    <3>1. none = [n \in 1 .. k |-> Halted(none, n)]
      BY <2>3
    <3>2. \E g : Solves(g, k)
      BY <3>1
    <3> QED BY <3>2
  <2>4. CASE k # 0
    <3>1. k - 1 \in 0 .. N /\ ~(k <= k - 1)
      BY <2>2, <2>4, <1>0
    <3>2. k - 1 \notin T
      BY <2>1, <3>1
    <3>3. PICK g : Solves(g, k - 1)
      BY <3>1, <3>2
    <3> DEFINE h == [n \in 1 .. k |-> IF n = k THEN Halted(g, k) ELSE g[n]]
    <3>4. \A n \in 1 .. k : n # k => h[n] = g[n]
      OBVIOUS
    <3>5. h[k] = Halted(g, k)
      BY <2>2, <2>4
    <3>6. h = [n \in 1 .. k |-> h[n]]
      OBVIOUS
    <3> HIDE DEF h
    <3>7. ASSUME NEW n \in 1 .. k PROVE h[n] = Halted(h, n)
      <4>1. \A m \in Awaited(n) : h[m] = g[m]
        <5>1. Awaited(n) \subseteq 1 .. n - 1
          BY AwaitedEarlier, <1>0, <2>2
        <5>2. \A m \in 1 .. n - 1 : m \in 1 .. k /\ m # k
          BY <2>2
        <5> QED BY <3>4, <5>1, <5>2
      <4>2. Halted(h, n) = Halted(g, n)
        <5>1. Halted(h, n) <=> Halted(g, n)
          BY <4>1, Zenon DEF Halted
        <5> QED BY <5>1 DEF Halted
      <4>3. CASE n = k
        BY <4>2, <4>3, <3>5
      <4>4. CASE n # k
        <5>1. n \in 1 .. k - 1
          BY <4>4, <2>2
        <5>2. g[n] = Halted(g, n)
          BY <5>1, <3>3
        <5> QED BY <3>4, <4>2, <4>4, <5>2
      <4> QED BY <4>3, <4>4
    <3>8. h = [n \in 1 .. k |-> Halted(h, n)]
      BY <3>6, <3>7
    <3>9. \E f : Solves(f, k)
      BY <3>8
    <3> QED BY <3>9
  <2> QED BY <2>3, <2>4
<1>2. \E g : g = [n \in Node |-> Halted(g, n)]
  <2>1. N \in 0 .. N /\ N \notin T
    BY <1>0, <1>1
  <2>2. PICK g : Solves(g, N)
    BY <2>1
  <2> QED BY <2>2, <1>0
<1>3. Pending = [n \in Node |-> Halted(Pending, n)]
  <2>1. Pending = CHOOSE g : g = [n \in Node |-> Halted(g, n)]
    BY DEF Pending, Halted
  <2> QED BY <1>2, <2>1
<1> QED BY <1>3

-----------------------------------------------------------------------------
(* The guards of Task and of Returns; that of Answer is n \in resolver.    *)
TaskReady(n) ==
  \/ node[n].stage = "idle" /\ Kind(n) \in Combinator /\ Wanted[n]
  \/ node[n].stage = "polled" /\ Wanted[n] /\ CallsF(n)
  \/ Wanted[n] /\ Advances(n) /\ ~CallsF(n)
  \/ Kind(n) = "future" /\ Built(n) /\ Wanted[n] /\ ~Settled(n)

ReturnReady(n) ==
  /\ node[n].stage = "probing"
  /\ \/ \A m \in Src(n) : Settled(m)
     \/ \E m \in Src(n) : Pending[m]

(* A flat_map that has not called f has a task of its own, or f is not to  *)
(* be called: its source has failed.                                       *)
Driven(n) ==
  Built(n) /\ Kind(n) = "flat_map" /\ ~node[n].ran =>
    node[n].driven \/ \E m \in Src(n) : node[m].result = "err"

(* new, secret and unknown make outputs that have their result.            *)
BornSettled(n) == Built(n) /\ Kind(n) \in {"new", "secret", "unknown"} => Settled(n)

LiveInv ==
  /\ \A n \in asked : Built(n)
  /\ \A n \in Node : Driven(n) /\ BornSettled(n)

LEMMA LiveStep ==
  ASSUME OInv, LiveInv, NEW n \in Node, prog' = prog,
         \A k \in Node : Grows(k),
         \A k \in Node \ {n} : node'[k] = node[k],
         Built(n) => Built(n)',
         asked' = asked \/ (node' = node /\ asked' = asked \cup {n} /\ Built(n)),
         Driven(n)' /\ BornSettled(n)'
  PROVE  LiveInv'
<1>1. \A k \in Node : Built(k) => Built(k)'
  BY DEF Built
<1>2. \A k \in asked' : Built(k)'
  BY <1>1 DEF LiveInv, OInv, Typed
<1>3. ASSUME NEW k \in Node \ {n}
      PROVE  Driven(k)' /\ BornSettled(k)'
  <2>1. Driven(k) /\ BornSettled(k)
    BY DEF LiveInv
  <2>2. Kind(k)' = Kind(k) /\ Src(k)' = Src(k) /\ (Built(k)' <=> Built(k))
        /\ (Settled(k)' <=> Settled(k)) /\ node'[k] = node[k]
    BY DEF Kind, Src, Built, Settled
  <2>3. \A m \in Src(k) : node[m].result = "err" => node'[m].result = "err"
    <3>1. Src(k) \subseteq Node
      BY ProgramInputs DEF OInv, Typed, Src
    <3> QED BY <3>1 DEF Grows, Settled
  <2>4. Driven(k)'
    BY <2>1, <2>2, <2>3 DEF Driven
  <2>5. BornSettled(k)'
    BY <2>1, <2>2 DEF BornSettled
  <2> QED BY <2>4, <2>5
<1> QED
  BY <1>2, <1>3 DEF LiveInv

LEMMA InitLiveInv == Init => LiveInv
<1> SUFFICES ASSUME Init PROVE LiveInv
  OBVIOUS
<1>1. asked = {} /\ \A n \in Node : ~Built(n)
  BY DEF Init, Unbuilt, Built
<1> QED
  BY <1>1 DEF LiveInv, Driven, BornSettled

(* What every action leaves as it is.                                      *)
LEMMA OneOutput ==
  ASSUME OInv, NEW n \in Node, Build(n) \/ Returns(n) \/ Task(n) \/ AddDeps(n)
                                 \/ SetSecret(n) \/ MarkUnknown(n) \/ Answer(n)
  PROVE  /\ prog' = prog /\ asked' = asked
         /\ \A k \in Node \ {n} : node'[k] = node[k]
BY DEF OInv, Typed, Build, Returns, FastPath, SlowPath, Task, Poll, RunF, Settle, Complete,
       AddDeps, SetSecret, MarkUnknown, Answer, Resolve, Reject, Update

LEMMA TaskKeepsLive ==
  ASSUME OInv, LiveInv, NEW n \in Node, Task(n)
  PROVE  LiveInv'
<1>1. /\ node \in [Node -> State] /\ node[n] \in State
      /\ prog' = prog /\ asked' = asked /\ \A k \in Node \ {n} : node'[k] = node[k]
  BY OneOutput DEF OInv, Typed
<1>2. \A k \in Node : Grows(k)
  BY TaskGrows
<1>3. /\ node'[n].driven = node[n].driven
      /\ node[n].ran => node'[n].ran
      /\ \/ node'[n].stage = node[n].stage
         \/ node[n].stage = "idle" /\ node'[n].stage = "polled"
  <2>1. CASE Poll(n)
    BY <1>1, <2>1 DEF Poll, Update, State
  <2>2. CASE RunF(n)
    BY <1>1, <2>2 DEF RunF, Update, State
  <2>3. CASE Settle(n)
    BY <1>1, <2>3 DEF Settle, Update, State
  <2>4. CASE Complete(n)
    BY <1>1, <2>4 DEF Complete, Update, State
  <2> QED BY <2>1, <2>2, <2>3, <2>4 DEF Task
<1>4. Kind(n)' = Kind(n) /\ Src(n)' = Src(n) /\ (Built(n)' <=> Built(n))
  BY <1>1, <1>3 DEF Kind, Src, Built
<1>5. Driven(n)' /\ BornSettled(n)'
  <2>1. Driven(n) /\ BornSettled(n)
    BY DEF LiveInv
  <2>2. \A m \in Src(n) : node[m].result = "err" => node'[m].result = "err"
    <3>1. Src(n) \subseteq Node
      BY ProgramInputs DEF OInv, Typed, Src
    <3> QED BY <1>2, <3>1 DEF Grows, Settled
  <2>3. Driven(n)'
    BY <1>3, <1>4, <2>1, <2>2 DEF Driven
  <2>4. Settled(n) => Settled(n)'
    BY <1>2 DEF Grows, Settled
  <2> QED BY <1>4, <2>1, <2>3, <2>4 DEF BornSettled
<1> QED BY <1>1, <1>2, <1>4, <1>5, LiveStep

LEMMA ResolverKeepsLive ==
  ASSUME OInv, LiveInv, NEW n \in Node,
         AddDeps(n) \/ SetSecret(n) \/ MarkUnknown(n) \/ Answer(n)
  PROVE  LiveInv'
<1>1. /\ node \in [Node -> State] /\ node[n] \in State
      /\ prog' = prog /\ asked' = asked /\ \A k \in Node \ {n} : node'[k] = node[k]
  BY OneOutput DEF OInv, Typed
<1>2. \A k \in Node : Grows(k)
  BY ResolverGrows
<1>3. Kind(n) = "unresolved"
  BY DEF OInv, Typed, AddDeps, SetSecret, MarkUnknown, Answer, Resolve, Reject
<1>4. node'[n].stage = node[n].stage
  <2>1. CASE AddDeps(n)
    BY <1>1, <2>1 DEF AddDeps, Update, State
  <2>2. CASE SetSecret(n)
    BY <1>1, <2>2 DEF SetSecret, Update, State
  <2>3. CASE MarkUnknown(n)
    BY <1>1, <2>3 DEF MarkUnknown, Update, State
  <2>4. CASE Answer(n)
    BY <1>1, <2>4 DEF Answer, Resolve, Reject, Update, State
  <2> QED BY <2>1, <2>2, <2>3, <2>4
<1>5. Kind(n)' = Kind(n) /\ (Built(n)' <=> Built(n))
  BY <1>1, <1>4 DEF Kind, Built
<1>6. Driven(n)' /\ BornSettled(n)'
  BY <1>3, <1>5 DEF Driven, BornSettled
<1> QED BY <1>1, <1>2, <1>5, <1>6, LiveStep

LEMMA BuildKeepsLive ==
  ASSUME OInv, LiveInv, NEW n \in Node, Build(n)
  PROVE  LiveInv'
<1>1. /\ node \in [Node -> State] /\ node[n] \in State
      /\ prog' = prog /\ asked' = asked /\ \A k \in Node \ {n} : node'[k] = node[k]
  BY OneOutput DEF OInv, Typed
<1>2. \A k \in Node : Grows(k)
  BY ProgramGrows
<1>3. ~Built(n) /\ Kind(n)' = Kind(n)
  BY <1>1 DEF Build, Built, Kind
<1>4. CASE Kind(n) \in Leaf
  <2>1. node'[n] = LeafState(n)
    BY <1>1, <1>4 DEF Build, Update
  <2>2. Kind(n) \in {"new", "secret", "unknown"} => node'[n].result # "none"
    BY <2>1 DEF LeafState, Unbuilt
  <2>3. Kind(n) # "flat_map"
    BY <1>4 DEF Leaf
  <2>4. Driven(n)' /\ BornSettled(n)'
    BY <1>3, <2>2, <2>3 DEF Driven, BornSettled, Settled
  <2> QED BY <1>1, <1>2, <1>3, <2>4, LiveStep
<1>5. CASE Kind(n) \notin Leaf
  <2>1. node'[n] = CombinatorState(n)
    BY <1>1, <1>5 DEF Build, Update
  <2>2. Kind(n) = "flat_map" => ~Built(n)'
    BY <2>1 DEF CombinatorState, Unbuilt, Built
  <2>3. Driven(n)' /\ BornSettled(n)'
    BY <1>3, <1>5, <2>2 DEF Driven, BornSettled, Leaf
  <2> QED BY <1>1, <1>2, <1>3, <2>3, LiveStep
<1> QED BY <1>4, <1>5

LEMMA ReturnsKeepLive ==
  ASSUME OInv, LiveInv, NEW n \in Node, Returns(n)
  PROVE  LiveInv'
<1>1. /\ node \in [Node -> State] /\ node[n] \in State
      /\ prog' = prog /\ asked' = asked /\ \A k \in Node \ {n} : node'[k] = node[k]
  BY OneOutput DEF OInv, Typed
<1>2. \A k \in Node : Grows(k)
  BY ProgramGrows DEF Returns
<1>3. ~Built(n) /\ Kind(n) = "flat_map"
  BY DEF OInv, Typed, Returns, FastPath, SlowPath, Built
<1>4. Kind(n)' = Kind(n) /\ Src(n)' = Src(n)
  BY <1>1 DEF Kind, Src
<1>5. node'[n].ran \/ node'[n].driven \/ \E m \in Src(n) : node'[m].result = "err"
  <2>1. CASE SlowPath(n)
    BY <1>1, <2>1 DEF SlowPath, Update, State
  <2>2. CASE FastPath(n) /\ \A m \in Src(n) : node[m].result = "ok"
    BY <1>1, <2>2 DEF FastPath, Update, State
  <2>3. CASE FastPath(n) /\ ~(\A m \in Src(n) : node[m].result = "ok")
    <3>1. PICK m \in Src(n) : node[m].result # "ok"
      BY <2>3
    <3>2. m \in Node
      BY <3>1, ProgramInputs DEF OInv, Typed, Src
    <3>3. node[m].result # "none"
      BY <2>3, <3>1 DEF FastPath, Settled
    <3>4. node[m].result \in {"none", "ok", "err"}
      BY <1>1, <3>2 DEF State
    <3>5. node'[m].result = "err"
      BY <1>2, <3>1, <3>2, <3>3, <3>4 DEF Grows, Settled
    <3> QED BY <3>1, <3>5
  <2> QED BY <2>1, <2>2, <2>3 DEF Returns
<1>6. Driven(n)' /\ BornSettled(n)'
  BY <1>3, <1>4, <1>5 DEF Driven, BornSettled
<1> QED BY <1>1, <1>2, <1>3, <1>6, LiveStep

LEMMA AskKeepsLive ==
  ASSUME OInv, LiveInv, NEW n \in Node, Ask(n)
  PROVE  LiveInv'
<1>1. /\ prog' = prog /\ node' = node /\ asked' = asked \cup {n} /\ Built(n)
  BY DEF Ask
<1>2. \A k \in Node : Grows(k)
  BY ProgramGrows
<1>3. Driven(n)' /\ BornSettled(n)' /\ Built(n)'
  BY <1>1 DEF LiveInv, Driven, BornSettled, Built, Kind, Src, Settled
<1> QED BY <1>1, <1>2, <1>3, LiveStep

LEMMA NextLiveInv == OInv /\ LiveInv /\ [Next]_vars => LiveInv'
<1> SUFFICES ASSUME OInv, LiveInv, [Next]_vars PROVE LiveInv'
  OBVIOUS
<1>1. CASE Next
  BY <1>1, TaskKeepsLive, ResolverKeepsLive, BuildKeepsLive, ReturnsKeepLive, AskKeepsLive
     DEF Next
<1>2. CASE UNCHANGED vars
  BY <1>2 DEF vars, LiveInv, Driven, BornSettled, Built, Kind, Src, Settled
<1> QED BY <1>1, <1>2

(* Who awaits an output holds it, and a flat_map that has yet to call f    *)
(* runs by itself.                                                         *)
THEOREM SpecLiveInv == Spec => []LiveInv
<1>1. OInv /\ LiveInv /\ [Next]_vars => LiveInv'
  BY NextLiveInv
<1>2. Init => LiveInv
  BY InitLiveInv
<1> QED
  BY <1>1, <1>2, SpecOInv, PTL DEF Spec

(* What polls an output has it polled to where it waits for a resolver, or *)
(* a task can go on somewhere above it.                                    *)
MovesAbove(n) ==
  \/ \E m \in Up[n] \cup {n} : m \in Node /\ TaskReady(m)
  \/ Pending[n] /\ \E m \in Up[n] \cup {n} : m \in resolver

(* The outputs that an output awaits are built, and whoever polls it polls *)
(* them.                                                                   *)
LEMMA AwaitedWanted ==
  ASSUME OInv, NEW n \in Node, NEW m \in Awaited(n),
         node[n].stage = "probing" \/ (node[n].stage = "polled" /\ ~Settled(n) /\ Wanted[n])
  PROVE  m \in Node /\ m \in 1 .. n - 1 /\ Built(m) /\ Wanted[m] /\ Up[m] \cup {m} \subseteq Up[n]
<1>0. N \in Nat /\ Node = 1 .. N /\ Typed
  BY OutputsAssumption DEF Node, OInv
<1>1. m \in Direct(n) /\ m \in 1 .. n - 1
  BY <1>0, AwaitedEarlier
<1>2. m \in Node /\ n \in m + 1 .. N
  BY <1>0, <1>1
<1>3. Built(m)
  BY <1>0, <1>1 DEF Typed
<1>4. Pulled(Wanted, m)
  BY <1>2 DEF Pulled
<1>5. Wanted[m]
  BY <1>2, <1>4, WantedEquation
<1> QED BY <1>0, <1>1, <1>2, <1>3, <1>5, UpUnfolds

LEMMA WantedMoves ==
  ASSUME OInv, LiveInv
  PROVE  \A n \in Node : Wanted[n] /\ Built(n) /\ ~Settled(n) => MovesAbove(n)
<1> DEFINE T == {n \in Node : Wanted[n] /\ Built(n) /\ ~Settled(n) => MovesAbove(n)}
<1>0. Typed
  BY DEF OInv
<1>1. ASSUME NEW n \in Node, \A k \in 1 .. n - 1 : k \in T
      PROVE  n \in T
  <2> SUFFICES ASSUME Wanted[n], Built(n), ~Settled(n) PROVE MovesAbove(n)
    OBVIOUS
  <2>1. Kind(n) \in Leaf \cup Combinator
    BY <1>0, ProgramInputs DEF Typed, Kind
  <2>2. TaskReady(n) => MovesAbove(n)
    BY DEF MovesAbove
  <2>3. CASE Kind(n) = "future"
    BY <2>2, <2>3 DEF TaskReady
  <2>4. CASE Kind(n) = "unresolved"
    <3>1. n \in resolver
      BY <1>0, <2>4 DEF Typed
    <3>2. Kind(n) \notin Combinator
      BY <2>4 DEF Combinator
    <3>3. Halted(Pending, n)
      BY <3>2 DEF Halted, Advances
    <3>4. Pending[n]
      BY <1>0, <3>3, PendingEquation
    <3> QED BY <3>1, <3>4 DEF MovesAbove
  <2>5. CASE Kind(n) \in {"new", "secret", "unknown"}
    BY <2>5 DEF LiveInv, BornSettled
  <2>6. CASE Kind(n) \in Combinator
    <3>1. node[n].stage \in {"idle", "polled"}
      BY <1>0 DEF Typed, State, Built
    <3>2. CASE node[n].stage = "idle"
      BY <2>2, <2>6, <3>2 DEF TaskReady
    <3>3. CASE node[n].stage = "polled" /\ Advances(n)
      BY <2>2, <3>3 DEF TaskReady
    <3>4. CASE node[n].stage = "polled" /\ ~Advances(n)
      <4>1. Outcome(n) = "none"
        BY <2>6, <3>4 DEF Advances
      <4>2. PICK k \in Awaited(n) : ~Settled(k)
        BY <4>1 DEF Outcome
      <4>3. ASSUME NEW m \in Awaited(n), ~Settled(m)
            PROVE  MovesAbove(m) /\ m \in Node /\ Up[m] \cup {m} \subseteq Up[n]
        <5>1. m \in 1 .. n - 1 /\ Built(m) /\ Wanted[m] /\ m \in Node
              /\ Up[m] \cup {m} \subseteq Up[n]
          BY <3>4, AwaitedWanted
        <5> QED BY <1>1, <4>3, <5>1
      <4>4. CASE \E m \in Awaited(n) : ~Settled(m) /\ ~Pending[m]
        <5>1. PICK m \in Awaited(n) : ~Settled(m) /\ ~Pending[m]
          BY <4>4
        <5>2. PICK i \in Up[m] \cup {m} : i \in Node /\ TaskReady(i)
          BY <4>3, <5>1 DEF MovesAbove
        <5>3. i \in Up[n]
          BY <4>3, <5>1
        <5> QED BY <5>2, <5>3 DEF MovesAbove
      <4>5. CASE \A m \in Awaited(n) : Settled(m) \/ Pending[m]
        <5>1. Halted(Pending, n)
          BY <3>4, <4>5 DEF Halted
        <5>2. Pending[n]
          BY <1>0, <5>1, PendingEquation
        <5>3. PICK i \in Up[k] \cup {k} : i \in resolver \/ (i \in Node /\ TaskReady(i))
          BY <4>2, <4>3 DEF MovesAbove
        <5>4. i \in Up[n]
          BY <4>2, <4>3
        <5> QED BY <5>2, <5>3, <5>4 DEF MovesAbove
      <4> QED BY <4>4, <4>5
    <3> QED BY <3>1, <3>2, <3>3, <3>4
  <2> QED BY <2>1, <2>3, <2>4, <2>5, <2>6 DEF Leaf
<1>2. \A n \in Node : n \in T
  <2>1. T \in SUBSET Node
    OBVIOUS
  <2> HIDE DEF T
  <2> QED BY <1>1, <2>1, ByOrder
<1> QED BY <1>2

(* Whoever awaits an unanswered output waits for something that can happen: *)
(* among what the output is computed from, some future can be polled        *)
(* further, or somebody holds a resolver.                                  *)
AwaitsMove ==
  \A n \in asked : ~Settled(n) =>
    \E m \in Up[n] \cup {n} : TaskReady(m) \/ m \in resolver

(* flat_map's look at its source comes to an end by itself: it returns, or *)
(* a future above it can be polled further, whatever the resolvers do.     *)
CallsReturn ==
  \A n \in Node : node[n].stage = "probing" =>
    \E m \in Up[n] \cup {n} : TaskReady(m) \/ ReturnReady(m)

(* A flat_map whose source has a value, and that has not called f, can.    *)
FlatMapsMove == \A n \in Node : ~Converged(n) => TaskReady(n)

(* For every graph and interleaving, no await is for a poll that nobody    *)
(* makes or for a resolver that is gone: with fair polling, AwaitEnds.     *)
THEOREM SpecAwaitsMove == Spec => []AwaitsMove
<1>1. OInv /\ LiveInv => AwaitsMove
  <2> SUFFICES ASSUME OInv, LiveInv, NEW n \in asked, ~Settled(n)
               PROVE  \E m \in Up[n] \cup {n} : TaskReady(m) \/ m \in resolver
    BY DEF AwaitsMove
  <2>1. n \in Node /\ Built(n)
    BY DEF OInv, Typed, LiveInv
  <2>2. Wanted[n]
    BY <2>1, WantedEquation DEF Pulled
  <2>3. MovesAbove(n)
    BY <2>1, <2>2, WantedMoves
  <2> QED BY <2>3 DEF MovesAbove
<1> QED BY <1>1, SpecOInv, SpecLiveInv, PTL

(* For every graph and interleaving, a call of flat_map that looks at its  *)
(* source with now_or_never never waits for a resolver.                    *)
THEOREM SpecCallsReturn == Spec => []CallsReturn
<1>1. OInv /\ LiveInv => CallsReturn
  <2> SUFFICES ASSUME OInv, LiveInv, NEW n \in Node, node[n].stage = "probing"
               PROVE  \E m \in Up[n] \cup {n} : TaskReady(m) \/ ReturnReady(m)
    BY DEF CallsReturn
  <2>1. CASE \A m \in Src(n) : Settled(m)
    BY <2>1 DEF ReturnReady
  <2>2. CASE \E m \in Src(n) : ~Settled(m)
    <3>1. PICK k \in Src(n) : ~Settled(k)
      BY <2>2
    <3>2. k \in Awaited(n)
      BY DEF OInv, Typed, Awaited, Built
    <3>3. k \in Node /\ Built(k) /\ Wanted[k] /\ Up[k] \cup {k} \subseteq Up[n]
      BY <3>2, AwaitedWanted
    <3>4. MovesAbove(k)
      BY <3>1, <3>3, WantedMoves
    <3>5. CASE Pending[k]
      BY <3>1, <3>5 DEF ReturnReady
    <3>6. CASE ~Pending[k]
      BY <3>3, <3>4, <3>6 DEF MovesAbove
    <3> QED BY <3>5, <3>6
  <2> QED BY <2>1, <2>2
<1> QED BY <1>1, SpecOInv, SpecLiveInv, PTL

(* For every graph and interleaving, f of a flat_map over a pending output *)
(* is called without anybody asking for the result: with fair polling,     *)
(* FlatMapConverges.                                                       *)
THEOREM SpecFlatMapsMove == Spec => []FlatMapsMove
<1>1. OInv /\ LiveInv => FlatMapsMove
  <2> SUFFICES ASSUME OInv, LiveInv, NEW n \in Node, ~Converged(n)
               PROVE  TaskReady(n)
    BY DEF FlatMapsMove
  <2>1. /\ Built(n) /\ Kind(n) = "flat_map" /\ ~node[n].ran
        /\ \A m \in Src(n) : node[m].result = "ok"
    BY DEF Converged
  <2>2. node[n].driven
    BY <2>1 DEF LiveInv, Driven
  <2>3. Wanted[n]
    BY <2>2, WantedEquation DEF Pulled
  <2>4. CallsF(n)
    BY <2>1 DEF CallsF
  <2>5. node[n].stage \in {"idle", "polled"}
    BY <2>1 DEF OInv, Typed, State, Built
  <2> QED BY <2>1, <2>3, <2>4, <2>5 DEF TaskReady, Combinator
<1> QED BY <1>1, SpecOInv, SpecLiveInv, PTL

-----------------------------------------------------------------------------
(* How far an output is: each stage, f's call and the result count one.    *)
Stages == [unbuilt |-> 0, probing |-> 1, idle |-> 2, polled |-> 3]
Distance(s) ==
  Stages[s.stage] + (IF s.ran THEN 1 ELSE 0) + (IF s.result # "none" THEN 1 ELSE 0)
Far(n) == Distance(node[n])

(* Polling, returning and answering bring an output further, at most five  *)
(* times each, and nothing brings one back: so they are finitely many, and *)
(* awaiting them is not awaiting an endless to and fro.                    *)
Nearer ==
  [][\A n \in Node :
       /\ Far(n) \in 0 .. 5 /\ Far(n)' >= Far(n)
       /\ Build(n) \/ Returns(n) \/ Task(n) \/ Answer(n) => Far(n)' > Far(n)]_vars

LEMMA DistanceTyped == \A s \in State : Distance(s) \in 0 .. 5
BY DEF Distance, Stages, State

LEMMA Advancing ==
  ASSUME OInv, OInv', NEW n \in Node, Build(n) \/ Returns(n) \/ Task(n) \/ Answer(n)
  PROVE  Far(n)' > Far(n) /\ \A k \in Node \ {n} : Far(k)' = Far(k)
<1>0. /\ node \in [Node -> State] /\ node[n] \in State /\ node'[n] \in State
      /\ \A k \in Node \ {n} : node'[k] = node[k]
      /\ ~Built(n) => ~node[n].ran /\ node[n].result = "none"
  BY OneOutput DEF OInv, Typed
<1>1. \A k \in Node \ {n} : Far(k)' = Far(k)
  BY <1>0 DEF Far, Distance, Settled
<1>2. Far(n) \in 0 .. 5 /\ Far(n)' \in 0 .. 5
  BY <1>0, DistanceTyped DEF Far
<1>3. CASE Build(n)
  <2>1. Far(n) = 0
    BY <1>0, <1>3 DEF Build, Built, Far, Distance, Stages
  <2>2. node'[n].stage # "unbuilt"
    BY <1>0, <1>3 DEF Build, LeafState, CombinatorState, Unbuilt, Update
  <2>3. Far(n)' > 0
    BY <1>0, <2>2 DEF Far, Distance, Stages, State
  <2> QED BY <1>1, <2>1, <2>3
<1>4. CASE Returns(n)
  <2>1. node[n].stage = "probing" /\ ~node[n].ran /\ node[n].result = "none"
    BY <1>0, <1>4 DEF Returns, FastPath, SlowPath, Built
  <2>2. node'[n].stage = "idle"
    <3>1. CASE FastPath(n)
      BY <1>0, <3>1 DEF FastPath, Update, State
    <3>2. CASE SlowPath(n)
      BY <1>0, <3>2 DEF SlowPath, Update, State
    <3> QED BY <1>4, <3>1, <3>2 DEF Returns
  <2> QED BY <1>0, <1>1, <2>1, <2>2 DEF Far, Distance, Stages, State
<1>5. CASE Task(n)
  <2>1. CASE Poll(n)
    <3>1. /\ node[n].stage = "idle" /\ node'[n].stage = "polled"
          /\ node'[n].ran = node[n].ran /\ node'[n].result = node[n].result
      BY <1>0, <2>1 DEF Poll, Update, State
    <3> QED BY <1>1, <3>1 DEF Far, Distance, Stages
  <2>2. CASE RunF(n)
    <3>1. /\ node[n].stage = "polled" /\ ~node[n].ran
          /\ node'[n].stage = "polled" /\ node'[n].ran
          /\ node'[n].result = node[n].result
      BY <1>0, <2>2 DEF RunF, CallsF, Update, State
    <3> QED BY <1>1, <3>1 DEF Far, Distance, Stages
  <2>3. CASE Settle(n) \/ Complete(n)
    <3>1. /\ node'[n].stage = node[n].stage /\ node'[n].ran = node[n].ran
          /\ ~Settled(n) /\ node'[n].result # "none"
      <4>1. CASE Settle(n)
        <5>1. ~Settled(n) /\ Outcome(n) # "none"
          BY <4>1 DEF Settle, Advances
        <5> QED BY <1>0, <4>1, <5>1 DEF Settle, Update, State
      <4>2. CASE Complete(n)
        BY <1>0, <4>2 DEF Complete, Update, State
      <4> QED BY <2>3, <4>1, <4>2
    <3>2. Stages[node[n].stage] \in Int
      BY <1>0 DEF Stages, State
    <3> QED BY <1>1, <3>1, <3>2 DEF Far, Distance, Settled
  <2> QED BY <1>5, <2>1, <2>2, <2>3 DEF Task
<1>6. CASE Answer(n)
  <2>1. /\ node'[n].stage = node[n].stage /\ node'[n].ran = node[n].ran
        /\ ~Settled(n) /\ node'[n].result # "none"
    BY <1>0, <1>6 DEF Answer, Resolve, Reject, Update, State, OInv, Typed
  <2>2. Stages[node[n].stage] \in Int
    BY <1>0 DEF Stages, State
  <2> QED BY <1>1, <2>1, <2>2 DEF Far, Distance, Settled
<1> QED BY <1>3, <1>4, <1>5, <1>6

LEMMA StayingPut ==
  ASSUME OInv, NEW n \in Node, Ask(n) \/ AddDeps(n) \/ SetSecret(n) \/ MarkUnknown(n)
  PROVE  \A k \in Node : Far(k)' = Far(k)
<1>0. node \in [Node -> State] /\ node[n] \in State
  BY DEF OInv, Typed
<1>1. CASE Ask(n)
  BY <1>1 DEF Ask, Far
<1>2. CASE AddDeps(n) \/ SetSecret(n) \/ MarkUnknown(n)
  <2>1. /\ node'[n].stage = node[n].stage /\ node'[n].ran = node[n].ran
        /\ node'[n].result = node[n].result
    <3>1. CASE AddDeps(n)
      BY <1>0, <3>1 DEF AddDeps, Update, State
    <3>2. CASE SetSecret(n)
      BY <1>0, <3>2 DEF SetSecret, Update, State
    <3>3. CASE MarkUnknown(n)
      BY <1>0, <3>3 DEF MarkUnknown, Update, State
    <3> QED BY <1>2, <3>1, <3>2, <3>3
  <2>2. \A k \in Node \ {n} : node'[k] = node[k]
    BY <1>2, OneOutput
  <2> QED BY <2>1, <2>2 DEF Far, Distance, Settled
<1> QED BY <1>1, <1>2

(* For every graph: what the fairness of AwaitEnds asks for happens at     *)
(* most five times to each output.                                         *)
THEOREM SpecNearer == Spec => Nearer
<1>1. ASSUME OInv, OInv', Next, NEW n \in Node
      PROVE  /\ Far(n) \in 0 .. 5 /\ Far(n)' >= Far(n)
             /\ Build(n) \/ Returns(n) \/ Task(n) \/ Answer(n) => Far(n)' > Far(n)
  <2>1. Far(n) \in 0 .. 5 /\ Far(n)' \in 0 .. 5
    BY <1>1, DistanceTyped DEF OInv, Typed, Far
  <2>2. PICK k \in Node :
          \/ Build(k) \/ Returns(k) \/ Task(k) \/ Answer(k)
          \/ Ask(k) \/ AddDeps(k) \/ SetSecret(k) \/ MarkUnknown(k)
    BY <1>1 DEF Next
  <2>3. Far(n)' >= Far(n)
    BY <1>1, <2>1, <2>2, Advancing, StayingPut
  <2> QED BY <1>1, <2>1, <2>3, Advancing
<1>2. OInv /\ OInv' /\ [Next]_vars
      => [\A n \in Node :
            /\ Far(n) \in 0 .. 5 /\ Far(n)' >= Far(n)
            /\ Build(n) \/ Returns(n) \/ Task(n) \/ Answer(n) => Far(n)' > Far(n)]_vars
  BY <1>1
<1> QED BY <1>2, SpecOInv, PTL DEF Spec, Nearer
=============================================================================
