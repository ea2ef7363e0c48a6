--------------------------- MODULE ProgramProofs ---------------------------
(***************************************************************************)
(* Theorems about Program, for every program, any number of statements,    *)
(* transforms and runs: the types; what transforms a registration goes     *)
(* through; what the checkpoint's outputs are; what the events tell; and   *)
(* that engine and mock implement Monitor.                                 *)
(***************************************************************************)
EXTENDS Program, SequenceTheorems, FiniteSetTheorems, TLAPS

-----------------------------------------------------------------------------
(* Types.                                                                  *)

Options == [parent : SUBSET {"set"}, secrets : SUBSET Transform,
            rest : SUBSET ({"set"} \cup Transform), version : SUBSET {"type's"}]

(* The summary is written with counts that have been taken.                *)
TypeInv == TypeOK /\ (phase = "summing" => changes \in [Op -> Nat])

LEMMA BuiltTyped ==
  \A s \in Statement : Built(s) \in Options /\ Built(s).secrets = {}
  BY DEF Built, NewOptions, Options

(* However a transform answers, only secret outputs are added.             *)
LEMMA OptionsAfterIs ==
  ASSUME NEW t \in Transform, NEW opts \in Options
  PROVE  OptionsAfter(t, opts) = [opts EXCEPT !.secrets = @ \cup {t}]
  BY DEF OptionsAfter, OptionsTaken, ToProto, Transformed, FromProto, OptionsSent, Options

LEMMA UnusedTyped == Unused \in CallState
  BY DEF Unused, CallState, NewOptions

LEMMA EndedTyped ==
  \A at \in {"answered", "undecodable", "failed"} : [Unused EXCEPT !.at = at] \in CallState
  BY UnusedTyped DEF CallState

LEMMA ShortSeqs == \A S : <<>> \in Seq(S) /\ \A e \in S : <<e>> \in Seq(S)
  OBVIOUS

LEMMA CountsTyped ==
  ASSUME NEW log \in Seq(Event)
  PROVE  Counts(log) \in [Op -> Nat]
<1>1. IsFiniteSet(1..Len(log)) /\ DOMAIN log = 1..Len(log)
  BY FS_Interval, LenProperties
<1>2. \A op \in Op : Cardinality({i \in DOMAIN log : log[i].kind = "step" /\ log[i].op = op}) \in Nat
  BY <1>1, FS_Subset, FS_CardinalityType
<1> QED
  BY <1>2 DEF Counts

(* SetToSeq lists a finite set, every element once.                        *)
LEMMA ListOfSet ==
  ASSUME NEW S, IsFiniteSet(S)
  PROVE  /\ SetToSeq(S) \in Seq(S)
         /\ Range(SetToSeq(S)) = S
         /\ \A i, j \in 1..Len(SetToSeq(S)) : SetToSeq(S)[i] = SetToSeq(S)[j] => i = j
<1> DEFINE n == Cardinality(S)
           f == SetToSeq(S)
<1>1. n \in Nat /\ \E g \in [1..n -> S] : IsInjective(g)
  BY FS_CardinalityType DEF ExistsBijection, Bijection, Injection
<1>2. f \in [1..n -> S] /\ IsInjective(f)
  BY <1>1 DEF SetToSeq
<1>3. f \in Seq(S) /\ Len(f) = n /\ DOMAIN f = 1..n
  BY <1>1, <1>2
<1>4. f \in Injection(1..n, S)
  BY <1>2 DEF Injection
<1>5. IsFiniteSet(1..n) /\ Cardinality(1..n) = n
  BY <1>1, FS_Interval
<1>6. f \in Surjection(1..n, S)
  BY <1>4, <1>5, FS_Injection
<1>7. Range(f) = S
  BY <1>2, <1>3, <1>6 DEF Range, Surjection
<1> QED
  BY <1>2, <1>3, <1>7 DEF IsInjective

THEOREM InitTypeInv == Init => TypeInv
<1> SUFFICES ASSUME Init PROVE TypeInv
  OBVIOUS
<1>1. table \in Table /\ prior \in Table /\ Stack \notin Statement
  BY ProgramAssumption DEF Init, Table
<1>2. checkpoint \in [outputs : Outputs, table : Table]
  <2>1. CASE checkpoint = [outputs |-> 0, table |-> table]
    BY <1>1, <2>1, ProgramAssumption DEF Outputs, Foreign
  <2>2. ASSUME NEW earlier \in SUBSET {s \in Statement : Registers(s)},
               checkpoint = Earlier(earlier)
        PROVE  checkpoint \in [outputs : Outputs, table : Table]
    <3>1. Untransformed \in Entry
      BY DEF Untransformed, Entry
    <3>2. Earlier(earlier) \in [outputs : Outputs, table : Table]
      BY <3>1, ProgramAssumption DEF Earlier, Table, Outputs, Foreign
    <3> QED
      BY <2>2, <3>2
  <2> QED
    BY <2>1, <2>2 DEF Init
<1>3. call \in [Statement -> CallState]
  BY UnusedTyped DEF Init
<1>4. /\ transforms \in Seq(Transform) /\ recorded \in Seq(Resource) /\ events \in Seq(Event)
      /\ changes \in {<<>>} \cup [Op -> Nat]
  BY ShortSeqs DEF Init
<1>5. /\ outputs \in Outputs /\ run \in 0..MaxRuns /\ exported \in 0..MaxRuns
      /\ rootUrn \in {None, Stack} /\ late \subseteq Statement /\ finished \in BOOLEAN
  <2>1. outputs = 0 /\ run = 0 /\ exported = 0 /\ late = {} /\ rootUrn = None /\ ~finished
    BY DEF Init
  <2>2. 0 \in 0..MaxRuns /\ 0 \in Outputs
    BY ProgramAssumption DEF Outputs, Foreign
  <2> QED
    BY <2>1, <2>2, ProgramAssumption DEF Init
<1>6. told \in [Transform -> {"new", "inserted", "listed", "answered"}] /\ kindOf \in Kinds
      /\ phase = "idle" /\ mode = "up" /\ pc = "off"
  BY DEF Init
<1> QED
  BY <1>1, <1>2, <1>3, <1>4, <1>5, <1>6 DEF TypeInv, TypeOK

(* What a fresh process has.                                               *)
LEMMA FreshTyped ==
  ASSUME FreshProcess
  PROVE  /\ call' \in [Statement -> CallState]
         /\ told' \in [Transform -> {"new", "inserted", "listed", "answered"}]
         /\ transforms' \in Seq(Transform) /\ recorded' \in Seq(Resource)
         /\ changes' = <<>> /\ table' \in Table
         /\ late' \subseteq Statement /\ finished' \in BOOLEAN
<1>1. /\ call' \in [Statement -> CallState]
      /\ told' \in [Transform -> {"new", "inserted", "listed", "answered"}]
      /\ changes' = <<>> /\ table' \in Table
      /\ late' \subseteq Statement /\ finished' \in BOOLEAN
  BY UnusedTyped DEF FreshProcess, Table
<1>2. transforms' \in Seq(Transform) /\ recorded' \in Seq(Resource)
  BY ShortSeqs DEF FreshProcess
<1> QED
  BY <1>1, <1>2

LEMMA BeginTyped ==
  ASSUME TypeInv, UNCHANGED kindOf, NEW m,
         \/ m \in {"up", "preview"} /\ Begin(m)
         \/ m \in {"test", "testPreview"} /\ BeginTest(m)
  PROVE  TypeInv'
<1>1. FreshProcess /\ phase' = "running" /\ mode' = m /\ run' = run + 1 /\ run < MaxRuns
  BY DEF Begin, BeginTest
<1>2. events' \in Seq(Event)
  <2>1. [kind |-> "prelude"] \in Event
    BY DEF Event
  <2>2. events' \in {<<>>, <<[kind |-> "prelude"]>>}
    BY DEF Begin, BeginTest
  <2> QED
    BY <2>1, <2>2, ShortSeqs
<1>3. /\ prior' \in Table /\ outputs' \in Outputs /\ rootUrn' = None
      /\ pc' \in {"start", "body"} /\ UNCHANGED <<checkpoint, exported>>
  BY ProgramAssumption DEF Begin, BeginTest, TypeInv, TypeOK, Table, Outputs, Foreign
<1> QED
  BY <1>1, <1>2, <1>3, FreshTyped, ProgramAssumption DEF TypeInv, TypeOK

LEMMA ProgramTyped ==
  ASSUME TypeInv, UNCHANGED kindOf, Connect \/ RegisterStack \/ SetRoot \/ Export
           \/ ExportAnswered \/ Log
  PROVE  TypeInv'
<1>1. CASE Connect \/ SetRoot
  BY <1>1 DEF Connect, SetRoot, Proceed, TypeInv, TypeOK, memory, history
<1>2. CASE RegisterStack
  <2>1. Untransformed \in Entry /\ Stack \in Resource
    BY DEF Untransformed, Entry, Resource
  <2>2. \A op \in Op : [kind |-> "step", of |-> Stack, op |-> op] \in Event
    BY <2>1 DEF Event
  <2>3. events' \in Seq(Event) /\ recorded' \in Seq(Resource) /\ table' \in Table
    BY <1>2, <2>1, <2>2, AppendProperties DEF RegisterStack, TypeInv, TypeOK, Op, Table
  <2> QED
    BY <1>2, <2>3 DEF RegisterStack, Proceed, TypeInv, TypeOK, history
<1>3. CASE Export \/ ExportAnswered
  BY <1>3, ProgramAssumption
     DEF Export, ExportAnswered, Proceed, OutputsAfter, TypeInv, TypeOK, memory, history,
                                       Outputs, Foreign
<1>4. CASE Log
  <2>1. [kind |-> "diagnostic"] \in Event
    BY DEF Event
  <2> QED
    BY <1>4, <2>1, AppendProperties DEF Log, TypeInv, TypeOK, program, memory, history
<1> QED
  BY <1>1, <1>2, <1>3, <1>4

LEMMA TransformTyped ==
  ASSUME TypeInv, UNCHANGED kindOf, NEW t \in Transform, TransformStep(t)
  PROVE  TypeInv'
<1>1. told' \in [Transform -> {"new", "inserted", "listed", "answered"}]
  BY DEF TransformStep, InsertToken, ListTransform, TransformAnswered, Tell, TypeInv, TypeOK
<1>2. transforms' \in Seq(Transform)
  <2>1. transforms' \in {transforms, Append(transforms, t)}
    BY DEF TransformStep, InsertToken, ListTransform, TransformAnswered, PushTransform, memory
  <2>2. transforms \in Seq(Transform)
    BY DEF TypeInv, TypeOK
  <2> QED
    BY <2>1, <2>2, AppendProperties
<1> QED
  BY <1>1, <1>2 DEF TransformStep, InsertToken, ListTransform, TransformAnswered, Tell,
                    TypeInv, TypeOK, memory, history

LEMMA CallTyped ==
  ASSUME TypeInv, NEW s \in Statement, CallStep(s)
  PROVE  call' \in [Statement -> CallState]
<1> DEFINE c == call[s]
<1>0. c \in CallState /\ call \in [Statement -> CallState]
  BY DEF TypeInv, TypeOK
<1>1. CASE Send(s)
  <2>1. Built(s) \in Options
    BY BuiltTyped
  <2> QED
    BY <1>0, <1>1, <2>1 DEF Send, CallState, Options
<1>2. CASE Receive(s)
  <2>1. (IF Registers(s) THEN Snapshot ELSE <<>>) \in Seq(Transform)
    BY ShortSeqs DEF Snapshot, TypeInv, TypeOK
  <2> QED
    BY <1>0, <1>2, <2>1 DEF Receive, CallState
<1>3. CASE Callback(s)
  <2> DEFINE t == Head(c.todo)
  <2>1. c.todo \in Seq(Transform) /\ c.todo # <<>> /\ c.options \in Options
        /\ c.done \in Seq(Transform)
    BY <1>0, <1>3 DEF Callback, CallState, Options
  <2>2. t \in Transform /\ Tail(c.todo) \in Seq(Transform) /\ Append(c.done, t) \in Seq(Transform)
    BY <2>1, HeadTailProperties, AppendProperties
  <2>3. OptionsAfter(t, c.options) \in Options
    <3>1. OptionsAfter(t, c.options) = [c.options EXCEPT !.secrets = @ \cup {t}]
      BY <2>1, <2>2, OptionsAfterIs
    <3> QED
      BY <2>1, <2>2, <3>1 DEF Options
  <2> QED
    BY <1>0, <1>3, <2>2, <2>3 DEF Callback, CallState, Options
<1>4. CASE Serve(s)
  <2>1. AsksProvider(s) \in BOOLEAN
    BY DEF AsksProvider
  <2> QED
    BY <1>0, <1>4, <2>1 DEF Serve, CallState
<1>5. CASE Register(s)
  BY <1>0, <1>5 DEF Register, CallState
<1>6. CASE HandlerFails(s) \/ Answer(s) \/ MockAnswer(s)
  <2>1. \E at \in {"answered", "undecodable", "failed"} : EndCall(s, at)
    BY <1>6 DEF HandlerFails, Answer, MockAnswer
  <2> QED
    BY <1>0, <2>1, EndedTyped DEF EndCall
<1>7. CASE RegisterOutputs(s)
  BY <1>0, <1>7 DEF RegisterOutputs, program
<1> QED
  BY <1>1, <1>2, <1>3, <1>4, <1>5, <1>6, <1>7 DEF CallStep

LEMMA ActionTyped == \A s \in Statement : Action(s) \in {"create", "update", "same"}
  BY DEF Action

LEMMA CallStepTyped ==
  ASSUME TypeInv, UNCHANGED kindOf, NEW s \in Statement, CallStep(s)
  PROVE  TypeInv'
<1>1. call' \in [Statement -> CallState] /\ call[s] \in CallState /\ s \in Resource
  BY CallTyped DEF TypeInv, TypeOK, Resource
<1>2. events' \in Seq(Event)
  <2>1. [kind |-> "step", of |-> s, op |-> Action(s)] \in Event
    BY <1>1, ActionTyped DEF Event, Op
  <2>2. events' \in {events, Append(events, [kind |-> "step", of |-> s, op |-> Action(s)])}
    BY DEF CallStep, Send, Receive, Callback, Serve, HandlerFails, Register, Answer, MockAnswer,
           RegisterOutputs
  <2>3. events \in Seq(Event)
    BY DEF TypeInv, TypeOK
  <2> QED
    BY <2>1, <2>2, <2>3, AppendProperties
<1>3. recorded' \in Seq(Resource)
  <2>1. recorded' \in {recorded, Append(recorded, s)}
    BY DEF CallStep, Send, Receive, Callback, Serve, HandlerFails, Register, Answer, MockAnswer,
           RegisterOutputs, memory
  <2>2. recorded \in Seq(Resource)
    BY DEF TypeInv, TypeOK
  <2> QED
    BY <1>1, <2>1, <2>2, AppendProperties
<1>4. table' \in Table
  <2>1. CASE Register(s)
    <3>1. [transforms |-> call[s].done, secrets |-> call[s].options.secrets] \in Entry
      BY <1>1 DEF CallState, Entry
    <3> QED
      BY <1>1, <2>1, <3>1 DEF Register, TypeInv, TypeOK, Table
  <2>2. CASE ~Register(s)
    BY <2>2 DEF CallStep, Send, Receive, Callback, Serve, HandlerFails, Answer, MockAnswer,
                RegisterOutputs, memory, TypeInv, TypeOK
  <2> QED
    BY <2>1, <2>2
<1>5. outputs' \in Outputs /\ late' \subseteq Statement
  BY ProgramAssumption
     DEF CallStep, Send, Receive, Callback, Serve, HandlerFails, Register, Answer, MockAnswer,
         RegisterOutputs, OutputsAfter, memory, history, TypeInv, TypeOK, Outputs, Foreign
<1>6. UNCHANGED <<kindOf, phase, mode, pc, told, rootUrn, transforms, prior, changes, checkpoint, run,
                  finished, exported>>
  BY DEF CallStep, Send, Receive, Callback, Serve, HandlerFails, Register, Answer, MockAnswer,
         RegisterOutputs, program, memory, history
<1> QED
  BY <1>1, <1>2, <1>3, <1>4, <1>5, <1>6 DEF TypeInv, TypeOK

LEMMA ResourcesFinite == \A S : S \subseteq Resource => IsFiniteSet(S)
  BY ProgramAssumption, FS_AddElement, FS_Subset DEF Resource

(* The loop's events: one deletion for each entry that is left over.       *)
Stale == {r \in Resource : prior[r] # None /\ table[r] = None}
Deletion(r) == [kind |-> "step", of |-> r, op |-> "delete"]
Deletions == SetToSeq({Deletion(r) : r \in Stale})

LEMMA DeletionsAre ==
  /\ Deletions \in Seq(Event)
  /\ Range(Deletions) = {Deletion(r) : r \in Stale}
  /\ \A i, j \in 1..Len(Deletions) : Deletions[i] = Deletions[j] => i = j
<1> DEFINE S == {Deletion(r) : r \in Stale}
<1>1. IsFiniteSet(S)
  <2> DEFINE f == [r \in Stale |-> Deletion(r)]
  <2>1. f \in Surjection(Stale, S)
    BY DEF Surjection
  <2>2. IsFiniteSet(Stale)
    BY ResourcesFinite DEF Stale
  <2> QED
    BY <2>1, <2>2, FS_Surjection
<1>2. S \subseteq Event
  BY DEF Stale, Deletion, Event, Op
<1> QED
  BY <1>1, <1>2, ListOfSet, SeqMonotonic DEF Deletions

LEMMA EngineTyped ==
  ASSUME TypeInv, UNCHANGED kindOf,
         \/ ExitZero \/ ExitNonZero \/ TestEnds \/ DeleteStale \/ Save \/ SaveFails
         \/ CountChanges \/ Summarise
  PROVE  TypeInv'
<1>1. CASE ExitZero
  BY <1>1 DEF ExitZero, InFlight, memory, TypeInv, TypeOK
<1>2. CASE ExitNonZero \/ TestEnds \/ SaveFails
  <2>1. NothingLeft
    BY <1>2 DEF ExitNonZero, TestEnds, SaveFails
  <2> QED
    BY <2>1, FreshTyped, ShortSeqs DEF NothingLeft, TypeInv, TypeOK
<1>3. CASE DeleteStale
  <2>1. events' = events \o Deletions
    BY <1>3 DEF DeleteStale, Deletions, Deletion, Stale
  <2>2. events' \in Seq(Event)
    BY <2>1, DeletionsAre, ConcatProperties DEF TypeInv, TypeOK
  <2> QED
    BY <1>3, <2>2 DEF DeleteStale, program, memory, history, TypeInv, TypeOK
<1>4. CASE Save
  BY <1>4 DEF Save, program, memory, TypeInv, TypeOK
<1>5. CASE CountChanges
  BY <1>5, CountsTyped DEF CountChanges, program, memory, history, TypeInv, TypeOK
<1>6. CASE Summarise
  <2>1. [kind |-> "summary", changes |-> changes] \in Event
    BY <1>6 DEF Summarise, TypeInv, Event
  <2> QED
    BY <1>6, <2>1, AppendProperties DEF Summarise, program, memory, history, TypeInv, TypeOK
<1> QED
  BY <1>1, <1>2, <1>3, <1>4, <1>5, <1>6

THEOREM NextTypeInv == TypeInv /\ [Next]_vars => TypeInv'
<1> SUFFICES ASSUME TypeInv, [Next]_vars PROVE TypeInv'
  OBVIOUS
<1>1. CASE UNCHANGED vars
  BY <1>1 DEF vars, program, memory, history, TypeInv, TypeOK
<1>2. CASE Next
  BY <1>2, BeginTyped, ProgramTyped, TransformTyped, CallStepTyped, EngineTyped
     DEF Next, RunStep
<1> QED
  BY <1>1, <1>2

THEOREM SpecTypeInv == Spec => []TypeInv
  BY InitTypeInv, NextTypeInv, PTL DEF Spec

(* Every part of the state has its shape, for any transforms and builders. *)
THEOREM SpecTypeOK == Spec => []TypeOK
  BY SpecTypeInv, PTL DEF TypeInv

-----------------------------------------------------------------------------
(* Transforms. A handler that has begun has a prefix of the list behind it *)
(* and the rest of its copy before it.                                     *)

(* What the program has been told of is in the monitor's list, and what is *)
(* in the list is in the callback server, which lives as long as the       *)
(* program.                                                                *)
ListsAgree ==
  Native /\ phase = "running" =>
    /\ \A t \in Transform : told[t] \in {"listed", "answered"} => t \in Range(transforms)
    /\ Range(transforms) \subseteq Tokens

Waiting(s) ==
  /\ call[s].at \in {"idle", "sent"} => call[s].done = <<>>
  /\ call[s].at = "sent" => /\ call[s].options = Built(s)
                            /\ call[s].due \subseteq Range(transforms)

(* What a handler with call c has behind it and before it, of list q; its  *)
(* request had options b.                                                  *)
Follows(c, q, b) ==
  /\ Len(c.done) + Len(c.todo) <= Len(q)
  /\ \A i \in 1..Len(c.done) : c.done[i] = q[i]
  /\ \A i \in 1..Len(c.todo) : c.todo[i] = q[Len(c.done) + i]
  /\ \A t \in c.due : \E i \in 1..(Len(c.done) + Len(c.todo)) : q[i] = t
  /\ c.options = [b EXCEPT !.secrets = Range(c.done)]

Handled(s) ==
  Registers(s) =>
    /\ call[s].at \in {"applying", "served", "registered"} => Follows(call[s], transforms, Built(s))
    /\ call[s].at \in {"served", "registered"} => call[s].todo = <<>>
    /\ call[s].at = "registered" => table[s] = [transforms |-> call[s].done,
                                                secrets |-> Range(call[s].done)]

(* An entry is made last.                                                  *)
Entered(s) == call[s].at \in {"idle", "sent", "applying", "served"} => table[s] = None

ListInv ==
  /\ ListsAgree
  /\ \A s \in Statement : Entered(s) /\ (Native => Waiting(s) /\ Handled(s))

LEMMA AppendRange ==
  ASSUME NEW S, NEW q \in Seq(S), NEW e \in S
  PROVE  Range(Append(q, e)) = Range(q) \cup {e}
  BY AppendProperties DEF Range

LEMMA PrefixIs ==
  ASSUME NEW S, NEW p \in Seq(S), NEW q \in Seq(S),
         Len(p) <= Len(q), \A i \in 1..Len(p) : p[i] = q[i]
  PROVE  IsPrefix(p, q)
  BY SubSeqProperties, SeqEqual DEF IsPrefix

LEMMA BuiltFixed == \A s \in Statement : Built(s)' = Built(s)
  BY DEF Built, NewOptions

(* A handler copies the list,                                              *)
LEMMA FollowsFirst ==
  ASSUME NEW c \in CallState, NEW q \in Seq(Transform), NEW b \in Options, b.secrets = {},
         c.done = <<>>, c.todo = q, c.due \subseteq Range(q), c.options = b
  PROVE  Follows(c, q, b)
<1>1. Range(c.done) = {} /\ Len(c.done) = 0 /\ Len(q) \in Nat
  BY DEF Range
<1>2. b = [b EXCEPT !.secrets = {}]
  BY DEF Options
<1>3. \A t \in c.due : \E i \in 1..Len(q) : q[i] = t
  BY RangeEquality
<1> DEFINE m == Len(c.done)
           n == Len(c.todo)
<1>4. m = 0 /\ n \in Nat /\ n = Len(q) /\ \A i \in 1..n : c.todo[i] = q[i]
  BY <1>1
<1> HIDE DEF m, n
<1>5. /\ m + n <= Len(q)
      /\ \A i \in 1..m : c.done[i] = q[i]
      /\ \A i \in 1..n : c.todo[i] = q[m + i]
      /\ \A t \in c.due : \E i \in 1..(m + n) : q[i] = t
  BY <1>3, <1>4
<1> QED
  BY <1>1, <1>2, <1>5 DEF Follows, m, n

(* takes the next transform from its copy,                                 *)
LEMMA FollowsNext ==
  ASSUME NEW c \in CallState, NEW d \in CallState, NEW q \in Seq(Transform), NEW b \in Options,
         Follows(c, q, b), c.todo # <<>>, d.done = Append(c.done, Head(c.todo)),
         d.todo = Tail(c.todo), d.due = c.due,
         d.options = OptionsAfter(Head(c.todo), c.options)
  PROVE  Follows(d, q, b)
<1> DEFINE t == Head(c.todo)
<1>1. /\ c.todo \in Seq(Transform) /\ c.done \in Seq(Transform) /\ c.options \in Options
      /\ d.todo \in Seq(Transform) /\ d.done \in Seq(Transform)
  BY DEF CallState, Options
<1>2. /\ t \in Transform /\ t = c.todo[1] /\ Len(d.todo) = Len(c.todo) - 1
      /\ \A i \in 1..Len(d.todo) : d.todo[i] = c.todo[i + 1]
      /\ Len(c.todo) \in Nat \ {0} /\ Len(c.done) \in Nat /\ Len(q) \in Nat
  BY <1>1, HeadTailProperties, EmptySeq
<1>3. /\ Len(d.done) = Len(c.done) + 1 /\ d.done[Len(c.done) + 1] = t
      /\ \A i \in 1..Len(c.done) : d.done[i] = c.done[i]
      /\ Range(d.done) = Range(c.done) \cup {t}
  BY <1>1, <1>2, AppendProperties, AppendRange
<1>4. Len(d.done) + Len(d.todo) = Len(c.done) + Len(c.todo)
  <2> DEFINE x == Len(d.done) y == Len(d.todo) u == Len(c.done) v == Len(c.todo)
  <2>1. x = u + 1 /\ y = v - 1 /\ u \in Nat /\ v \in Nat
    BY <1>2, <1>3
  <2> HIDE DEF x, y, u, v
  <2>2. x + y = u + v
    BY <2>1
  <2> QED
    BY <2>2 DEF x, y, u, v
<1>5. \A i \in 1..Len(d.done) : d.done[i] = q[i]
  <2>1. t = q[Len(c.done) + 1]
    BY <1>2 DEF Follows
  <2> QED
    BY <1>2, <1>3, <2>1 DEF Follows
<1>6. ASSUME NEW i \in 1..Len(d.todo)
      PROVE  d.todo[i] = q[Len(d.done) + i]
  <2>1. d.todo[i] = c.todo[i + 1] /\ i + 1 \in 1..Len(c.todo)
    BY <1>2
  <2>2. Len(d.done) + i = Len(c.done) + (i + 1)
    <3> DEFINE x == Len(d.done) u == Len(c.done)
    <3>1. x = u + 1 /\ u \in Nat /\ i \in Int
      BY <1>2, <1>3
    <3> HIDE DEF x, u
    <3>2. x + i = u + (i + 1)
      BY <3>1
    <3> QED
      BY <3>2 DEF x, u
  <2> QED
    BY <2>1, <2>2 DEF Follows
<1>7. d.options = [b EXCEPT !.secrets = Range(d.done)]
  <2>1. d.options = [c.options EXCEPT !.secrets = @ \cup {t}]
    BY <1>1, <1>2, OptionsAfterIs
  <2> QED
    BY <1>3, <2>1 DEF Follows, Options
<1> QED
  BY <1>4, <1>5, <1>6, <1>7 DEF Follows

(* and does not see the list grow.                                         *)
LEMMA FollowsStill ==
  ASSUME NEW c \in CallState, NEW q \in Seq(Transform), NEW b, Follows(c, q, b), NEW t \in Transform
  PROVE  Follows(c, Append(q, t), b)
<1>1. /\ Len(Append(q, t)) = Len(q) + 1 /\ Len(q) \in Nat
      /\ \A i \in 1..Len(q) : Append(q, t)[i] = q[i]
  BY AppendProperties
<1> DEFINE m == Len(c.done)
           n == Len(c.todo)
           l == Len(q)
<1>2. m \in Nat /\ n \in Nat /\ m + n <= l
  BY DEF CallState, Follows
<1> HIDE DEF m, n, l
<1>3. \A i \in 1..(m + n) : Append(q, t)[i] = q[i]
  <2>1. \A i \in 1..l : Append(q, t)[i] = q[i]
    BY <1>1 DEF l
  <2>2. l \in Nat
    BY <1>1 DEF l
  <2>3. \A i \in 1..(m + n) : i \in 1..l
    BY <1>2, <2>2
  <2> QED
    BY <2>1, <2>3
<1>4. \A i \in 1..m : i \in 1..(m + n)
  BY <1>2
<1>5. \A i \in 1..n : m + i \in 1..(m + n)
  BY <1>2
<1>6. m + n <= Len(Append(q, t))
  <2>1. Len(Append(q, t)) = l + 1 /\ l \in Nat
    BY <1>1 DEF l
  <2> QED
    BY <1>2, <2>1
<1>7. /\ m + n <= l
      /\ \A i \in 1..m : c.done[i] = q[i]
      /\ \A i \in 1..n : c.todo[i] = q[m + i]
      /\ \A u \in c.due : \E i \in 1..(m + n) : q[i] = u
      /\ c.options = [b EXCEPT !.secrets = Range(c.done)]
  BY DEF Follows, m, n, l
<1>8. /\ m + n <= Len(Append(q, t))
      /\ \A i \in 1..m : c.done[i] = Append(q, t)[i]
      /\ \A i \in 1..n : c.todo[i] = Append(q, t)[m + i]
      /\ \A u \in c.due : \E i \in 1..(m + n) : Append(q, t)[i] = u
  BY <1>3, <1>4, <1>5, <1>6, <1>7
<1> QED
  BY <1>7, <1>8 DEF Follows, m, n

THEOREM InitListInv == Init => ListInv
<1> SUFFICES ASSUME Init PROVE ListInv
  OBVIOUS
<1>1. ListsAgree
  BY DEF Init, ListsAgree
<1>2. \A s \in Statement : call[s].at = "idle" /\ call[s].done = <<>> /\ table[s] = None
  BY DEF Init, Unused, Resource
<1> QED
  BY <1>1, <1>2 DEF ListInv, Waiting, Handled, Entered

(* A run begins, or its program is gone without a trace.                   *)
LEMMA FreshListInv ==
  ASSUME FreshProcess
  PROVE  ListInv'
<1>1. /\ transforms' = <<>> /\ Range(transforms') = {}
      /\ \A t \in Transform : told'[t] = "new"
  BY DEF FreshProcess, Range
<1>2. \A s \in Statement : call'[s].at = "idle" /\ call'[s].done = <<>> /\ table'[s] = None
  BY DEF FreshProcess, Unused, Resource
<1> QED
  BY <1>1, <1>2 DEF ListInv, ListsAgree, Waiting, Handled, Entered

(* The stack is no statement, and what else the engine does leaves calls,  *)
(* list and entries alone.                                                 *)
LEMMA EngineListInv ==
  ASSUME TypeInv, ListInv, UNCHANGED <<kindOf, mode, call, transforms>>,
         \A s \in Statement : table'[s] = table[s],
         phase' # "running" \/ UNCHANGED <<phase, told>>
  PROVE  ListInv'
<1>1. ListsAgree'
  BY DEF ListInv, ListsAgree, Native, Tokens
<1>2. ASSUME NEW s \in Statement
      PROVE  Entered(s)' /\ (Native' => Waiting(s)' /\ Handled(s)')
  BY BuiltFixed DEF ListInv, Entered, Waiting, Handled, Native, Registers
<1> QED
  BY <1>1, <1>2 DEF ListInv

LEMMA TransformListInv ==
  ASSUME TypeInv, ListInv, UNCHANGED kindOf, NEW t \in Transform, TransformStep(t)
  PROVE  ListInv'
<1>1. /\ UNCHANGED <<mode, phase, call, table>> /\ phase = "running"
      /\ transforms' = transforms \/ transforms' = Append(transforms, t)
  BY DEF TransformStep, InsertToken, ListTransform, TransformAnswered, PushTransform, Tell,
         memory
<1>2. /\ transforms \in Seq(Transform)
      /\ told \in [Transform -> {"new", "inserted", "listed", "answered"}]
  BY DEF TypeInv, TypeOK
<1>3. ListsAgree'
  <2>1. CASE ListTransform(t)
    BY <1>1, <1>2, <2>1, AppendRange
       DEF ListTransform, Tell, PushTransform, ListInv, ListsAgree, Native, Tokens
  <2>2. CASE InsertToken(t) \/ TransformAnswered(t)
    BY <1>1, <1>2, <2>2 DEF InsertToken, TransformAnswered, Tell, memory, ListInv, ListsAgree, Native,
                            Tokens
  <2> QED
    BY <2>1, <2>2 DEF TransformStep
<1>4. ASSUME NEW s \in Statement, Native
      PROVE  Waiting(s)' /\ Handled(s)'
  <2>1. Waiting(s) /\ Handled(s) /\ call[s] \in CallState
    BY <1>4 DEF ListInv, TypeInv, TypeOK
  <2>2. Range(transforms) \subseteq Range(transforms')
    <3>1. Range(Append(transforms, t)) = Range(transforms) \cup {t}
      BY <1>2, AppendRange
    <3> QED
      BY <1>1, <3>1
  <2>3. Follows(call[s], transforms, Built(s)) => Follows(call[s], transforms', Built(s))
    BY <1>1, <1>2, <2>1, FollowsStill
  <2> QED
    BY <1>1, <2>1, <2>2, <2>3, BuiltFixed DEF Waiting, Handled, Registers
<1> QED
  BY <1>1, <1>3, <1>4 DEF ListInv, Entered, Native

LEMMA CallListInv ==
  ASSUME TypeInv, ListInv, UNCHANGED kindOf, NEW s \in Statement, CallStep(s)
  PROVE  ListInv'
<1> DEFINE c == call[s]
           d == call'[s]
<1>0. /\ UNCHANGED <<mode, phase, told, transforms>>
      /\ \A r \in Statement \ {s} : call'[r] = call[r] /\ table'[r] = table[r]
  <2>1. UNCHANGED <<mode, phase, told, transforms>>
    BY DEF CallStep, Send, Receive, Callback, Serve, HandlerFails, Register, Answer, MockAnswer,
           RegisterOutputs, EndCall, program, memory
  <2>2. \A r \in Statement \ {s} : call'[r] = call[r]
    BY DEF CallStep, Send, Receive, Callback, Serve, HandlerFails, Register, Answer, MockAnswer,
           RegisterOutputs, EndCall, program, TypeInv, TypeOK
  <2>3. \A r \in Statement \ {s} : table'[r] = table[r]
    BY DEF CallStep, Send, Receive, Callback, Serve, HandlerFails, Register, Answer, MockAnswer,
           RegisterOutputs, memory, TypeInv, TypeOK, Table, Resource
  <2> QED
    BY <2>1, <2>2, <2>3
<1>1. /\ c \in CallState /\ transforms \in Seq(Transform) /\ call \in [Statement -> CallState]
      /\ Entered(s) /\ (Native => Waiting(s) /\ Handled(s))
      /\ Built(s) \in Options /\ Built(s).secrets = {} /\ Built(s)' = Built(s)
      /\ Registers(s)' = Registers(s) /\ d \in CallState
  BY CallTyped, BuiltTyped, BuiltFixed DEF TypeInv, TypeOK, ListInv, Registers
<1>2. ASSUME Entered(s)', Native => Waiting(s)' /\ Handled(s)'
      PROVE  ListInv'
  <2>1. ListsAgree'
    BY <1>0 DEF ListInv, ListsAgree, Native, Tokens
  <2>2. ASSUME NEW r \in Statement \ {s}
        PROVE  Entered(r)' /\ (Native => Waiting(r)' /\ Handled(r)')
    BY <1>0, <2>2, BuiltFixed DEF ListInv, Entered, Waiting, Handled, Registers, Native
  <2> QED
    BY <1>0, <1>2, <2>1, <2>2 DEF ListInv, Native
<1>3. CASE Send(s)
  <2>1. /\ c.at = "idle" /\ d.at = "sent" /\ d.options = Built(s) /\ d.done = c.done
        /\ d.due = {t \in Transform : told[t] = "answered"} /\ phase = "running"
        /\ table'[s] = table[s]
    BY <1>1, <1>3 DEF Send, CallState, memory
  <2>2. Native => d.due \subseteq Range(transforms)
    BY <2>1 DEF ListInv, ListsAgree
  <2> QED
    BY <1>0, <1>1, <1>2, <2>1, <2>2 DEF Waiting, Handled, Entered
<1>4. CASE Receive(s)
  <2>1. /\ c.at = "sent" /\ d.at = "applying" /\ d.options = c.options /\ d.done = c.done
        /\ d.due = c.due /\ table'[s] = table[s] /\ Native
        /\ Registers(s) => d.todo = transforms
    BY <1>1, <1>4 DEF Receive, Snapshot, CallState, memory
  <2>2. c.done = <<>> /\ c.options = Built(s) /\ c.due \subseteq Range(transforms)
    BY <1>1, <2>1 DEF Waiting
  <2>3. Registers(s) => Follows(d, transforms, Built(s))
    BY <1>1, <2>1, <2>2, FollowsFirst
  <2> QED
    BY <1>0, <1>1, <1>2, <2>1, <2>3 DEF Waiting, Handled, Entered
<1>5. CASE Callback(s)
  <2>1. /\ c.at = "applying" /\ d.at = "applying" /\ d.options = OptionsAfter(Head(c.todo), c.options)
        /\ d.done = Append(c.done, Head(c.todo)) /\ d.todo = Tail(c.todo)
        /\ d.due = c.due /\ table'[s] = table[s] /\ c.todo # <<>>
    BY <1>1, <1>5 DEF Callback, CallState, memory
  <2>2. Follows(c, transforms, Built(s)) => Follows(d, transforms, Built(s))
    BY <1>1, <2>1, FollowsNext
  <2> QED
    BY <1>0, <1>1, <1>2, <2>1, <2>2 DEF Waiting, Handled, Entered
<1>6. CASE Serve(s)
  <2>1. /\ c.at = "applying" /\ d.at = "served" /\ d.options = c.options
        /\ d.done = c.done /\ d.todo = c.todo /\ c.todo = <<>>
        /\ d.due = c.due /\ table'[s] = table[s]
    BY <1>1, <1>6 DEF Serve, CallState, memory
  <2>2. Follows(c, transforms, Built(s)) => Follows(d, transforms, Built(s))
    BY <2>1 DEF Follows
  <2> QED
    BY <1>0, <1>1, <1>2, <2>1, <2>2 DEF Waiting, Handled, Entered
<1>7. CASE Register(s)
  <2>1. /\ c.at = "served" /\ d.at = "registered" /\ d.options = c.options /\ Registers(s)
        /\ d.done = c.done /\ d.todo = c.todo /\ d.due = c.due
        /\ table'[s] = [transforms |-> c.done, secrets |-> c.options.secrets]
    BY <1>1, <1>7 DEF Register, CallState, TypeInv, TypeOK, Table, Resource
  <2>2. Follows(c, transforms, Built(s)) =>
          Follows(d, transforms, Built(s)) /\ c.options.secrets = Range(c.done)
    BY <1>1, <2>1 DEF Follows, Options
  <2> QED
    BY <1>0, <1>1, <1>2, <2>1, <2>2 DEF Waiting, Handled, Entered
<1>8. CASE HandlerFails(s) \/ Answer(s) \/ MockAnswer(s)
  <2>1. d.at \in {"answered", "undecodable", "failed"}
    BY <1>1, <1>8 DEF HandlerFails, Answer, MockAnswer, EndCall, Unused
  <2> QED
    BY <1>2, <2>1 DEF Waiting, Handled, Entered
<1>9. CASE RegisterOutputs(s)
  <2>1. UNCHANGED <<call, table>>
    BY <1>9 DEF RegisterOutputs, program
  <2> QED
    BY <1>0, <1>1, <1>2, <2>1 DEF Waiting, Handled, Entered
<1> QED
  BY <1>3, <1>4, <1>5, <1>6, <1>7, <1>8, <1>9 DEF CallStep

THEOREM NextListInv == TypeInv /\ ListInv /\ [Next]_vars => ListInv'
<1> SUFFICES ASSUME TypeInv, ListInv, [Next]_vars PROVE ListInv'
  OBVIOUS
<1>1. CASE UNCHANGED vars
  BY <1>1, EngineListInv DEF vars, program, memory
<1>2. CASE Next
  <2>1. ASSUME NEW m, Begin(m) \/ BeginTest(m)
        PROVE  ListInv'
    BY <2>1, FreshListInv DEF Begin, BeginTest
  <2>2. CASE Connect \/ RegisterStack \/ SetRoot \/ Export \/ ExportAnswered \/ Log
    <3>1. UNCHANGED <<mode, call, transforms, phase, told>>
      BY <2>2
         DEF Connect, RegisterStack, SetRoot, Export, ExportAnswered, Log, Proceed, program, memory
    <3>2. \A s \in Statement : table'[s] = table[s]
      BY <2>2, ProgramAssumption
         DEF Connect, RegisterStack, SetRoot, Export, ExportAnswered, Log, memory, TypeInv,
                                     TypeOK, Table, Resource
    <3> QED
      BY <1>2, <3>1, <3>2, EngineListInv DEF Next
  <2>3. CASE ExitNonZero \/ TestEnds \/ SaveFails
    BY <2>3, FreshListInv DEF ExitNonZero, TestEnds, SaveFails, NothingLeft
  <2>4. CASE ExitZero \/ DeleteStale \/ Save \/ CountChanges \/ Summarise
    <3>1. UNCHANGED <<mode, call, transforms, table>> /\ phase' # "running"
      BY <2>4 DEF ExitZero, DeleteStale, Save, CountChanges, Summarise, program, memory
    <3> QED
      BY <1>2, <3>1, EngineListInv DEF Next
  <2> QED
    BY <1>2, <2>1, <2>2, <2>3, <2>4, CallListInv, TransformListInv DEF Next, RunStep
<1> QED
  BY <1>1, <1>2

THEOREM SpecListInv == Spec => []ListInv
  BY InitListInv, NextListInv, SpecTypeInv, PTL DEF Spec

(* A registration that got past the transforms went through a prefix of    *)
(* the list, as long as that prefix may be, through all that the program   *)
(* had been told of before, and gained their secret outputs only.          *)
THEOREM SpecTransformsApplied == Spec => []TransformsApplied
<1>1. TypeInv /\ ListInv => TransformsApplied
  <2> SUFFICES ASSUME TypeInv, ListInv, Native PROVE TransformsApplied
    BY DEF TransformsApplied
  <2>1. ASSUME NEW s \in Statement, call[s].at \in {"served", "registered"}, Registers(s)
        PROVE  /\ IsPrefix(call[s].done, transforms)
               /\ call[s].due \subseteq Range(call[s].done)
               /\ call[s].options = [Built(s) EXCEPT !.secrets = Range(call[s].done)]
               /\ table[s] # None => table[s] = [transforms |-> call[s].done,
                                                 secrets |-> Range(call[s].done)]
    <3> DEFINE c == call[s]
    <3>1. /\ c.done \in Seq(Transform) /\ transforms \in Seq(Transform)
          /\ Follows(c, transforms, Built(s)) /\ c.todo = <<>> /\ Entered(s) /\ Handled(s)
      BY <2>1 DEF TypeInv, TypeOK, CallState, ListInv, Handled
    <3>2. Len(c.todo) = 0 /\ Len(c.done) \in Nat /\ Len(transforms) \in Nat
      BY <3>1
    <3>3. IsPrefix(c.done, transforms)
      BY <3>1, <3>2, PrefixIs DEF Follows
    <3>4. c.due \subseteq Range(c.done)
      BY <3>1, <3>2, RangeEquality DEF Follows
    <3>5. c.options = [Built(s) EXCEPT !.secrets = Range(c.done)]
      BY <3>1 DEF Follows
    <3> QED
      BY <2>1, <3>1, <3>3, <3>4, <3>5 DEF Entered, Handled
  <2> QED
    BY <2>1 DEF TransformsApplied, ListInv, ListsAgree
<1> QED
  BY <1>1, SpecTypeInv, SpecListInv, PTL

-----------------------------------------------------------------------------
(* Stack outputs. While a program runs its stack is the root, so that no   *)
(* component's outputs are taken for the stack's; until it has exported,   *)
(* the outputs in memory are those that were loaded.                       *)

OutputsInv ==
  /\ NativeOutputs = exported
  /\ phase = "running" => ~finished
  /\ Native /\ phase \in {"running", "deleting", "saving"} =>
       /\ pc \in {"body", "exporting", "done"} => rootUrn = Stack
       /\ outputs = IF pc \in {"exporting", "done"} \/ finished THEN run ELSE checkpoint.outputs
  /\ phase \in {"deleting", "saving"} => pc = "off" /\ Native

THEOREM InitOutputsInv == Init => OutputsInv
  BY DEF Init, OutputsInv, NativeOutputs, Earlier

LEMMA RunOutputs ==
  ASSUME TypeInv, OutputsInv, UNCHANGED kindOf, RunStep
  PROVE  OutputsInv'
<1>1. ASSUME NEW m \in {"up", "preview"}, Begin(m)
      PROVE  OutputsInv'
  BY <1>1 DEF Begin, FreshProcess, OutputsInv, NativeOutputs, Native
<1>2. ASSUME NEW m \in {"test", "testPreview"}, BeginTest(m)
      PROVE  OutputsInv'
  BY <1>2 DEF BeginTest, FreshProcess, OutputsInv, NativeOutputs, Native
<1>3. CASE Connect \/ RegisterStack \/ SetRoot \/ Export \/ ExportAnswered \/ Log
  BY <1>3
     DEF Connect, RegisterStack, SetRoot, Export, ExportAnswered, Log, Proceed, OutputsAfter, program, memory,
              history, OutputsInv, NativeOutputs, Native
<1>4. CASE ExitZero
  BY <1>4 DEF ExitZero, memory, OutputsInv, NativeOutputs, Native
<1>5. CASE ExitNonZero \/ TestEnds \/ SaveFails
  BY <1>5 DEF ExitNonZero, TestEnds, SaveFails, NothingLeft, FreshProcess, OutputsInv, NativeOutputs,
              Native
<1>6. CASE DeleteStale \/ CountChanges \/ Summarise
  BY <1>6 DEF DeleteStale, CountChanges, Summarise, program, memory, history, OutputsInv,
              NativeOutputs, Native
<1>7. CASE Save
  BY <1>7 DEF Save, program, memory, OutputsInv, NativeOutputs, Native, TypeInv, TypeOK
<1> QED
  BY <1>1, <1>2, <1>3, <1>4, <1>5, <1>6, <1>7 DEF RunStep

LEMMA CallOutputs ==
  ASSUME TypeInv, OutputsInv, UNCHANGED kindOf,
         (\E s \in Statement : CallStep(s)) \/ (\E t \in Transform : TransformStep(t))
  PROVE  OutputsInv'
<1>1. UNCHANGED <<phase, mode, pc, rootUrn, checkpoint, run, finished, exported>>
  BY DEF CallStep, Send, Receive, Callback, Serve, HandlerFails, Register, Answer, MockAnswer,
         RegisterOutputs, TransformStep, InsertToken, ListTransform, TransformAnswered, Tell,
         program, memory, history
<1>2. outputs' = outputs \/ \E s \in Statement : RegisterOutputs(s)
  BY DEF CallStep, Send, Receive, Callback, Serve, HandlerFails, Register, Answer, MockAnswer,
         TransformStep, InsertToken, ListTransform, TransformAnswered, memory
<1>3. Native => outputs' = outputs
  <2>1. ASSUME NEW s \in Statement, RegisterOutputs(s), Native
        PROVE  outputs' = outputs
    <3>1. rootUrn = Stack /\ s # Stack
      BY <2>1, ProgramAssumption DEF RegisterOutputs, OutputsInv
    <3> QED
      BY <2>1, <3>1 DEF RegisterOutputs, OutputsAfter
  <2> QED
    BY <1>2, <2>1
<1> QED
  BY <1>1, <1>3 DEF OutputsInv, NativeOutputs, Native

THEOREM NextOutputsInv == TypeInv /\ OutputsInv /\ [Next]_vars => OutputsInv'
<1> SUFFICES ASSUME TypeInv, OutputsInv, [Next]_vars PROVE OutputsInv'
  OBVIOUS
<1>1. CASE UNCHANGED vars
  BY <1>1 DEF vars, program, memory, history, OutputsInv, NativeOutputs, Native
<1> QED
  BY <1>1, RunOutputs, CallOutputs DEF Next

(* The checkpoint's outputs are the exports of the last program that       *)
(* exported and was saved, whatever components register and however other  *)
(* runs end.                                                               *)
THEOREM SpecStackOutputsLatest == Spec => []StackOutputsLatest
<1>1. Spec => []OutputsInv
  BY InitOutputsInv, NextOutputsInv, SpecTypeInv, PTL DEF Spec
<1> QED
  BY <1>1, PTL DEF OutputsInv, StackOutputsLatest

-----------------------------------------------------------------------------
(* The contract. Of the engine's list, the stack comes first and is not    *)
(* part of it; it is there before the program's future starts.             *)

StackFirst ==
  /\ pc \in {"start", "stack"} =>
       Native /\ recorded = <<>> /\ \A s \in Statement : call[s].at = "idle"
  /\ Native =>
    /\ recorded = <<>> => \A s \in Statement : call[s].at = "idle"
    /\ phase = "running" /\ pc \in {"root", "body", "exporting", "done"} => recorded # <<>>

THEOREM InitStackFirst == Init => StackFirst
  BY DEF Init, StackFirst, Unused, Native

LEMMA FreshStackFirst ==
  ASSUME FreshProcess,
         pc' = "off" \/ (pc' = "start" /\ Native') \/ (pc' = "body" /\ ~Native')
  PROVE  StackFirst'
  BY DEF FreshProcess, StackFirst, Unused

LEMMA RunStackFirst ==
  ASSUME TypeInv, StackFirst, UNCHANGED kindOf, RunStep
  PROVE  StackFirst'
<1>1. ASSUME NEW m, (m \in {"up", "preview"} /\ Begin(m)) \/ (m \in {"test", "testPreview"} /\ BeginTest(m))
      PROVE  StackFirst'
  BY <1>1, FreshStackFirst DEF Begin, BeginTest, Native
<1>2. CASE ExitNonZero \/ TestEnds \/ SaveFails
  BY <1>2, FreshStackFirst DEF ExitNonZero, TestEnds, SaveFails, NothingLeft
<1>3. CASE RegisterStack
  <2>1. recorded' # <<>>
    <3>1. recorded \in Seq(Resource) /\ Stack \in Resource
      BY DEF TypeInv, TypeOK, Resource
    <3>2. recorded' = Append(recorded, Stack)
      BY <1>3 DEF RegisterStack
    <3> QED
      BY <3>1, <3>2, AppendProperties
  <2> QED
    BY <1>3, <2>1 DEF RegisterStack, Proceed, StackFirst
<1>4. CASE Connect \/ SetRoot \/ Export \/ ExportAnswered \/ Log
  BY <1>4
     DEF Connect, SetRoot, Export, ExportAnswered, Log, Proceed, program, memory, StackFirst, Native
<1>5. CASE ExitZero \/ DeleteStale \/ Save \/ CountChanges \/ Summarise
  BY <1>5 DEF ExitZero, DeleteStale, Save, CountChanges, Summarise, program, memory, StackFirst, Native
<1> QED
  BY <1>1, <1>2, <1>3, <1>4, <1>5 DEF RunStep

LEMMA CallStackFirst ==
  ASSUME TypeInv, StackFirst, UNCHANGED kindOf,
         (\E s \in Statement : CallStep(s)) \/ (\E t \in Transform : TransformStep(t))
  PROVE  StackFirst'
<1>1. UNCHANGED <<phase, mode, pc>>
  BY DEF CallStep, Send, Receive, Callback, Serve, HandlerFails, Register, Answer, MockAnswer,
         RegisterOutputs, TransformStep, InsertToken, ListTransform, TransformAnswered, Tell,
         program, memory
<1>2. CASE \E t \in Transform : TransformStep(t)
  BY <1>1, <1>2 DEF TransformStep, InsertToken, ListTransform, TransformAnswered, memory, StackFirst,
                    Native
<1>3. ASSUME NEW s \in Statement, CallStep(s)
      PROVE  StackFirst'
  <2>1. recorded' = recorded \/ recorded' # <<>>
    <3>1. recorded' \in {recorded, Append(recorded, s)}
      BY <1>3 DEF CallStep, Send, Receive, Callback, Serve, HandlerFails, Register, Answer, MockAnswer,
             RegisterOutputs, memory
    <3>2. recorded \in Seq(Resource) /\ s \in Resource
      BY DEF TypeInv, TypeOK, Resource
    <3> QED
      BY <3>1, <3>2, AppendProperties
  <2>2. (phase = "running" /\ pc = "body") \/ call[s].at # "idle"
    BY <1>3 DEF CallStep, Send, Receive, Callback, Serve, HandlerFails, Register, Answer, MockAnswer,
                RegisterOutputs, InFlight
  <2>3. Native => recorded # <<>> /\ pc \notin {"start", "stack"}
    BY <2>2 DEF StackFirst
  <2> QED
    BY <1>1, <2>1, <2>3 DEF StackFirst, Native
<1> QED
  BY <1>2, <1>3

THEOREM NextStackFirst == TypeInv /\ StackFirst /\ [Next]_vars => StackFirst'
<1> SUFFICES ASSUME TypeInv, StackFirst, [Next]_vars PROVE StackFirst'
  OBVIOUS
<1>1. CASE UNCHANGED vars
  BY <1>1 DEF vars, program, memory, history, StackFirst, Native
<1> QED
  BY <1>1, RunStackFirst, CallStackFirst DEF Next

THEOREM SpecStackFirst == Spec => []StackFirst
  BY InitStackFirst, NextStackFirst, SpecTypeInv, PTL DEF Spec

(* The calls' progress, as the contract sees it.                           *)
Progresses == [s \in Statement |-> Progress(s)]
ContractVars == <<Progresses, Registrations>>

LEMMA NothingRegistered == recorded = <<>> => Registrations = <<>>
  BY SubSeqEmpty DEF Registrations

LEMMA RegistrationsGrow ==
  ASSUME TypeInv, NEW s \in Statement, UNCHANGED mode, recorded' = Append(recorded, s),
         Native => recorded # <<>>
  PROVE  Registrations' = Append(Registrations, s)
<1> DEFINE m == IF Native THEN 2 ELSE 1
           n == Len(recorded)
<1>1. recorded \in Seq(Resource) /\ s \in Resource /\ n \in Nat /\ (n = 0 => recorded = <<>>)
  BY EmptySeq DEF TypeInv, TypeOK, Resource
<1>2. m \in 1..(n + 1) /\ Registrations = SubSeq(recorded, m, n)
  BY <1>1 DEF Registrations
<1>3. Registrations' = SubSeq(Append(recorded, s), m, n + 1)
  BY <1>1, AppendProperties DEF Registrations, Native
<1> HIDE DEF m
<1>4. /\ Append(recorded, s) \in Seq(Resource) /\ Len(Append(recorded, s)) = n + 1
      /\ Append(recorded, s)[n + 1] = s
      /\ \A i \in 1..n : Append(recorded, s)[i] = recorded[i]
  BY <1>1, AppendProperties
<1>5. /\ SubSeq(Append(recorded, s), m, n + 1) \in Seq(Resource)
      /\ Len(SubSeq(Append(recorded, s), m, n + 1)) = n + 2 - m
      /\ \A i \in 1..(n + 2 - m) : SubSeq(Append(recorded, s), m, n + 1)[i] = Append(recorded, s)[m + i - 1]
  <2> DEFINE q == Append(recorded, s)
  <2>1. q \in Seq(Resource) /\ m \in Int /\ n + 1 \in Int /\ \A i \in m..(n + 1) : q[i] \in Resource
    BY <1>1, <1>2, <1>4, ElementOfSeq
  <2>2. m <= n + 1 /\ (n + 1) - m + 1 = n + 2 - m
    BY <1>1, <1>2
  <2> HIDE DEF q
  <2>3. /\ SubSeq(q, m, n + 1) \in Seq(Resource)
        /\ Len(SubSeq(q, m, n + 1)) = (n + 1) - m + 1
        /\ \A i \in 1..((n + 1) - m + 1) : SubSeq(q, m, n + 1)[i] = q[m + i - 1]
    BY <2>1, <2>2, SubSeqProperties
  <2> QED
    BY <2>2, <2>3 DEF q
<1>6. /\ SubSeq(recorded, m, n) \in Seq(Resource)
      /\ Len(SubSeq(recorded, m, n)) = n + 1 - m
      /\ \A i \in 1..(n + 1 - m) : SubSeq(recorded, m, n)[i] = recorded[m + i - 1]
  BY <1>1, <1>2, SubSeqProperties
<1> DEFINE old == SubSeq(recorded, m, n)
           new == SubSeq(Append(recorded, s), m, n + 1)
<1>7. /\ Append(old, s) \in Seq(Resource) /\ Len(Append(old, s)) = n + 2 - m
      /\ \A i \in 1..(n + 1 - m) : Append(old, s)[i] = old[i]
      /\ Append(old, s)[n + 2 - m] = s
  BY <1>1, <1>2, <1>6, AppendProperties
<1>8. ASSUME NEW i \in 1..(n + 2 - m)
      PROVE  new[i] = Append(old, s)[i]
  <2>1. CASE i = n + 2 - m
    BY <1>1, <1>2, <1>4, <1>5, <1>7, <2>1
  <2>2. CASE i # n + 2 - m
    <3>1. i \in 1..(n + 1 - m) /\ m + i - 1 \in 1..n
      BY <1>1, <1>2, <2>2
    <3> QED
      BY <1>4, <1>5, <1>6, <1>7, <3>1
  <2> QED
    BY <2>1, <2>2
<1>9. new = Append(old, s)
  BY <1>5, <1>7, <1>8, SeqEqual
<1> QED
  BY <1>2, <1>3, <1>9

(* A step of one call.                                                     *)
LEMMA ProgressOf ==
  ASSUME NEW s \in Statement, UNCHANGED kindOf, \A r \in Statement \ {s} : call'[r] = call[r]
  PROVE  Progresses' = [Progresses EXCEPT ![s] = Progress(s)']
<1>1. \A r \in Statement \ {s} : Progress(r)' = Progress(r)
  BY DEF Progress, Registers
<1> QED
  BY <1>1 DEF Progresses

(* A step the contract does not see.                                       *)
LEMMA ContractStutter ==
  ASSUME UNCHANGED <<kindOf, mode, recorded>>, \A s \in Statement : Progress(s)' = Progress(s)
  PROVE  UNCHANGED ContractVars
  BY DEF ContractVars, Progresses, Registrations, Native

LEMMA ContractRestarts ==
  ASSUME UNCHANGED kindOf, FreshProcess
  PROVE  Contract!Restart
<1>1. \A s \in Statement : Progress(s)' = "idle"
  BY DEF FreshProcess, Unused, Progress, Registers
<1>2. Registrations' = <<>>
  BY SubSeqEmpty DEF FreshProcess, Registrations
<1> QED
  BY <1>1, <1>2 DEF Contract!Restart

LEMMA ContractCall ==
  ASSUME TypeInv, StackFirst, UNCHANGED kindOf, NEW s \in Statement, CallStep(s)
  PROVE  Contract!Next \/ UNCHANGED ContractVars
<1> DEFINE c == call[s]
           d == call'[s]
<1>0. /\ UNCHANGED mode /\ call \in [Statement -> CallState] /\ c \in CallState
      /\ recorded \in Seq(Resource) /\ Progresses[s] = Progress(s)
      /\ (Registers(s))' = Registers(s)
  BY DEF CallStep, Send, Receive, Callback, Serve, HandlerFails, Register, Answer, MockAnswer,
         RegisterOutputs, program, TypeInv, TypeOK, Progresses, Registers
<1>1. \A r \in Statement \ {s} : call'[r] = call[r]
  BY <1>0 DEF CallStep, Send, Receive, Callback, Serve, HandlerFails, Register, Answer, MockAnswer,
              RegisterOutputs, EndCall, program
<1>2. Progresses' = [Progresses EXCEPT ![s] = Progress(s)']
  BY <1>1, ProgressOf
<1>3. ASSUME Progress(s)' = Progress(s), UNCHANGED recorded
      PROVE  UNCHANGED ContractVars
  <2>1. \A r \in Statement : Progress(r)' = Progress(r)
    BY <1>1, <1>3 DEF Progress, Registers
  <2> QED
    BY <1>0, <1>3, <2>1, ContractStutter
<1>4. UNCHANGED recorded => UNCHANGED Registrations
  BY <1>0 DEF Registrations, Native
<1>5. CASE ~Registers(s)
  <2>1. Progress(s)' = "idle" /\ Progress(s) = "idle"
    BY <1>5 DEF Progress, Registers
  <2>2. UNCHANGED recorded
    BY <1>5 DEF CallStep, Send, Receive, Callback, Serve, HandlerFails, Register, Answer, MockAnswer,
                MockRecords, RegisterOutputs, memory
  <2> QED
    BY <1>3, <2>1, <2>2
<1>6. CASE Registers(s)
  <2>1. CASE Send(s)
    <3>1. c.at = "idle" /\ d.at = "sent" /\ UNCHANGED recorded
      BY <1>0, <2>1 DEF Send, CallState, memory
    <3>2. Progress(s) = "idle" /\ Progress(s)' = "pending"
      BY <1>0, <1>6, <3>1 DEF Progress
    <3>3. Contract!Issue(s)
      BY <1>0, <1>2, <1>4, <3>1, <3>2 DEF Contract!Issue, Progresses
    <3> QED
      BY <3>3 DEF Contract!Next
  <2>2. CASE Receive(s) \/ Callback(s) \/ Serve(s)
    <3>1. c.at \in {"sent", "applying"} /\ d.at \in {"applying", "served"} /\ UNCHANGED recorded
      BY <1>0, <2>2 DEF Receive, Callback, Serve, CallState, memory
    <3>2. Progress(s) = "pending" /\ Progress(s)' = "pending"
      BY <1>0, <1>6, <3>1 DEF Progress
    <3> QED
      BY <1>3, <3>1, <3>2
  <2>3. CASE HandlerFails(s)
    <3>1. /\ c.at \in {"sent", "applying", "served", "registered"} /\ d.at = "failed"
          /\ UNCHANGED recorded
      BY <1>0, <2>3 DEF HandlerFails, InFlight, EndCall, Unused, memory
    <3>2. Progress(s) \in {"pending", "recorded"} /\ Progress(s)' = "failed"
      BY <1>0, <1>6, <3>1 DEF Progress
    <3>3. Contract!Fail(s)
      BY <1>0, <1>2, <1>4, <3>1, <3>2 DEF Contract!Fail, Progresses
    <3> QED
      BY <3>3 DEF Contract!Next
  <2>4. CASE Register(s)
    <3>1. c.at = "served" /\ d.at = "registered" /\ recorded' = Append(recorded, s)
      BY <1>0, <2>4 DEF Register, CallState
    <3>2. Progress(s) = "pending" /\ Progress(s)' = "recorded"
      BY <1>0, <1>6, <3>1 DEF Progress
    <3>3. Registrations' = Append(Registrations, s)
      BY <1>0, <3>1, RegistrationsGrow DEF StackFirst
    <3>4. Contract!Record(s)
      BY <1>0, <1>2, <3>2, <3>3 DEF Contract!Record, Progresses
    <3> QED
      BY <3>4 DEF Contract!Next
  <2>5. CASE Answer(s)
    <3>1. c.at = "registered" /\ d.at \in {"answered", "undecodable"} /\ UNCHANGED recorded
      BY <1>0, <1>6, <2>5 DEF Answer, EndCall, Unused, memory
    <3>2. Progress(s) = "recorded" /\ Progress(s)' = "answered"
      BY <1>0, <1>6, <3>1 DEF Progress
    <3>3. Contract!Answer(s)
      BY <1>0, <1>2, <1>4, <3>1, <3>2 DEF Contract!Answer, Progresses
    <3> QED
      BY <3>3 DEF Contract!Next
  <2>6. CASE MockAnswer(s) /\ s \in Injected
    <3>1. c.at = "sent" /\ d.at = "failed" /\ UNCHANGED recorded
      BY <1>0, <2>6 DEF MockAnswer, MockRecords, EndCall, Unused
    <3>2. Progress(s) = "pending" /\ Progress(s)' = "failed"
      BY <1>0, <1>6, <3>1 DEF Progress
    <3>3. Contract!Fail(s)
      BY <1>0, <1>2, <1>4, <3>1, <3>2 DEF Contract!Fail, Progresses
    <3> QED
      BY <3>3 DEF Contract!Next
  <2>7. CASE MockAnswer(s) /\ s \notin Injected
    <3>1. /\ c.at = "sent" /\ d.at \in {"answered", "undecodable"}
          /\ recorded' = Append(recorded, s) /\ ~Native
      BY <1>0, <1>6, <2>7 DEF MockAnswer, MockRecords, EndCall, Unused
    <3>2. Progress(s) = "pending" /\ Progress(s)' = "answered"
      BY <1>0, <1>6, <3>1 DEF Progress
    <3>3. Registrations' = Append(Registrations, s)
      BY <1>0, <3>1, RegistrationsGrow
    <3>4. Contract!RecordAndAnswer(s)
      BY <1>0, <1>2, <3>2, <3>3 DEF Contract!RecordAndAnswer, Progresses
    <3> QED
      BY <3>4 DEF Contract!Next
  <2>8. CASE RegisterOutputs(s)
    <3>1. UNCHANGED <<call, recorded>>
      BY <2>8 DEF RegisterOutputs, program
    <3> QED
      BY <1>0, <1>3, <3>1 DEF Progress
  <2> QED
    BY <2>1, <2>2, <2>3, <2>4, <2>5, <2>6, <2>7, <2>8 DEF CallStep
<1> QED
  BY <1>5, <1>6

LEMMA ContractNext ==
  ASSUME TypeInv, StackFirst, [Next]_vars
  PROVE  Contract!Next \/ UNCHANGED ContractVars
<1>1. ASSUME UNCHANGED <<kindOf, mode, call, recorded>>
      PROVE  UNCHANGED ContractVars
  BY <1>1, ContractStutter DEF Progress, Registers
<1>2. CASE UNCHANGED vars
  BY <1>1, <1>2 DEF vars, program, memory
<1>3. ASSUME UNCHANGED kindOf, FreshProcess
      PROVE  Contract!Next
  BY <1>3, ContractRestarts DEF Contract!Next
<1>4. CASE Next /\ RegisterStack
  <2>1. /\ recorded = <<>> /\ recorded' = <<Stack>> /\ UNCHANGED <<kindOf, mode, call>> /\ Native
        /\ Native'
    BY <1>4 DEF Next, RegisterStack, Proceed, StackFirst, Native
  <2>2. Registrations = <<>> /\ Registrations' = <<>>
    BY <2>1, SubSeqEmpty DEF Registrations
  <2>3. Progresses' = Progresses
    BY <2>1 DEF Progresses, Progress, Registers
  <2> QED
    BY <2>2, <2>3 DEF ContractVars
<1>5. CASE Next /\ RunStep /\ ~RegisterStack
  <2>1. \/ FreshProcess
        \/ UNCHANGED <<mode, call, recorded>>
    BY <1>5
       DEF RunStep, Begin, BeginTest, Connect, SetRoot, Export, ExportAnswered, Log, ExitZero, ExitNonZero, TestEnds,
                DeleteStale, Save, SaveFails, CountChanges, Summarise, NothingLeft, program, memory
  <2> QED
    BY <1>1, <1>3, <1>5, <2>1 DEF Next
<1>6. CASE Next /\ \E t \in Transform : TransformStep(t)
  <2>1. UNCHANGED <<mode, call, recorded>>
    BY <1>6 DEF TransformStep, InsertToken, ListTransform, TransformAnswered, memory
  <2> QED
    BY <1>1, <1>6, <2>1 DEF Next
<1> QED
  BY <1>2, <1>4, <1>5, <1>6, ContractCall DEF Next

(* The engine, behind its gRPC server, and the mock of the unit tests both *)
(* keep what MonitorConnection promises, with any number of calls at once. *)
THEOREM SpecMonitor == Spec => MonitorSpec
<1>1. Init => Contract!Init
  <2>1. ASSUME Init
        PROVE  Progresses = [s \in Statement |-> "idle"] /\ Registrations = <<>>
    BY <2>1, NothingRegistered DEF Init, Progresses, Progress, Unused
  <2> QED
    BY <2>1 DEF Contract!Init, Progresses
<1>2. TypeInv /\ StackFirst /\ [Next]_vars
        => [Contract!Next]_<<[s \in Statement |-> Progress(s)], Registrations>>
  BY ContractNext DEF ContractVars, Progresses
<1> QED
  BY <1>1, <1>2, SpecTypeInv, SpecStackFirst, PTL DEF Spec, MonitorSpec, Contract!Spec

-----------------------------------------------------------------------------
(* Events. A log tells of a resource once that it was registered, and once *)
(* that it was deleted.                                                    *)

RegistrationOf(e, r) == e.kind = "step" /\ e.of = r /\ e.op # "delete"
DeletionOf(e, r) == e.kind = "step" /\ e.of = r /\ e.op = "delete"

Told(log, r) == \E i \in DOMAIN log : RegistrationOf(log[i], r)
Gone(log, r) == \E i \in DOMAIN log : DeletionOf(log[i], r)

ToldOnce(log) ==
  \A r \in Resource : \A i, j \in DOMAIN log :
    RegistrationOf(log[i], r) /\ RegistrationOf(log[j], r) => i = j
GoneOnce(log) ==
  \A r \in Resource : \A i, j \in DOMAIN log :
    DeletionOf(log[i], r) /\ DeletionOf(log[j], r) => i = j

(* Creations are of what was not there before.                             *)
OpsFit(log, old) ==
  \A r \in Resource : \A i \in DOMAIN log :
    RegistrationOf(log[i], r) => (log[i].op = "create" <=> old[r] = None)

(* A resource whose event is still to come, and one whose event has come   *)
(* and whose entry has not.                                                *)
Before(r) ==
  IF r = Stack THEN pc \in {"start", "stack"} ELSE call[r].at \in {"idle", "sent", "applying"}
Between(r) == r \in Statement /\ Registers(r) /\ call[r].at = "served"

RegistrationsTold ==
  /\ events[1] = [kind |-> "prelude"] /\ ToldOnce(events) /\ OpsFit(events, prior)
  /\ \A r \in Resource :
       /\ Told(events, r) => table[r] # None \/ r \in late \/ Between(r)
       /\ table[r] # None \/ Between(r) => Told(events, r)
       /\ Before(r) => ~Told(events, r)

DeletionsTold ==
  /\ phase \in {"running", "deleting"} => \A r \in Resource : ~Gone(events, r)
  /\ phase \notin {"running", "deleting"} /\ late = {} =>
       /\ GoneOnce(events)
       /\ \A r \in Resource : Gone(events, r) <=> prior[r] # None /\ table[r] = None

(* Without a late handler nothing is told after the changes were counted.  *)
CountsTold ==
  /\ phase # "running" => InFlight \subseteq late
  /\ phase = "summing" /\ late = {} => changes = Counts(events)
  /\ phase = "idle" /\ late = {} =>
       Last(events) = [kind |-> "summary", changes |-> Counts(events)]

EventsInv ==
  /\ Native /\ phase # "idle" => events # <<>>
  /\ Native /\ events # <<>> => RegistrationsTold /\ DeletionsTold /\ CountsTold

(* What an event adds to a log.                                            *)
LEMMA InLonger ==
  ASSUME NEW log \in Seq(Event), NEW e \in Event
  PROVE  /\ Append(log, e) \in Seq(Event)
         /\ DOMAIN Append(log, e) = DOMAIN log \cup {Len(log) + 1}
         /\ Len(log) + 1 \notin DOMAIN log
         /\ \A i \in DOMAIN log : Append(log, e)[i] = log[i]
         /\ Append(log, e)[Len(log) + 1] = e
<1>1. DOMAIN log = 1..Len(log) /\ Len(log) \in Nat
  OBVIOUS
<1> QED
  BY <1>1, AppendProperties

LEMMA OtherEvent ==
  ASSUME NEW log \in Seq(Event), NEW e \in Event, e.kind # "step"
  PROVE  /\ \A r \in Resource : /\ Told(Append(log, e), r) <=> Told(log, r)
                                /\ Gone(Append(log, e), r) <=> Gone(log, r)
         /\ ToldOnce(log) => ToldOnce(Append(log, e))
         /\ GoneOnce(log) => GoneOnce(Append(log, e))
         /\ \A old : OpsFit(log, old) => OpsFit(Append(log, e), old)
         /\ Counts(Append(log, e)) = Counts(log)
<1>1. /\ DOMAIN Append(log, e) = DOMAIN log \cup {Len(log) + 1}
      /\ \A i \in DOMAIN log : Append(log, e)[i] = log[i]
      /\ Append(log, e)[Len(log) + 1] = e
      /\ Len(log) + 1 \notin DOMAIN log
  BY InLonger
<1>2. \A op \in Op : {i \in DOMAIN Append(log, e) : Append(log, e)[i].kind = "step" /\ Append(log, e)[i].op = op}
                       = {i \in DOMAIN log : log[i].kind = "step" /\ log[i].op = op}
  BY <1>1
<1>3. Counts(Append(log, e)) = Counts(log)
  BY <1>2 DEF Counts
<1>4. \A r \in Resource : /\ Told(Append(log, e), r) <=> Told(log, r)
                          /\ Gone(Append(log, e), r) <=> Gone(log, r)
  BY <1>1 DEF Told, Gone, RegistrationOf, DeletionOf
<1>5. ToldOnce(log) => ToldOnce(Append(log, e))
  BY <1>1 DEF ToldOnce, RegistrationOf
<1>6. GoneOnce(log) => GoneOnce(Append(log, e))
  BY <1>1 DEF GoneOnce, DeletionOf
<1>7. \A old : OpsFit(log, old) => OpsFit(Append(log, e), old)
  BY <1>1 DEF OpsFit, RegistrationOf
<1> QED
  BY <1>3, <1>4, <1>5, <1>6, <1>7

LEMMA StepEvent ==
  ASSUME NEW log \in Seq(Event), NEW s \in Resource, NEW op \in {"create", "update", "same"},
         NEW old, op = "create" <=> old[s] = None, ~Told(log, s), NEW e,
         e = [kind |-> "step", of |-> s, op |-> op]
  PROVE  /\ \A r \in Resource : /\ Told(Append(log, e), r) <=> Told(log, r) \/ r = s
                                /\ Gone(Append(log, e), r) <=> Gone(log, r)
         /\ ToldOnce(log) => ToldOnce(Append(log, e))
         /\ OpsFit(log, old) => OpsFit(Append(log, e), old)
<1>0. e \in Event
  BY DEF Event, Op
<1>1. /\ DOMAIN Append(log, e) = DOMAIN log \cup {Len(log) + 1}
      /\ \A i \in DOMAIN log : Append(log, e)[i] = log[i]
      /\ Append(log, e)[Len(log) + 1] = e
      /\ Len(log) + 1 \notin DOMAIN log
  BY <1>0, InLonger
<1>2. \A r \in Resource : /\ RegistrationOf(e, r) <=> r = s
                          /\ ~DeletionOf(e, r)
  BY DEF RegistrationOf, DeletionOf
<1>3. \A i \in DOMAIN log : ~RegistrationOf(log[i], s)
  BY DEF Told
<1>4. \A r \in Resource : /\ Told(Append(log, e), r) <=> Told(log, r) \/ r = s
                          /\ Gone(Append(log, e), r) <=> Gone(log, r)
  BY <1>1, <1>2 DEF Told, Gone
<1>5. ToldOnce(log) => ToldOnce(Append(log, e))
  BY <1>1, <1>2, <1>3 DEF ToldOnce
<1>6. OpsFit(log, old) => OpsFit(Append(log, e), old)
  BY <1>1, <1>2 DEF OpsFit
<1> QED
  BY <1>4, <1>5, <1>6

LEMMA DeletionEvents ==
  ASSUME NEW log \in Seq(Event), NEW log2, log2 = log \o Deletions
  PROVE  /\ \A r \in Resource : /\ Told(log2, r) <=> Told(log, r)
                                /\ Gone(log2, r) <=> Gone(log, r) \/ r \in Stale
         /\ ToldOnce(log) => ToldOnce(log2)
         /\ (\A r \in Resource : ~Gone(log, r)) => GoneOnce(log2)
         /\ \A old : OpsFit(log, old) => OpsFit(log2, old)
         /\ log # <<>> => log2[1] = log[1] /\ log2 # <<>>
<1> DEFINE n == Len(log)
           m == Len(Deletions)
<1>1. /\ n \in Nat /\ m \in Nat /\ DOMAIN log = 1..n /\ DOMAIN log2 = 1..(n + m)
      /\ \A i \in 1..n : log2[i] = log[i]
      /\ \A i \in 1..m : log2[n + i] = Deletions[i]
      /\ Range(Deletions) = {Deletion(r) : r \in Stale}
      /\ DOMAIN Deletions = 1..m
      /\ \A i, j \in 1..m : Deletions[i] = Deletions[j] => i = j
      /\ log # <<>> => n # 0
  BY DeletionsAre, ConcatProperties, EmptySeq
<1> HIDE DEF n, m
<1>2. \A i \in DOMAIN log2 : i \in 1..n \/ \E k \in 1..m : i = n + k
  <2> SUFFICES ASSUME NEW i \in 1..(n + m), i \notin 1..n
               PROVE  \E k \in 1..m : i = n + k
    BY <1>1
  <2>1. i - n \in 1..m /\ i = n + (i - n)
    BY <1>1
  <2> QED
    BY <2>1
<1>3. \A i \in 1..n : i \in DOMAIN log2 /\ i \in DOMAIN log
  BY <1>1
<1>4. \A k \in 1..m : n + k \in DOMAIN log2 /\ \E r \in Stale : log2[n + k] = Deletion(r)
  <2> SUFFICES ASSUME NEW k \in 1..m
               PROVE  n + k \in DOMAIN log2 /\ \E r \in Stale : log2[n + k] = Deletion(r)
    OBVIOUS
  <2>1. n + k \in 1..(n + m)
    BY <1>1
  <2>2. Deletions[k] \in Range(Deletions)
    BY <1>1 DEF Range
  <2>3. \E r \in Stale : Deletions[k] = Deletion(r)
    BY <1>1, <2>2
  <2> QED
    BY <1>1, <2>1, <2>3
<1>5. \A r \in Stale : \E k \in 1..m : log2[n + k] = Deletion(r)
  <2> SUFFICES ASSUME NEW r \in Stale
               PROVE  \E k \in 1..m : log2[n + k] = Deletion(r)
    OBVIOUS
  <2>1. Deletion(r) \in Range(Deletions)
    BY <1>1
  <2>2. \E k \in 1..m : Deletions[k] = Deletion(r)
    BY <1>1, <2>1 DEF Range
  <2> QED
    BY <1>1, <2>2
<1>6. /\ Stale \subseteq Resource
      /\ \A r \in Stale, q \in Resource : /\ ~RegistrationOf(Deletion(r), q)
                                          /\ DeletionOf(Deletion(r), q) <=> q = r
  BY DEF Stale, Deletion, RegistrationOf, DeletionOf
<1>7. \A i \in DOMAIN log2, r \in Resource : RegistrationOf(log2[i], r) => i \in DOMAIN log /\ log2[i] = log[i]
  <2> SUFFICES ASSUME NEW i \in DOMAIN log2, NEW r \in Resource, RegistrationOf(log2[i], r)
               PROVE  i \in DOMAIN log /\ log2[i] = log[i]
    OBVIOUS
  <2>1. i \in 1..n
    BY <1>2, <1>4, <1>6
  <2> QED
    BY <1>1, <2>1
<1>8. \A r \in Resource : Told(log2, r) <=> Told(log, r)
  BY <1>1, <1>3, <1>7 DEF Told
<1>9. \A r \in Resource : Gone(log2, r) <=> Gone(log, r) \/ r \in Stale
  <2>1. ASSUME NEW r \in Resource, Gone(log2, r)
        PROVE  Gone(log, r) \/ r \in Stale
    <3>1. PICK i \in DOMAIN log2 : DeletionOf(log2[i], r)
      BY <2>1 DEF Gone
    <3>2. CASE i \in 1..n
      BY <1>1, <1>3, <3>1, <3>2 DEF Gone
    <3>3. CASE i \notin 1..n
      <4>1. PICK k \in 1..m : i = n + k
        BY <1>2, <3>3
      <4>2. PICK q \in Stale : log2[i] = Deletion(q)
        BY <1>4, <4>1
      <4> QED
        BY <1>6, <3>1, <4>2
    <3> QED
      BY <3>2, <3>3
  <2>2. ASSUME NEW r \in Resource, Gone(log, r)
        PROVE  Gone(log2, r)
    BY <1>1, <1>3, <2>2 DEF Gone
  <2>3. ASSUME NEW r \in Stale
        PROVE  Gone(log2, r)
    <3>1. PICK k \in 1..m : log2[n + k] = Deletion(r)
      BY <1>5
    <3> QED
      BY <1>4, <1>6, <3>1 DEF Gone
  <2> QED
    BY <2>1, <2>2, <2>3
<1>10. ToldOnce(log) => ToldOnce(log2)
  BY <1>7 DEF ToldOnce
<1>11. \A old : OpsFit(log, old) => OpsFit(log2, old)
  BY <1>7 DEF OpsFit
<1>12. ASSUME \A r \in Resource : ~Gone(log, r)
       PROVE  GoneOnce(log2)
  <2> SUFFICES ASSUME NEW r \in Resource, NEW i \in DOMAIN log2, NEW j \in DOMAIN log2,
                      DeletionOf(log2[i], r), DeletionOf(log2[j], r)
               PROVE  i = j
    BY DEF GoneOnce
  <2>1. i \notin 1..n /\ j \notin 1..n
    BY <1>1, <1>12 DEF Gone
  <2>2. PICK a \in 1..m, b \in 1..m : i = n + a /\ j = n + b
    BY <1>2, <2>1
  <2>3. log2[i] = Deletion(r) /\ log2[j] = Deletion(r)
    BY <1>4, <1>6, <2>2
  <2>4. a = b
    BY <1>1, <2>2, <2>3
  <2> QED
    BY <2>2, <2>4
<1>13. log # <<>> => log2[1] = log[1] /\ log2 # <<>>
  <2>1. log # <<>> => 1 \in 1..n
    BY <1>1
  <2>2. log # <<>> => 1 \in DOMAIN log2
    BY <1>3, <2>1
  <2> QED
    BY <1>1, <2>1, <2>2
<1> QED
  BY <1>8, <1>9, <1>10, <1>11, <1>12, <1>13

THEOREM InitEventsInv == Init => EventsInv
  BY DEF Init, EventsInv

LEMMA NoEntryIsNone == None \notin Entry /\ Untransformed # None
<1>1. Untransformed \in Entry
  BY ShortSeqs DEF Untransformed, Entry
<1> QED
  BY <1>1, ProgramAssumption

(* A run has begun, or is over without a trace, or is a unit test.         *)
LEMMA FreshEvents ==
  ASSUME FreshProcess, \/ events' = <<>> /\ phase' = "idle"
                       \/ events' = <<[kind |-> "prelude"]>> /\ phase' = "running"
                       \/ ~Native'
  PROVE  EventsInv'
<1>1. CASE events' = <<>> /\ phase' = "idle"
  BY <1>1 DEF EventsInv
<1>2. CASE events' = <<[kind |-> "prelude"]>> /\ phase' = "running"
  <2>1. /\ DOMAIN events' = {1} /\ events'[1] = [kind |-> "prelude"] /\ events' # <<>>
        /\ \A r : ~RegistrationOf(events'[1], r) /\ ~DeletionOf(events'[1], r)
    BY <1>2 DEF RegistrationOf, DeletionOf
  <2>2. /\ \A r \in Resource : ~Told(events', r) /\ ~Gone(events', r)
        /\ ToldOnce(events') /\ OpsFit(events', prior')
    BY <2>1 DEF Told, Gone, ToldOnce, OpsFit
  <2>3. \A r \in Resource : table'[r] = None /\ ~Between(r)'
    BY DEF FreshProcess, Between, Unused
  <2> QED
    BY <1>2, <2>1, <2>2, <2>3 DEF EventsInv, RegistrationsTold, DeletionsTold, CountsTold
<1>3. CASE ~Native'
  BY <1>3 DEF EventsInv
<1> QED
  BY <1>1, <1>2, <1>3

(* A step that tells nothing and enters nothing: a handler may become late *)
(* and be dropped, the engine may go on.                                   *)
LEMMA QuietEvents ==
  ASSUME TypeInv, EventsInv, UNCHANGED <<mode, events, prior, table>>,
         late \subseteq late', phase # "idle",
         \A r \in Resource : /\ Before(r)' => Before(r)
                             /\ Between(r)' => Between(r)
                             /\ Between(r) => Between(r)' \/ r \in late',
         phase \in {"running", "deleting"} <=> phase' \in {"running", "deleting"},
         phase' = "running" \/ InFlight' \subseteq late' \/ (phase # "running" /\ InFlight' \subseteq InFlight),
         phase' # "idle",
         phase' = "summing" => changes' = Counts(events) \/ (phase = "summing" /\ changes' = changes)
  PROVE  EventsInv'
<1> SUFFICES ASSUME Native PROVE RegistrationsTold' /\ DeletionsTold' /\ CountsTold'
  BY DEF EventsInv, Native
<1>1. RegistrationsTold /\ DeletionsTold /\ CountsTold /\ Native'
  BY DEF EventsInv, Native
<1>2. RegistrationsTold'
  BY <1>1 DEF RegistrationsTold
<1>3. DeletionsTold'
  BY <1>1 DEF DeletionsTold, TypeInv, TypeOK
<1>4. CountsTold'
  BY <1>1 DEF CountsTold
<1> QED
  BY <1>2, <1>3, <1>4

LEMMA RunEvents ==
  ASSUME TypeInv, EventsInv, UNCHANGED kindOf,
         Connect \/ RegisterStack \/ SetRoot \/ Export \/ ExportAnswered \/ Log \/ ExitZero
  PROVE  EventsInv'
<1>1. CASE Connect \/ SetRoot \/ Export \/ ExportAnswered \/ ExitZero
  <2>1. /\ UNCHANGED <<mode, call, events, prior, table, changes>> /\ late' \in {late, late \cup InFlight}
        /\ phase = "running" /\ phase' \in {"running", "deleting"}
        /\ pc' \in {"start", "stack"} => pc \in {"start", "stack"}
        /\ phase' = "running" \/ late' = late \cup InFlight
    BY <1>1 DEF Connect, SetRoot, Export, ExportAnswered, ExitZero, Proceed, memory, history
  <2>2. InFlight' = InFlight
    BY <2>1 DEF InFlight
  <2>3. \A r \in Resource : (Before(r)' => Before(r)) /\ (Between(r)' <=> Between(r))
    BY <2>1 DEF Before, Between, Registers
  <2> QED
    BY <2>1, <2>2, <2>3, QuietEvents
<1>2. CASE RegisterStack /\ Native
  <2> DEFINE op == IF prior[Stack] = None THEN "create" ELSE "same"
             e == [kind |-> "step", of |-> Stack, op |-> op]
  <2>1. /\ UNCHANGED <<mode, phase, call, prior, late, changes>> /\ events' = Append(events, e)
        /\ phase = "running" /\ pc = "stack" /\ pc' = "root"
        /\ table' = [table EXCEPT ![Stack] = Untransformed]
    BY <1>2 DEF RegisterStack, Proceed, history
  <2>2. /\ RegistrationsTold /\ DeletionsTold /\ CountsTold /\ events \in Seq(Event) /\ events # <<>>
        /\ Stack \in Resource /\ Stack \notin Statement /\ table \in [Resource -> Entry \cup {None}]
    BY <1>2, <2>1, ProgramAssumption DEF EventsInv, TypeInv, TypeOK, Resource, Table
  <2>3. ~Told(events, Stack)
    BY <2>1, <2>2 DEF RegistrationsTold, Before
  <2>4. op \in {"create", "update", "same"} /\ (op = "create" <=> prior[Stack] = None)
    OBVIOUS
  <2> HIDE DEF op
  <2>5. /\ \A r \in Resource : /\ Told(events', r) <=> Told(events, r) \/ r = Stack
                               /\ Gone(events', r) <=> Gone(events, r)
        /\ ToldOnce(events') /\ OpsFit(events', prior)
    BY <2>1, <2>2, <2>3, <2>4, StepEvent DEF RegistrationsTold
  <2>6. events' # <<>> /\ events'[1] = [kind |-> "prelude"]
    <3>1. e \in Event
      BY <2>2, <2>4 DEF Event, Op
    <3>2. 1 \in 1..Len(events)
      BY <2>2, EmptySeq
    <3> QED
      BY <2>1, <2>2, <3>1, <3>2, AppendProperties DEF RegistrationsTold
  <2>7. \A r \in Resource : /\ Before(r)' => Before(r) /\ r # Stack
                            /\ Between(r)' <=> Between(r)
                            /\ table'[r] # None <=> table[r] # None \/ r = Stack
    BY <2>1, <2>2, NoEntryIsNone DEF Before, Between, Registers
  <2>8. RegistrationsTold'
    BY <2>1, <2>2, <2>5, <2>6, <2>7 DEF RegistrationsTold
  <2> QED
    BY <2>1, <2>2, <2>5, <2>6, <2>8 DEF EventsInv, DeletionsTold, CountsTold
<1>3. CASE Log
  <2> DEFINE e == [kind |-> "diagnostic"]
  <2>1. /\ UNCHANGED <<mode, phase, pc, call, prior, table, late, changes>> /\ events' = Append(events, e)
        /\ phase = "running" /\ Native
    BY <1>3 DEF Log, program, memory, history
  <2>2. /\ RegistrationsTold /\ DeletionsTold /\ CountsTold /\ events \in Seq(Event) /\ events # <<>>
        /\ e \in Event
    BY <2>1 DEF EventsInv, TypeInv, TypeOK, Event
  <2>3. /\ \A r \in Resource : /\ Told(events', r) <=> Told(events, r)
                               /\ Gone(events', r) <=> Gone(events, r)
        /\ ToldOnce(events') /\ OpsFit(events', prior)
    BY <2>1, <2>2, OtherEvent DEF RegistrationsTold
  <2>4. events' # <<>> /\ events'[1] = [kind |-> "prelude"]
    <3>1. 1 \in 1..Len(events)
      BY <2>2, EmptySeq
    <3> QED
      BY <2>1, <2>2, <3>1, AppendProperties DEF RegistrationsTold
  <2>5. \A r \in Resource : (Before(r)' <=> Before(r)) /\ (Between(r)' <=> Between(r))
    BY <2>1 DEF Before, Between, Registers
  <2>6. RegistrationsTold'
    BY <2>1, <2>2, <2>3, <2>4, <2>5 DEF RegistrationsTold
  <2> QED
    BY <2>1, <2>2, <2>3, <2>4, <2>6 DEF EventsInv, DeletionsTold, CountsTold
<1>4. CASE RegisterStack /\ ~Native
  BY <1>4 DEF RegisterStack, EventsInv, Native
<1> QED
  BY <1>1, <1>2, <1>3, <1>4

LEMMA EndEvents ==
  ASSUME TypeInv, EventsInv, UNCHANGED kindOf, DeleteStale \/ Save \/ CountChanges \/ Summarise
  PROVE  EventsInv'
<1>0. UNCHANGED <<mode, pc, call, prior, table, late>> /\ InFlight' = InFlight
  BY DEF DeleteStale, Save, CountChanges, Summarise, program, memory, history, InFlight
<1>1. \A r \in Resource : (Before(r)' <=> Before(r)) /\ (Between(r)' <=> Between(r))
  BY <1>0 DEF Before, Between, Registers
<1>2. CASE ~Native
  BY <1>0, <1>2 DEF EventsInv, Native
<1>3. CASE Native /\ DeleteStale
  <2>1. /\ events' = events \o Deletions /\ phase = "deleting" /\ phase' = "saving"
    BY <1>3 DEF DeleteStale, Deletions, Deletion, Stale
  <2>2. /\ RegistrationsTold /\ DeletionsTold /\ CountsTold /\ events \in Seq(Event) /\ events # <<>>
    BY <1>3, <2>1 DEF EventsInv, TypeInv, TypeOK
  <2>3. /\ \A r \in Resource : /\ Told(events', r) <=> Told(events, r)
                               /\ Gone(events', r) <=> r \in Stale
        /\ ToldOnce(events') /\ GoneOnce(events') /\ OpsFit(events', prior)
        /\ events' # <<>> /\ events'[1] = events[1]
    BY <2>1, <2>2, DeletionEvents DEF RegistrationsTold, DeletionsTold
  <2>4. RegistrationsTold'
    BY <1>0, <1>1, <2>2, <2>3 DEF RegistrationsTold
  <2>5. DeletionsTold'
    BY <1>0, <2>1, <2>3 DEF DeletionsTold, Stale
  <2> QED
    BY <1>0, <2>1, <2>2, <2>3, <2>4, <2>5 DEF EventsInv, CountsTold
<1>4. CASE Native /\ (Save \/ CountChanges)
  <2>1. /\ UNCHANGED events /\ phase \in {"saving", "counting"} /\ phase' \in {"counting", "summing"}
        /\ phase' = "summing" => changes' = Counts(events)
    BY <1>4 DEF Save, CountChanges
  <2> QED
    BY <1>0, <1>1, <2>1, QuietEvents
<1>5. CASE Native /\ Summarise
  <2> DEFINE e == [kind |-> "summary", changes |-> changes]
  <2>1. events' = Append(events, e) /\ phase = "summing" /\ phase' = "idle"
    BY <1>5 DEF Summarise
  <2>2. /\ RegistrationsTold /\ DeletionsTold /\ CountsTold /\ events \in Seq(Event) /\ events # <<>>
        /\ e \in Event /\ e.kind # "step"
    BY <1>5, <2>1 DEF EventsInv, TypeInv, TypeOK, Event
  <2>3. /\ \A r \in Resource : /\ Told(events', r) <=> Told(events, r)
                               /\ Gone(events', r) <=> Gone(events, r)
        /\ ToldOnce(events') /\ OpsFit(events', prior)
        /\ GoneOnce(events) => GoneOnce(events')
        /\ Counts(events') = Counts(events)
    BY <2>1, <2>2, OtherEvent DEF RegistrationsTold
  <2>4. events' # <<>> /\ events'[1] = [kind |-> "prelude"] /\ Last(events') = e
    <3>1. 1 \in 1..Len(events)
      BY <2>2, EmptySeq
    <3> QED
      BY <2>1, <2>2, <3>1, AppendProperties DEF RegistrationsTold, Last
  <2>5. RegistrationsTold'
    BY <1>0, <1>1, <2>2, <2>3, <2>4 DEF RegistrationsTold
  <2>6. DeletionsTold'
    BY <1>0, <2>1, <2>2, <2>3 DEF DeletionsTold
  <2>7. CountsTold'
    BY <1>0, <2>1, <2>2, <2>3, <2>4 DEF CountsTold
  <2> QED
    BY <2>4, <2>5, <2>6, <2>7 DEF EventsInv
<1> QED
  BY <1>2, <1>3, <1>4, <1>5

LEMMA CallEvents ==
  ASSUME TypeInv, EventsInv, UNCHANGED kindOf, NEW s \in Statement, CallStep(s)
  PROVE  EventsInv'
<1> DEFINE c == call[s]
           d == call'[s]
<1>0. /\ UNCHANGED <<mode, phase, pc, prior, changes>> /\ phase # "idle"
      /\ \A r \in Statement \ {s} : call'[r] = call[r]
      /\ call \in [Statement -> CallState] /\ c \in CallState /\ s \in Resource /\ s # Stack
  <2>1. UNCHANGED <<mode, phase, pc, prior, changes>> /\ phase # "idle"
    BY DEF CallStep, Send, Receive, Callback, Serve, HandlerFails, Register, Answer, MockAnswer,
           RegisterOutputs, program, memory
  <2>2. \A r \in Statement \ {s} : call'[r] = call[r]
    BY DEF CallStep, Send, Receive, Callback, Serve, HandlerFails, Register, Answer, MockAnswer,
           RegisterOutputs, EndCall, program, TypeInv, TypeOK
  <2> QED
    BY <2>1, <2>2, ProgramAssumption DEF TypeInv, TypeOK, Resource
<1>1. \A r \in Resource \ {s} : (Before(r)' <=> Before(r)) /\ (Between(r)' <=> Between(r))
  BY <1>0 DEF Before, Between, Registers, Resource
<1>2. /\ Before(s) <=> c.at \in {"idle", "sent", "applying"}
      /\ Between(s) <=> Registers(s) /\ c.at = "served"
      /\ Before(s)' <=> d.at \in {"idle", "sent", "applying"}
      /\ Between(s)' <=> Registers(s) /\ d.at = "served"
  BY <1>0 DEF Before, Between, Registers
<1>3. CASE ~Native
  BY <1>0, <1>3 DEF EventsInv, Native
<1>4. CASE Native /\ (Send(s) \/ Receive(s) \/ Callback(s) \/ HandlerFails(s) \/ Answer(s)
                        \/ RegisterOutputs(s) \/ (Serve(s) /\ ~Registers(s)))
  <2>1. UNCHANGED <<events, table>>
    BY <1>4 DEF Send, Receive, Callback, HandlerFails, Answer, RegisterOutputs, Serve, memory
  <2>2. /\ d.at \in {"idle", "sent", "applying"} => c.at \in {"idle", "sent", "applying"}
        /\ d.at = "served" => c.at = "served" \/ ~Registers(s)
        /\ c.at = "served" /\ Registers(s) => d.at = "served" \/ s \in late'
        /\ late \subseteq late'
        /\ phase = "running" \/ d.at \in {"applying", "served", "failed"} \/ d = c
        /\ phase = "running" \/ c.at \in {"sent", "applying", "served", "registered"} \/ d = c
    <3>1. CASE Send(s) \/ Receive(s) \/ Callback(s)
      BY <1>0, <3>1 DEF Send, Receive, Callback, CallState, history
    <3>2. CASE HandlerFails(s)
      BY <1>0, <3>2 DEF HandlerFails, InFlight, EndCall, Unused
    <3>3. CASE Answer(s)
      BY <1>0, <3>3 DEF Answer, EndCall, Unused, history
    <3>4. CASE RegisterOutputs(s)
      BY <3>4 DEF RegisterOutputs, program, history
    <3>5. CASE Serve(s) /\ ~Registers(s)
      BY <1>0, <3>5 DEF Serve, CallState, history
    <3> QED
      BY <1>4, <3>1, <3>2, <3>3, <3>4, <3>5
  <2>3. phase = "running" \/ InFlight' \subseteq InFlight
    BY <1>0, <2>2 DEF InFlight
  <2>4. \A r \in Resource : /\ Before(r)' => Before(r)
                            /\ Between(r)' => Between(r)
                            /\ Between(r) => Between(r)' \/ r \in late'
    BY <1>1, <1>2, <2>2
  <2> QED
    BY <1>0, <2>1, <2>2, <2>3, <2>4, QuietEvents
<1>5. CASE Native /\ Serve(s) /\ Registers(s)
  <2> DEFINE op == Action(s)
             e == [kind |-> "step", of |-> s, op |-> op]
  <2>1. /\ UNCHANGED <<table, late>> /\ events' = Append(events, e)
        /\ c.at = "applying" /\ d.at = "served"
    BY <1>0, <1>5 DEF Serve, CallState, memory, history
  <2>2. /\ RegistrationsTold /\ DeletionsTold /\ CountsTold /\ events \in Seq(Event) /\ events # <<>>
    BY <1>0, <1>5 DEF EventsInv, TypeInv, TypeOK
  <2>3. ~Told(events, s)
    BY <1>0, <1>2, <2>1, <2>2 DEF RegistrationsTold
  <2>4. op \in {"create", "update", "same"} /\ (op = "create" <=> prior[s] = None)
    BY DEF Action
  <2> HIDE DEF op
  <2>5. /\ \A r \in Resource : /\ Told(events', r) <=> Told(events, r) \/ r = s
                               /\ Gone(events', r) <=> Gone(events, r)
        /\ ToldOnce(events') /\ OpsFit(events', prior)
    BY <1>0, <2>1, <2>2, <2>3, <2>4, StepEvent DEF RegistrationsTold
  <2>6. events' # <<>> /\ events'[1] = [kind |-> "prelude"]
    <3>1. e \in Event
      BY <1>0, <2>4 DEF Event, Op
    <3>2. 1 \in 1..Len(events)
      BY <2>2, EmptySeq
    <3> QED
      BY <2>1, <2>2, <3>1, <3>2, AppendProperties DEF RegistrationsTold
  <2>7. \A r \in Resource : /\ Before(r)' => Before(r) /\ r # s
                            /\ Between(r)' <=> Between(r) \/ r = s
    BY <1>1, <1>2, <1>5, <2>1
  <2>8. RegistrationsTold'
    BY <1>0, <2>1, <2>2, <2>5, <2>6, <2>7 DEF RegistrationsTold
  <2>9. phase # "running" => s \in late /\ InFlight' \subseteq late
    BY <1>0, <2>1, <2>2 DEF CountsTold, InFlight
  <2> QED
    BY <1>0, <2>1, <2>2, <2>5, <2>6, <2>8, <2>9 DEF EventsInv, DeletionsTold, CountsTold
<1>6. CASE Native /\ Register(s)
  <2>1. /\ UNCHANGED <<events, late>> /\ Registers(s) /\ c.at = "served" /\ d.at = "registered"
        /\ table'[s] # None /\ \A r \in Resource \ {s} : table'[r] = table[r]
    <3>1. UNCHANGED <<events, late>> /\ Registers(s) /\ c.at = "served" /\ d.at = "registered"
      BY <1>0, <1>6 DEF Register, CallState, history
    <3>2. table'[s] # None /\ \A r \in Resource \ {s} : table'[r] = table[r]
      <4>1. [transforms |-> c.done, secrets |-> c.options.secrets] \in Entry
        BY <1>0 DEF CallState, Entry
      <4> QED
        BY <1>0, <1>6, <4>1, NoEntryIsNone DEF Register, TypeInv, TypeOK, Table
    <3> QED
      BY <3>1, <3>2
  <2>2. RegistrationsTold /\ DeletionsTold /\ CountsTold /\ events # <<>>
    BY <1>0, <1>6 DEF EventsInv
  <2>3. \A r \in Resource : /\ Before(r)' => Before(r)
                            /\ Between(r)' <=> Between(r) /\ r # s
    BY <1>1, <1>2, <2>1
  <2>4. RegistrationsTold'
    BY <1>0, <1>2, <2>1, <2>2, <2>3 DEF RegistrationsTold
  <2>5. phase # "running" => s \in late /\ InFlight' \subseteq late
    BY <1>0, <2>1, <2>2 DEF CountsTold, InFlight
  <2> QED
    BY <1>0, <2>1, <2>2, <2>4, <2>5 DEF EventsInv, DeletionsTold, CountsTold
<1>7. CASE Native /\ MockAnswer(s)
  BY <1>7 DEF MockAnswer
<1> QED
  BY <1>3, <1>4, <1>5, <1>6, <1>7 DEF CallStep

LEMMA TransformEvents ==
  ASSUME TypeInv, EventsInv, UNCHANGED kindOf, NEW t \in Transform, TransformStep(t)
  PROVE  EventsInv'
<1>1. /\ UNCHANGED <<mode, phase, pc, call, events, prior, table, changes, late>>
      /\ phase = "running"
  BY DEF TransformStep, InsertToken, ListTransform, TransformAnswered, Tell, memory, history
<1>2. \A r \in Resource : (Before(r)' <=> Before(r)) /\ (Between(r)' <=> Between(r))
  BY <1>1 DEF Before, Between, Registers
<1> QED
  BY <1>1, <1>2, QuietEvents

LEMMA NothingEvents == EventsInv /\ UNCHANGED vars => EventsInv'
<1> SUFFICES ASSUME EventsInv, UNCHANGED vars PROVE EventsInv'
  OBVIOUS
<1>1. UNCHANGED <<mode, phase, pc, call, events, prior, table, changes, late, kindOf>>
  BY DEF vars, program, memory, history
<1>2. UNCHANGED <<Native, InFlight>> /\ \A r : (Before(r)' <=> Before(r)) /\ (Between(r)' <=> Between(r))
  BY <1>1 DEF Native, InFlight, Before, Between, Registers
<1> QED
  BY <1>1, <1>2 DEF EventsInv, RegistrationsTold, DeletionsTold, CountsTold

THEOREM NextEventsInv == TypeInv /\ EventsInv /\ [Next]_vars => EventsInv'
<1> SUFFICES ASSUME TypeInv, EventsInv, [Next]_vars PROVE EventsInv'
  OBVIOUS
<1>1. ASSUME NEW m \in {"up", "preview"}, Begin(m) PROVE EventsInv'
  BY <1>1, FreshEvents DEF Begin
<1>2. ASSUME NEW m \in {"test", "testPreview"}, BeginTest(m) PROVE EventsInv'
  <2>1. ~Native'
    BY <1>2 DEF BeginTest, Native
  <2> QED
    BY <1>2, <2>1, FreshEvents DEF BeginTest
<1>3. CASE ExitNonZero \/ TestEnds \/ SaveFails
  BY <1>3, FreshEvents DEF ExitNonZero, TestEnds, SaveFails, NothingLeft
<1>4. CASE UNCHANGED kindOf /\ (Connect \/ RegisterStack \/ SetRoot \/ Export \/ ExportAnswered
                           \/ Log \/ ExitZero)
  BY <1>4, RunEvents
<1>5. CASE UNCHANGED kindOf /\ (DeleteStale \/ Save \/ CountChanges \/ Summarise)
  BY <1>5, EndEvents
<1>6. ASSUME UNCHANGED kindOf, NEW s \in Statement, CallStep(s) PROVE EventsInv'
  BY <1>6, CallEvents
<1>7. ASSUME UNCHANGED kindOf, NEW t \in Transform, TransformStep(t) PROVE EventsInv'
  BY <1>7, TransformEvents
<1>8. CASE UNCHANGED vars
  BY <1>8, NothingEvents
<1> QED
  BY <1>1, <1>2, <1>3, <1>4, <1>5, <1>6, <1>7, <1>8 DEF Next, RunStep

(* A resource that is in the state or whose handler stands before it has   *)
(* its event, one that is told of twice is not; deletions are those of the *)
(* entries that are left over; the summary's counts are the log's.         *)
THEOREM SpecEventsInv == Spec => []EventsInv
  BY InitEventsInv, NextEventsInv, SpecTypeInv, PTL DEF Spec

LEMMA StepsAre ==
  ASSUME TypeInv, NEW ops
  PROVE  /\ \A r : r \in StepsOf(ops) <=> \E i \in DOMAIN events :
                     events[i].kind = "step" /\ events[i].op \in ops /\ events[i].of = r
         /\ \A i \in DOMAIN events : events[i].kind = "step" =>
              events[i].of \in Resource /\ events[i].op \in Op
<1>1. \A i \in DOMAIN events : events[i] \in Event
  BY DEF TypeInv, TypeOK
<1> QED
  BY <1>1 DEF StepsOf, Range, Event

LEMMA EventsFirstHolds == TypeInv /\ EventsInv => EventsFirst
<1> SUFFICES ASSUME TypeInv, EventsInv, Native, phase # "idle",
                    NEW r \in Resource, table[r] # None
             PROVE  r \in StepsOf({"create", "update", "same"})
  BY DEF EventsFirst
<1>1. PICK i \in DOMAIN events : RegistrationOf(events[i], r)
  BY DEF EventsInv, RegistrationsTold, Told
<1> QED
  BY <1>1, StepsAre DEF RegistrationOf, Op

(* A run that is over and had no late handler.                             *)
LEMMA OverHolds ==
  ASSUME TypeInv, EventsInv, phase = "idle", Native, events # <<>>, late = {}
  PROVE  /\ events \in Seq(Event) /\ events[1] = [kind |-> "prelude"]
         /\ ToldOnce(events) /\ GoneOnce(events) /\ OpsFit(events, prior)
         /\ \A r \in Resource : /\ Told(events, r) <=> table[r] # None
                                /\ Gone(events, r) <=> prior[r] # None /\ table[r] = None
         /\ Last(events) = [kind |-> "summary", changes |-> Counts(events)]
<1>1. RegistrationsTold /\ DeletionsTold /\ CountsTold /\ events \in Seq(Event)
  BY DEF EventsInv, TypeInv, TypeOK
<1>2. \A r \in Resource : ~Between(r)
  BY <1>1 DEF CountsTold, InFlight, Between
<1> QED
  BY <1>1, <1>2 DEF RegistrationsTold, DeletionsTold, CountsTold

LEMMA EventsMatchHolds ==
  ASSUME TypeInv, EventsInv, phase = "idle", Native, events # <<>>, late = {}
  PROVE  EventsMatch
<1>1. ASSUME NEW i \in DOMAIN events, NEW j \in DOMAIN events,
             events[i].kind = "step", events[i] = events[j]
      PROVE  i = j
  <2>1. events[i].of \in Resource
    BY <1>1, StepsAre
  <2>2. CASE events[i].op = "delete"
    BY <1>1, <2>1, <2>2, OverHolds DEF GoneOnce, DeletionOf
  <2>3. CASE events[i].op # "delete"
    BY <1>1, <2>1, <2>3, OverHolds DEF ToldOnce, RegistrationOf
  <2> QED
    BY <2>2, <2>3
<1>2. \A r : r \in StepsOf({"create"}) <=> r \in Resource /\ prior[r] = None /\ table[r] # None
  <2>1. \A r : r \in StepsOf({"create"}) => r \in Resource /\ prior[r] = None /\ table[r] # None
    BY StepsAre, OverHolds DEF Told, OpsFit, RegistrationOf
  <2>2. ASSUME NEW r \in Resource, prior[r] = None, table[r] # None PROVE r \in StepsOf({"create"})
    <3>1. PICK i \in DOMAIN events : RegistrationOf(events[i], r)
      BY <2>2, OverHolds DEF Told
    <3> QED
      BY <2>2, <3>1, StepsAre, OverHolds DEF OpsFit, RegistrationOf
  <2> QED
    BY <2>1, <2>2
<1>3. \A r : r \in StepsOf({"update", "same"}) <=> r \in Resource /\ prior[r] # None /\ table[r] # None
  <2>1. \A r : r \in StepsOf({"update", "same"}) => r \in Resource /\ prior[r] # None /\ table[r] # None
    BY StepsAre, OverHolds DEF Told, OpsFit, RegistrationOf
  <2>2. ASSUME NEW r \in Resource, prior[r] # None, table[r] # None
        PROVE  r \in StepsOf({"update", "same"})
    <3>1. PICK i \in DOMAIN events : RegistrationOf(events[i], r)
      BY <2>2, OverHolds DEF Told
    <3>2. events[i].op # "create" /\ events[i].op # "delete" /\ events[i].op \in Op
      BY <2>2, <3>1, StepsAre, OverHolds DEF OpsFit, RegistrationOf
    <3> QED
      BY <3>1, <3>2, StepsAre DEF RegistrationOf, Op
  <2> QED
    BY <2>1, <2>2
<1>4. \A r : r \in StepsOf({"delete"}) <=> r \in Resource /\ prior[r] # None /\ table[r] = None
  BY StepsAre, OverHolds DEF Gone, DeletionOf
<1> QED
  BY <1>1, <1>2, <1>3, <1>4 DEF EventsMatch

(* Each resource with a change is told of once among the changes: one that *)
(* was registered is in the table, one that was deleted is not.            *)
LEMMA EventsCountedHolds ==
  ASSUME TypeInv, EventsInv, phase = "idle", Native, events # <<>>, late = {}
  PROVE  EventsCounted
<1> DEFINE P == PendingChanges(events)
           S == StepsOf({"create", "update", "delete"})
           f == [e \in P |-> e.event.of]
<1>1. ASSUME NEW e \in P
      PROVE  \E i \in DOMAIN events :
               /\ e = [sequence |-> i, event |-> events[i]]
               /\ events[i].kind = "step" /\ events[i].op \in {"create", "update", "delete"}
               /\ events[i].of \in Resource
  <2>1. PICK i \in DOMAIN events : e = [sequence |-> i, event |-> events[i]]
    BY DEF PendingChanges, Converted, Range
  <2>2. events[i].kind = "step" /\ events[i].op # "same"
    BY <2>1 DEF PendingChanges
  <2> QED
    BY <2>1, <2>2, StepsAre DEF Op
<1>2. ASSUME NEW i \in DOMAIN events, events[i].kind = "step", events[i].op # "same"
      PROVE  [sequence |-> i, event |-> events[i]] \in P
  BY <1>2 DEF PendingChanges, Converted, Range
<1>3. f \in [P -> S]
  BY <1>1, StepsAre
<1>4. ASSUME NEW d \in P, NEW e \in P, d.event.of = e.event.of PROVE d = e
  <2>1. PICK i \in DOMAIN events :
          /\ d = [sequence |-> i, event |-> events[i]]
          /\ events[i].kind = "step" /\ events[i].op \in {"create", "update", "delete"}
          /\ events[i].of \in Resource
    BY <1>1
  <2>2. PICK j \in DOMAIN events :
          /\ e = [sequence |-> j, event |-> events[j]]
          /\ events[j].kind = "step" /\ events[j].op \in {"create", "update", "delete"}
          /\ events[j].of \in Resource
    BY <1>1
  <2>3. events[i].of = events[j].of
    BY <1>4, <2>1, <2>2
  <2>4. events[i].op = "delete" <=> events[j].op = "delete"
    BY <2>1, <2>2, <2>3, OverHolds DEF Told, Gone, RegistrationOf, DeletionOf
  <2>5. i = j
    BY <2>1, <2>2, <2>3, <2>4, OverHolds DEF ToldOnce, GoneOnce, RegistrationOf, DeletionOf
  <2> QED
    BY <2>1, <2>2, <2>5
<1>5. \A r \in S : \E e \in P : f[e] = r
  <2> SUFFICES ASSUME NEW r \in S PROVE \E e \in P : f[e] = r
    OBVIOUS
  <2>1. PICK i \in DOMAIN events : /\ events[i].kind = "step" /\ events[i].of = r
                                   /\ events[i].op \in {"create", "update", "delete"}
    BY StepsAre
  <2> DEFINE e == [sequence |-> i, event |-> events[i]]
  <2>2. e \in P
    BY <1>2, <2>1
  <2>3. f[e] = r
    BY <2>1, <2>2
  <2> QED
    BY <2>2, <2>3
<1>6. f \in Injection(P, S)
  BY <1>3, <1>4 DEF Injection, IsInjective
<1>7. f \in Surjection(P, S)
  BY <1>3, <1>5 DEF Surjection
<1>8. IsFiniteSet(S)
  <2>1. S \subseteq Resource
    BY StepsAre
  <2> QED
    BY <2>1, ResourcesFinite
<1> HIDE DEF f
<1>9. Cardinality(P) = Cardinality(S)
  BY <1>6, <1>7, <1>8, FS_Injection
<1>10. Head(events) = [kind |-> "prelude"]
  BY OverHolds, HeadTailProperties
<1> QED
  BY <1>9, <1>10, OverHolds DEF EventsCounted

(* What run_program returns tells what it did to the state: no resource is *)
(* in the state without an event before it, and when no handler was in     *)
(* flight as the program exited, creations, other registrations and        *)
(* deletions are the difference between the prior and the new table, one   *)
(* event each, and the summary counts them all.                            *)
THEOREM SpecEventsTell == Spec => []EventsTell
<1>1. TypeInv /\ EventsInv => EventsTell
  BY EventsFirstHolds, EventsMatchHolds, EventsCountedHolds DEF EventsTell
<1> QED
  BY <1>1, SpecTypeInv, SpecEventsInv, PTL
=============================================================================
