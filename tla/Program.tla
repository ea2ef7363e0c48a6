------------------------------ MODULE Program ------------------------------
(***************************************************************************)
(* The user's program and whoever serves it. pulumi_core::run registers    *)
(* the stack, sets the root URN, lets the program's futures register       *)
(* resources and transforms concurrently, and exports its outputs; the     *)
(* monitor's handlers call back into the program for every transform; the  *)
(* engine keeps root URN, stack outputs and events and saves them. A unit  *)
(* test runs the same program against MockMonitor and MockEngine instead.  *)
(*                                                                         *)
(* Engine.tla models what the engine does to objects and to the resources  *)
(* of the checkpoint under faults. Here an entry is the transforms its     *)
(* inputs went through and its secret properties. Statements have distinct *)
(* URNs, which therefore stand for them.                                   *)
(***************************************************************************)
EXTENDS Naturals, Sequences, SequencesExt, FiniteSets

CONSTANTS
  Statement,  \* the resources, reads and invokes of the program
  Kinds,      \* what the statements may be: functions from Statement to Kind
  ChainOf,    \* [Statement -> Seq(BuilderCall)], the builder calls before await
  Served,     \* statements whose type token names a provider package
  Requires,   \* statements whose Outputs type has a field only a provider fills
  Canned,     \* statements the unit test has a canned response for
  Injected,   \* statements the unit test injects an error for
  Transform,  \* the transforms the program may register
  Stack,      \* the root stack resource
  None,       \* no entry, no root URN
  MaxRuns     \* bound on the runs started

Kind == {"resource", "component", "remote", "reference", "read", "invoke"}
BuilderCall == {"options", "parent", "other"}

(* What the state keeps of a registration.                                 *)
Entry == [transforms : Seq(Transform), secrets : SUBSET Transform]

ASSUME ProgramAssumption ==
  /\ Kinds \subseteq [Statement -> Kind]
  /\ ChainOf \in [Statement -> Seq(BuilderCall)]
  /\ Served \cup Requires \cup Canned \cup Injected \subseteq Statement
  /\ IsFiniteSet(Statement)
  /\ Stack \notin Statement
  /\ None \notin Statement \cup {Stack} \cup Entry
  /\ MaxRuns \in Nat

VARIABLES
  kindOf,     \* the kind of each statement, the same in every run
  phase,      \* "idle", or where the run stands
  mode,       \* what runs the program: "up", "preview", "test", "testPreview"
  pc,         \* where pulumi_core::run stands in the program's process
  call,       \* [Statement -> what has become of its call]
  told,       \* [Transform -> how far its registration has come]
  transforms, \* ResourceMonitorImpl.transforms
  rootUrn,    \* EngineStateInner.root_urn
  outputs,    \* EngineStateInner.stack_outputs: the run that exported them
  recorded,   \* EngineStateInner.resource_order, or MockMonitor's recordings
  table,      \* EngineStateInner.resources
  prior,      \* EngineStateInner.prior_resources
  events,     \* the event collector
  changes,    \* the counts run_program has taken for the summary
  checkpoint, \* the file
  run,        \* the number of this run
  late,       \* history: handlers in flight at exit, or dropped past their event
  finished,   \* history: the program's exports have reached the engine
  exported    \* history: the run that was the last to do so and to be saved

program == <<pc, call, told>>
memory == <<rootUrn, outputs, recorded, table, prior, transforms>>
history == <<run, late, finished, exported>>
vars == <<kindOf, phase, mode, program, memory, events, changes, checkpoint, history>>

Resource == Statement \cup {Stack}
Op == {"create", "update", "same", "delete"}
Foreign == MaxRuns + 1  \* outputs some component registered, not the stack

Registers(s) == kindOf[s] \notin {"read", "invoke"}
Custom(s) == kindOf[s] \in {"resource", "reference"}
Native == mode \in {"up", "preview"}
DryRun == mode \in {"preview", "testPreview"}

InFlight == {s \in Statement :
               call[s].at \in {"sent", "applying", "served", "registered"}}

-----------------------------------------------------------------------------
(* Builders and options. ignoreChanges travels as the secret outputs do and*)
(* is not told from them; "rest" holds the options besides these, parent   *)
(* and version.                                                            *)

NewOptions == [parent |-> {}, secrets |-> {}, rest |-> {}, version |-> {"type's"}]

(* options() replaces everything set before it, the type's version too.    *)
Built(s) ==
  LET chain == ChainOf[s]
      Kept(c) == \E i \in DOMAIN chain :
                   chain[i] = c /\ \A j \in i..Len(chain) : chain[j] # "options"
  IN [parent  |-> IF Kept("parent") THEN {"set"} ELSE {},
      secrets |-> {},
      rest    |-> IF Kept("other") THEN {"set"} ELSE {},
      version |-> IF "options" \in Range(chain) THEN {} ELSE NewOptions.version]

(* Of the options, the engine shows a transform what it may replace.       *)
OptionsSent(opts) == [secrets |-> opts.secrets, rest |-> {}, version |-> {}]

FromProto(proto) == [parent |-> {}, secrets |-> proto.secrets,
                     rest |-> proto.rest, version |-> proto.version]
ToProto(opts) == [secrets |-> opts.secrets, rest |-> opts.rest, version |-> opts.version]

(* A transform may return other inputs and any options.                    *)
Transformed(t, opts) == [opts EXCEPT !.secrets = @ \cup {t}, !.rest = @ \cup {t}]

(* ... and takes the same of its answer.                                   *)
OptionsTaken(opts, answer) == [opts EXCEPT !.secrets = answer.secrets]

OptionsAfter(t, opts) ==
  OptionsTaken(opts, ToProto(Transformed(t, FromProto(OptionsSent(opts)))))

Unused == [at |-> "idle", done |-> <<>>, todo |-> <<>>, due |-> {},
           options |-> NewOptions, filled |-> FALSE]

EndCall(s, at) == call' = [call EXCEPT ![s] = [Unused EXCEPT !.at = at]]

-----------------------------------------------------------------------------
(* A run begins: the engine loads the checkpoint and starts the program,   *)
(* or a unit test builds its context.                                      *)

Untransformed == [transforms |-> <<>>, secrets |-> {}]

(* What a run of a program without transforms leaves behind; outputs 0 are *)
(* those of the runs before the first one modelled, or there are none.     *)
Earlier(statements) ==
  [outputs |-> 0,
   table |-> [r \in Resource |-> IF r \in statements \cup {Stack} THEN Untransformed ELSE None]]

Init ==
  /\ kindOf \in Kinds
  /\ phase = "idle" /\ mode = "up" /\ pc = "off"
  /\ call = [s \in Statement |-> Unused]
  /\ told = [t \in Transform |-> "new"]
  /\ transforms = <<>> /\ recorded = <<>> /\ events = <<>> /\ changes = <<>>
  /\ rootUrn = None /\ outputs = 0
  /\ table = [r \in Resource |-> None] /\ prior = table
  /\ \/ checkpoint = [outputs |-> 0, table |-> table]
     \/ \E earlier \in SUBSET {s \in Statement : Registers(s)} : checkpoint = Earlier(earlier)
  /\ run = 0 /\ late = {} /\ finished = FALSE /\ exported = 0

FreshProcess ==
  /\ call' = [s \in Statement |-> Unused]
  /\ told' = [t \in Transform |-> "new"]
  /\ transforms' = <<>> /\ recorded' = <<>> /\ changes' = <<>>
  /\ table' = [r \in Resource |-> None]
  /\ late' = {} /\ finished' = FALSE

Begin(m) ==
  /\ phase = "idle" /\ run < MaxRuns
  /\ phase' = "running" /\ mode' = m /\ pc' = "start" /\ run' = run + 1
  /\ FreshProcess
  /\ rootUrn' = None
  /\ outputs' = checkpoint.outputs
  /\ prior' = checkpoint.table
  /\ events' = <<[kind |-> "prelude"]>>
  /\ UNCHANGED <<checkpoint, exported>>

(* TestContextBuilder::build: the test calls the program with its context. *)
BeginTest(m) ==
  /\ phase = "idle" /\ run < MaxRuns
  /\ phase' = "running" /\ mode' = m /\ pc' = "body" /\ run' = run + 1
  /\ FreshProcess
  /\ rootUrn' = None /\ outputs' = 0
  /\ prior' = [r \in Resource |-> None]
  /\ events' = <<>>
  /\ UNCHANGED <<checkpoint, exported>>

-----------------------------------------------------------------------------
(* pulumi_core::run in the program's process.                              *)

Proceed(from, to) == phase = "running" /\ pc = from /\ pc' = to

Connect ==
  /\ Proceed("start", "stack")
  /\ UNCHANGED <<phase, mode, call, told, memory, events, changes, checkpoint, history>>

(* The stack is registered before any transform can be, and has no package.*)
RegisterStack ==
  /\ Proceed("stack", "root")
  /\ events' = Append(events, [kind |-> "step", of |-> Stack,
                               op |-> IF prior[Stack] = None THEN "create" ELSE "same"])
  /\ table' = [table EXCEPT ![Stack] = Untransformed]
  /\ recorded' = Append(recorded, Stack)
  /\ UNCHANGED <<phase, mode, call, told, rootUrn, outputs, prior, transforms, changes,
                 checkpoint, history>>

SetRoot ==
  /\ Proceed("root", "body")
  /\ rootUrn' = Stack
  /\ UNCHANGED <<phase, mode, call, told, outputs, recorded, table, prior, transforms,
                 events, changes, checkpoint, history>>

Variant_AnyUrn(urn, value) == value

(* RegisterResourceOutputs counts for the root resource only.              *)
OutputsAfter(urn, value) == IF urn = rootUrn THEN value ELSE outputs

(* The program's future is done, though calls it spawned or dropped may be *)
(* in flight; run registers what it returned as the stack's outputs. The   *)
(* handler stores them ...                                                 *)
Export ==
  /\ Proceed("body", "exporting")
  /\ outputs' = IF Native THEN OutputsAfter(Stack, run) ELSE outputs
  /\ UNCHANGED <<phase, mode, call, told, rootUrn, recorded, table, prior, transforms,
                 events, changes, checkpoint, history>>

(* ... and run returns with its answer, unless the program ends before it. *)
ExportAnswered ==
  /\ Proceed("exporting", "done")
  /\ UNCHANGED <<phase, mode, call, told, memory, events, changes, checkpoint, history>>

(* Engine.Log: an event that is no step. Bounded to one message, before    *)
(* the first of the statements' events.                                    *)
Log ==
  /\ phase = "running" /\ pc = "body" /\ Native
  /\ Len(events) = 2
  /\ events' = Append(events, [kind |-> "diagnostic"])
  /\ UNCHANGED <<phase, mode, program, memory, changes, checkpoint, history>>

-----------------------------------------------------------------------------
(* Registering a transform: first in the callback server of the program's  *)
(* process, under a new token, then with the monitor. One whose answer is  *)
(* lost stays where it is.                                                 *)

Tell(t, from, to) ==
  /\ phase = "running" /\ told[t] = from
  /\ told' = [told EXCEPT ![t] = to]

InsertToken(t) ==
  /\ pc = "body"
  /\ Tell(t, "new", "inserted")
  /\ UNCHANGED <<phase, mode, pc, call, memory, events, changes, checkpoint, history>>

Variant_PushFront(t) == <<t>> \o transforms

PushTransform(t) == Append(transforms, t)

(* MockMonitor accepts a transform and forgets it.                         *)
ListTransform(t) ==
  /\ Tell(t, "inserted", "listed")
  /\ transforms' = IF Native THEN PushTransform(t) ELSE transforms
  /\ UNCHANGED <<phase, mode, pc, call, rootUrn, outputs, recorded, table, prior,
                 events, changes, checkpoint, history>>

TransformAnswered(t) ==
  /\ Tell(t, "listed", "answered")
  /\ UNCHANGED <<phase, mode, pc, call, memory, events, changes, checkpoint, history>>

(* CallbackState.transforms                                                *)
Tokens == {t \in Transform : told[t] # "new"}

-----------------------------------------------------------------------------
(* A statement's future: the request, the monitor's handler, the answer.   *)

Send(s) ==
  /\ phase = "running" /\ pc = "body" /\ call[s].at = "idle"
  /\ call' = [call EXCEPT ![s].at = "sent", ![s].options = Built(s),
                          ![s].due = {t \in Transform : told[t] = "answered"}]
  /\ UNCHANGED <<phase, mode, pc, told, memory, events, changes, checkpoint, history>>

(* The copy of the list the handler works through.                         *)
Snapshot == transforms

(* Reads pass no transform, invokes those of a list no program can fill.   *)
Receive(s) ==
  /\ Native /\ phase # "idle" /\ call[s].at = "sent"
  /\ call' = [call EXCEPT ![s].at = "applying",
                          ![s].todo = IF Registers(s) THEN Snapshot ELSE <<>>]
  /\ UNCHANGED <<phase, mode, pc, told, memory, events, changes, checkpoint, history>>

(* The callback server finds the token while the program runs.             *)
Callback(s) ==
  /\ phase = "running" /\ call[s].at = "applying" /\ call[s].todo # <<>>
  /\ LET t == Head(call[s].todo) IN
       /\ t \in Tokens
       /\ call' = [call EXCEPT ![s].done = Append(@, t), ![s].todo = Tail(@),
                               ![s].options = OptionsAfter(t, @)]
  /\ UNCHANGED <<phase, mode, pc, told, memory, events, changes, checkpoint, history>>

Variant_Replaces(s) ==
  IF prior[s] = None THEN "create"
  ELSE IF prior[s].transforms = call[s].done THEN "same" ELSE "replace"
Variant_CurrentState(s) == IF table[s] = None THEN "create" ELSE "same"

Action(s) ==
  IF prior[s] = None THEN "create"
  ELSE IF prior[s].transforms = call[s].done THEN "same" ELSE "update"

(* Only a custom resource of some package, a read or an invoke reaches a   *)
(* provider, and not in a preview or when nothing has changed.             *)
AsksProvider(s) ==
  /\ s \in Served
  /\ Registers(s) => Custom(s) /\ ~DryRun /\ Action(s) # "same"

(* What the provider answers; a registration emits its event at once.      *)
Serve(s) ==
  /\ phase # "idle" /\ call[s].at = "applying" /\ call[s].todo = <<>>
  /\ call' = [call EXCEPT ![s].at = "served", ![s].filled = AsksProvider(s)]
  /\ events' = IF Registers(s)
               THEN Append(events, [kind |-> "step", of |-> s, op |-> Action(s)])
               ELSE events
  /\ UNCHANGED <<phase, mode, pc, told, memory, changes, checkpoint, history>>

(* A callback, the provider or the connection fails, or the program drops  *)
(* the future and the server drops its handler with it.                    *)
HandlerFails(s) ==
  /\ Native /\ phase # "idle" /\ s \in InFlight
  /\ EndCall(s, "failed")
  /\ late' = IF call[s].at = "served" THEN late \cup {s} ELSE late
  /\ UNCHANGED <<phase, mode, pc, told, memory, events, changes, checkpoint, run, finished,
                 exported>>

Register(s) ==
  /\ phase # "idle" /\ call[s].at = "served" /\ Registers(s)
  /\ call' = [call EXCEPT ![s].at = "registered"]
  /\ table' = [table EXCEPT ![s] = [transforms |-> call[s].done,
                                    secrets |-> call[s].options.secrets]]
  /\ recorded' = Append(recorded, s)
  /\ UNCHANGED <<phase, mode, pc, told, rootUrn, outputs, prior, transforms, events,
                 changes, checkpoint, history>>

(* The program turns the answer into the statement's Outputs type. What a  *)
(* component or a stack reference returns always has the fields it needs.  *)
Decodes(s, filled) ==
  kindOf[s] \in {"component", "reference"} \/ s \notin Requires \/ filled

Answer(s) ==
  /\ phase = "running" /\ pc = "body"
  /\ call[s].at = IF Registers(s) THEN "registered" ELSE "served"
  /\ EndCall(s, IF Decodes(s, call[s].filled) THEN "answered" ELSE "undecodable")
  /\ UNCHANGED <<phase, mode, pc, told, memory, events, changes, checkpoint, history>>

Variant_RecordInjected(s) == Registers(s)

(* Reads and invokes go to lists of their own, which are left out.         *)
MockRecords(s) == Registers(s) /\ s \notin Injected

(* MockMonitor: no await between the recording and the answer, a canned    *)
(* response instead of the echo, and nothing but {} in a preview.          *)
MockAnswer(s) ==
  /\ ~Native /\ phase = "running" /\ pc = "body" /\ call[s].at = "sent"
  /\ LET filled == s \in Canned /\ (Registers(s) => ~DryRun) IN
       EndCall(s, IF s \in Injected THEN "failed"
                  ELSE IF Decodes(s, filled) THEN "answered" ELSE "undecodable")
  /\ recorded' = IF MockRecords(s) THEN Append(recorded, s) ELSE recorded
  /\ UNCHANGED <<phase, mode, pc, told, rootUrn, outputs, table, prior, transforms, events,
                 changes, checkpoint, history>>

(* RegisteredComponent::register_outputs                                   *)
RegisterOutputs(s) ==
  /\ phase = "running" /\ pc = "body"
  /\ kindOf[s] = "component" /\ call[s].at = "answered"
  /\ outputs' = IF Native THEN OutputsAfter(s, Foreign) ELSE outputs
  /\ UNCHANGED <<phase, mode, program, rootUrn, recorded, table, prior, transforms, events,
                 changes, checkpoint, history>>

-----------------------------------------------------------------------------
(* The program's process ends and the engine finishes the run.             *)

(* Exit status 0; after a failure too, if main ignores what run returns:   *)
(* any step above may fail. The callback server is gone.                   *)
ExitZero ==
  /\ phase = "running" /\ Native
  /\ phase' = "deleting" /\ pc' = "off"
  /\ told' = [t \in Transform |-> "new"]
  /\ late' = late \cup InFlight /\ finished' = (pc \in {"exporting", "done"})
  /\ UNCHANGED <<mode, call, memory, events, changes, checkpoint, run, exported>>

(* The run is over: nothing is deleted, saved or summed up.                *)
NothingLeft ==
  /\ phase' = "idle" /\ pc' = "off"
  /\ FreshProcess /\ events' = <<>>
  /\ UNCHANGED <<mode, rootUrn, outputs, prior, checkpoint, run, exported>>

ExitNonZero ==
  /\ phase = "running" /\ Native
  /\ NothingLeft

TestEnds ==
  /\ phase = "running" /\ ~Native
  /\ NothingLeft

(* Engine.tla has the loop a step at a time, and its order.                *)
DeleteStale ==
  /\ phase = "deleting" /\ phase' = "saving"
  /\ LET stale == {r \in Resource : prior[r] # None /\ table[r] = None}
         Deletion(r) == [kind |-> "step", of |-> r, op |-> "delete"]
     IN events' = events \o SetToSeq({Deletion(r) : r \in stale})
  /\ UNCHANGED <<mode, program, memory, changes, checkpoint, history>>

Save ==
  /\ phase = "saving" /\ phase' = "counting"
  /\ IF DryRun
     THEN UNCHANGED <<checkpoint, exported>>
     ELSE /\ checkpoint' = [outputs |-> outputs, table |-> table]
          /\ exported' = IF finished THEN run ELSE exported
  /\ UNCHANGED <<mode, program, memory, events, changes, run, late, finished>>

SaveFails ==
  /\ phase = "saving" /\ ~DryRun
  /\ NothingLeft

(* count_resource_changes over a copy of the events.                       *)
Counts(log) ==
  [op \in Op |-> Cardinality({i \in DOMAIN log : log[i].kind = "step" /\ log[i].op = op})]

CountChanges ==
  /\ phase = "counting" /\ phase' = "summing"
  /\ changes' = Counts(events)
  /\ UNCHANGED <<mode, program, memory, events, checkpoint, history>>

Summarise ==
  /\ phase = "summing" /\ phase' = "idle"
  /\ events' = Append(events, [kind |-> "summary", changes |-> changes])
  /\ changes' = <<>>
  /\ UNCHANGED <<mode, program, memory, checkpoint, history>>

(* What NativeStack gives its caller: the events numbered from 1 on; the    *)
(* command line prints those that are changes, in that order.              *)
Converted(log) == [i \in DOMAIN log |-> [sequence |-> i, event |-> log[i]]]

PendingChanges(log) ==
  {e \in Range(Converted(log)) : e.event.kind = "step" /\ e.event.op # "same"}

NativeOutputs == checkpoint.outputs

-----------------------------------------------------------------------------
RunStep ==
  \/ \E m \in {"up", "preview"} : Begin(m)
  \/ \E m \in {"test", "testPreview"} : BeginTest(m)
  \/ Connect \/ RegisterStack \/ SetRoot \/ Export \/ ExportAnswered \/ Log
  \/ ExitZero \/ ExitNonZero \/ TestEnds
  \/ DeleteStale \/ Save \/ SaveFails \/ CountChanges \/ Summarise

CallStep(s) ==
  \/ Send(s) \/ Receive(s) \/ Callback(s) \/ Serve(s) \/ HandlerFails(s)
  \/ Register(s) \/ Answer(s) \/ MockAnswer(s) \/ RegisterOutputs(s)

TransformStep(t) ==
  InsertToken(t) \/ ListTransform(t) \/ TransformAnswered(t)

Next ==
  /\ \/ RunStep
     \/ \E s \in Statement : CallStep(s)
     \/ \E t \in Transform : TransformStep(t)
  /\ UNCHANGED kindOf

Spec == Init /\ [][Next]_vars

-----------------------------------------------------------------------------
CallState == [at : {"idle", "sent", "applying", "served", "registered", "answered",
                    "undecodable", "failed"},
              done : Seq(Transform), todo : Seq(Transform), due : SUBSET Transform,
              options : [parent : SUBSET {"set"}, secrets : SUBSET Transform,
                         rest : SUBSET ({"set"} \cup Transform), version : SUBSET {"type's"}],
              filled : BOOLEAN]
Table == [Resource -> Entry \cup {None}]
Outputs == 0..Foreign
Event == [kind : {"prelude", "diagnostic"}]
         \cup [kind : {"step"}, of : Resource, op : Op]
         \cup [kind : {"summary"}, changes : [Op -> Nat]]

(* Every part of the state has its shape: the events of the log too, whose *)
(* operation is one of the four the engine has.                            *)
TypeOK ==
  /\ kindOf \in Kinds
  /\ phase \in {"idle", "running", "deleting", "saving", "counting", "summing"}
  /\ mode \in {"up", "preview", "test", "testPreview"}
  /\ pc \in {"off", "start", "stack", "root", "body", "exporting", "done"}
  /\ call \in [Statement -> CallState]
  /\ told \in [Transform -> {"new", "inserted", "listed", "answered"}]
  /\ transforms \in Seq(Transform) /\ recorded \in Seq(Resource)
  /\ rootUrn \in {None, Stack} /\ outputs \in Outputs
  /\ table \in Table /\ prior \in Table
  /\ events \in Seq(Event)
  /\ changes \in {<<>>} \cup [Op -> Nat]
  /\ checkpoint \in [outputs : Outputs, table : Table]
  /\ run \in 0..MaxRuns /\ exported \in 0..MaxRuns
  /\ late \subseteq Statement /\ finished \in BOOLEAN

(* Transforms are registered and resources are too, by concurrent tasks. A *)
(* registration that got past them went through the list's transforms in   *)
(* the order the monitor received them, without a gap, at least through    *)
(* those the program had been told of when it called; the request and the  *)
(* state got their secret outputs and nothing else of their options. And   *)
(* whatever is in the list has its token in the callback server: no        *)
(* registration fails for a transform that is not there yet.               *)
TransformsApplied ==
  Native =>
    /\ phase = "running" => Range(transforms) \subseteq Tokens
    /\ \A s \in Statement :
         call[s].at \in {"served", "registered"} /\ Registers(s) =>
           /\ IsPrefix(call[s].done, transforms)
           /\ call[s].due \subseteq Range(call[s].done)
           /\ call[s].options = [Built(s) EXCEPT !.secrets = Range(call[s].done)]
           /\ table[s] # None => table[s] = [transforms |-> call[s].done,
                                             secrets |-> Range(call[s].done)]

(* The outputs in the checkpoint are the exports of the last program that  *)
(* exported and was saved: never a component's, a preview's, those of a    *)
(* failed run or none because a program ended without exporting            *)
(* (EngineState::from_checkpoint, handle_register_resource_outputs).       *)
StackOutputsLatest == NativeOutputs = exported

StepsOf(ops) == {e.of : e \in {f \in Range(events) : f.kind = "step" /\ f.op \in ops}}

(* No resource gets into the state without an event before it.             *)
EventsFirst ==
  Native /\ phase # "idle" =>
    \A r \in Resource : table[r] # None => r \in StepsOf({"create", "update", "same"})

(* Creations, other registrations and deletions are exactly the difference *)
(* between the prior and the new table, one event each.                    *)
EventsMatch ==
  /\ \A i, j \in DOMAIN events :
       events[i].kind = "step" /\ events[i] = events[j] => i = j
  /\ StepsOf({"create"}) = {r \in Resource : prior[r] = None /\ table[r] # None}
  /\ StepsOf({"update", "same"}) = {r \in Resource : prior[r] # None /\ table[r] # None}
  /\ StepsOf({"delete"}) = {r \in Resource : prior[r] # None /\ table[r] = None}

(* The summary is last and counts them all; the command line lists those   *)
(* that are changes.                                                       *)
EventsCounted ==
  /\ Head(events) = [kind |-> "prelude"]
  /\ Last(events) = [kind |-> "summary", changes |-> Counts(events)]
  /\ Cardinality(PendingChanges(events)) = Cardinality(StepsOf({"create", "update", "delete"}))

(* What run_program returns tells what it did to the state, unless a       *)
(* handler was in flight when the program exited, or was dropped between   *)
(* its event and its registration.                                         *)
EventsTell ==
  /\ EventsFirst
  /\ phase = "idle" /\ Native /\ events # <<>> /\ late = {} => EventsMatch /\ EventsCounted

(* The native engine and the mock are both what the program's code was     *)
(* written against: registrations are recorded once, in the order the      *)
(* program can ask the mock for, and answered only then.                   *)
Progress(s) ==
  LET at == call[s].at IN
  IF ~Registers(s) THEN "idle"
  ELSE CASE at \in {"sent", "applying", "served"} -> "pending"
         [] at = "registered"                     -> "recorded"
         [] at \in {"answered", "undecodable"}    -> "answered"
         [] OTHER                                 -> at

(* Without the stack, which the engine lists first.                        *)
Registrations == SubSeq(recorded, IF Native THEN 2 ELSE 1, Len(recorded))

Contract ==
  INSTANCE Monitor WITH
    Call     <- Statement,
    progress <- [s \in Statement |-> Progress(s)],
    record   <- Registrations

MonitorSpec == Contract!Spec
=============================================================================
