------------------------------- MODULE Engine -------------------------------
(***************************************************************************)
(* One stack driven by the native engine: PulumiEngine (orchestrator.rs)   *)
(* runs `up`, `preview`, `destroy` and `refresh` one after another, the    *)
(* monitor's RegisterResource handlers (monitor_service.rs) run as         *)
(* concurrent tasks split at their awaits, EngineState (state.rs) is the   *)
(* memory of one run, and the checkpoint file and the provider's objects   *)
(* are what survives it.                                                   *)
(*                                                                         *)
(* Data is abstracted to identity: inputs are values compared for          *)
(* equality (diff.rs without ignoreChanges), an object at the provider is  *)
(* an id with a status and the inputs it was last given. A request stands  *)
(* for what is left of it after the stack transforms.                      *)
(*                                                                         *)
(* A "Variant" is a plausible mistake in the operator that follows it; no  *)
(* specification uses it. PROJECT.json names the property each one breaks. *)
(***************************************************************************)
EXTENDS Naturals, Sequences

CONSTANTS
  Resource,   \* the registration statements of the user's program
  Urn,        \* resource names
  UrnOf,      \* [Resource -> Urn], what make_urn makes of the parent's type,
              \* the type and the name: children of two parents may get one
  ParentOf,   \* [Resource -> Resource \cup {None}]
  Component,  \* URNs no provider serves: custom = false or type pulumi:*
  Input,      \* input property maps
  Id,         \* ids the provider can assign
  Handler,    \* RegisterResource tasks in flight at the same time
  None,       \* absent entry, empty id, no parent
  Fault,      \* the environment's faults this instance admits
  MaxOps      \* bound on the operations started

FaultKind == {"providerError", "lostCall", "programFails", "exitEarly",
              "outOfBand", "saveFails", "crash"}

(* What can befall an object behind the checkpoint's back.                 *)
Mishap == {"outOfBand", "abandoned", "duplicateUrn", "programFailed",
           "deleteFailed", "lateRegister", "saveFailed", "crash"}

Entry == [id : Id \cup {None}, inputs : Input,
          parent : Urn \cup {None}, outputs : {"provider", "program"}]

ASSUME EngineAssumption ==
  /\ UrnOf \in [Resource -> Urn]
  /\ ParentOf \in [Resource -> Resource \cup {None}]
  /\ Component \subseteq Urn
  /\ Fault \subseteq FaultKind
  /\ MaxOps \in Nat
  /\ None \notin Resource \cup Urn \cup Input \cup Id \cup Entry

Table == [Urn -> Entry \cup {None}]

VARIABLES
  checkpoint, \* the checkpoint file: [status, order, table]
  cloud,      \* [Id -> status of the object at the provider]
  props,      \* [Id -> the inputs the object was last given]
  phase,      \* where the operation in progress stands, "idle" between two
  dry,        \* preview: dry_run of ResourceMonitorImpl and run_program
  prior,      \* EngineStateInner.prior_resources
  resources,  \* EngineStateInner.resources (updated_resources in refresh)
  order,      \* EngineStateInner.resource_order
  toDelete,   \* URNs the delete loop of run_program has still to visit
  todo,       \* entries destroy or refresh has still to visit
  pending,    \* the checkpoint built by to_checkpoint, being written
  handlers,   \* [Handler -> the task's locals]
  asked,      \* statements the program has executed in this run
  ops,        \* operations started (bound)
  mishap      \* observation only: [Id -> set of mishaps it suffered]

volatile == <<dry, prior, resources, order, toDelete, todo, asked>>
world == <<cloud, props>>
vars == <<checkpoint, cloud, props, phase, dry, prior, resources, order,
          toDelete, todo, pending, handlers, asked, ops, mishap>>

NoTable == [u \in Urn |-> None]

Saved == [order : Seq(Urn), table : Table]
NoSaved == [order |-> <<>>, table |-> NoTable]

Idle == [pc |-> "idle", res |-> None, inputs |-> None, id |-> None,
         stale |-> FALSE]

HandlerState ==
  [pc : {"idle", "call", "applied", "register"}, res : Resource \cup {None},
   inputs : Input \cup {None}, id : Id \cup {None}, stale : BOOLEAN]

TypeOK ==
  /\ checkpoint \in [status : {"absent", "valid", "torn"}, saved : Saved]
  /\ cloud \in [Id -> {"unused", "live", "gone"}]
  /\ props \in [Id -> Input \cup {None}]
  /\ phase \in {"idle", "program", "delete", "destroy", "refresh", "save"}
  /\ dry \in BOOLEAN
  /\ prior \in Table
  /\ resources \in Table
  /\ order \in Seq(Urn)
  /\ toDelete \subseteq Urn
  /\ todo \in Seq(Urn)
  /\ pending \in Saved
  /\ handlers \in [Handler -> HandlerState]
  /\ asked \subseteq Resource
  /\ ops \in 0..MaxOps
  /\ mishap \in [Id -> SUBSET Mishap]

Init ==
  /\ checkpoint = [status |-> "absent", saved |-> NoSaved]
  /\ cloud = [i \in Id |-> "unused"]
  /\ props = [i \in Id |-> None]
  /\ phase = "idle"
  /\ dry = FALSE
  /\ prior = NoTable
  /\ resources = NoTable
  /\ order = <<>>
  /\ toDelete = {}
  /\ todo = <<>>
  /\ pending = NoSaved
  /\ handlers = [h \in Handler |-> Idle]
  /\ asked = {}
  /\ ops = 0
  /\ mishap = [i \in Id |-> {}]

-----------------------------------------------------------------------------
(* Helpers *)

Domain(t) == {u \in Urn : t[u] # None}
IdsIn(t) == {t[u].id : u \in Domain(t)} \ {None}

Recorded == IF checkpoint.status = "valid"
            THEN IdsIn(checkpoint.saved.table) ELSE {}

(* The checkpoint is right about object i.                                 *)
Settled(i) ==
  LET t == checkpoint.saved.table IN
  IF cloud[i] = "live"
  THEN \E u \in Domain(t) : t[u].id = i /\ t[u].inputs = props[i]
  ELSE i \notin IdsIn(t)

(* The objects of this run that the checkpoint is wrong about.             *)
Upset == {i \in IdsIn(prior) \cup IdsIn(resources) \cup IdsIn(pending.table) :
            ~Settled(i)}

(* Ids a registration task holds between the provider's action and the     *)
(* task's last step.                                                       *)
HeldByHandler == {handlers[h].id : h \in {g \in Handler :
                                            handlers[g].pc = "applied"}}

Hit(S, why) ==
  mishap' = [i \in Id |-> IF i \in S THEN mishap[i] \cup {why} ELSE mishap[i]]

Variant_EveryPriorIsSame(old, inputs) ==
  IF old = None THEN "create" ELSE "same"

(* diff_resource, without ignoreChanges.                                   *)
DiffResource(old, inputs) ==
  CASE old = None -> "create"
    [] old # None /\ old.inputs # inputs -> "update"
    [] OTHER -> "same"

Variant_AnyPriorResource(u) ==
  IF prior[u] = None /\ Domain(prior) # {}
  THEN prior[CHOOSE v \in Domain(prior) : TRUE] ELSE prior[u]

GetPriorResource(u) == prior[u]

Variant_PriorRecord(old) == old

(* prior.map(|p| p.id).unwrap_or_default()                                 *)
PriorId(old) == IF old = None THEN None ELSE old.id

Variant_CallsInPreview(u, action) == action # "same" /\ u \notin Component

(* needs_provider, on the paths that do call the provider.                 *)
CallsProvider(u, action) ==
  /\ action # "same"
  /\ u \notin Component
  /\ ~dry

Variant_PushFront(u) == IF resources[u] = None THEN <<u>> \o order ELSE order
Variant_PushAlways(u) == Append(order, u)

(* resource_order after register_resource.                                 *)
PushUrn(u) == IF resources[u] = None THEN Append(order, u) ELSE order

Variant_NothingDeleted == {}
Variant_EverythingDeleted == Domain(prior)

(* The URNs of the prior state that this run has not registered.           *)
DeletedUrns == {u \in Domain(prior) : resources[u] = None}

Quiescent == \A h \in Handler : handlers[h].pc = "idle" \/ handlers[h].stale

(* The run is over: EngineState is dropped. Tasks still in flight keep     *)
(* running, detached from any run.                                         *)
EndRun ==
  /\ phase' = "idle"
  /\ dry' = FALSE
  /\ prior' = NoTable
  /\ resources' = NoTable
  /\ order' = <<>>
  /\ toDelete' = {}
  /\ todo' = <<>>
  /\ pending' = NoSaved
  /\ asked' = {}
  /\ handlers' = [h \in Handler |->
                    [handlers[h] EXCEPT !.stale = @ \/ handlers[h].pc # "idle"]]

-----------------------------------------------------------------------------
(* up and preview *)

(* run_program up to the spawned program. A torn checkpoint fails to parse *)
(* and the operation returns before it changes anything.                   *)
BeginRun(preview) ==
  /\ phase = "idle"
  /\ ops < MaxOps
  /\ checkpoint.status # "torn"
  /\ phase' = "program"
  /\ dry' = preview
  /\ prior' = checkpoint.saved.table
  /\ ops' = ops + 1
  /\ UNCHANGED <<checkpoint, world, resources, order, toDelete, todo, pending,
                 handlers, asked, mishap>>

(* handle_register_resource from its first line to the provider call: the  *)
(* URN, the prior state and the diff. prior_resources never changes within *)
(* a run, so the two locks in between cannot be told apart. The program    *)
(* knows a parent's URN once that registration has been answered.          *)
Receive(h, r, in) ==
  LET u == UrnOf[r]
      old == GetPriorResource(u)
      calls == CallsProvider(u, DiffResource(old, in))
  IN /\ phase = "program"
     /\ handlers[h].pc = "idle"
     /\ r \notin asked
     /\ ParentOf[r] # None => resources[UrnOf[ParentOf[r]]] # None
     /\ handlers' = [handlers EXCEPT ![h] =
          [pc |-> IF calls THEN "call" ELSE "register", res |-> r,
           inputs |-> in, id |-> PriorId(old),
           stale |-> FALSE]]
     /\ asked' = asked \cup {r}
     /\ UNCHANGED <<checkpoint, world, phase, dry, prior, resources, order,
                    toDelete, todo, pending, ops, mishap>>

(* The provider acts on a create request: a fresh id.                      *)
ProviderCreates(h, i) ==
  /\ handlers[h].pc = "call"
  /\ handlers[h].id = None
  /\ cloud[i] = "unused"
  /\ cloud' = [cloud EXCEPT ![i] = "live"]
  /\ props' = [props EXCEPT ![i] = handlers[h].inputs]
  /\ handlers' = [handlers EXCEPT ![h].pc = "applied", ![h].id = i]
  /\ UNCHANGED <<checkpoint, phase, volatile, pending, ops, mishap>>

(* The provider acts on an update request: same id, new properties.        *)
ProviderUpdates(h) ==
  LET i == handlers[h].id IN
  /\ handlers[h].pc = "call"
  /\ i # None
  /\ cloud[i] = "live"
  /\ props' = [props EXCEPT ![i] = handlers[h].inputs]
  /\ handlers' = [handlers EXCEPT ![h].pc = "applied"]
  /\ UNCHANGED <<checkpoint, cloud, phase, volatile, pending, ops, mishap>>

Variant_CallRetriedForever(h) ==
  /\ handlers[h].pc = "call"
  /\ UNCHANGED vars

(* get_provider, create or update returns an error without effect: the RPC *)
(* is answered with a Status and nothing is registered. Updating an object *)
(* that is gone always ends here.                                          *)
CallFails(h) ==
  /\ handlers[h].pc = "call"
  /\ \/ "providerError" \in Fault
     \/ handlers[h].id # None /\ cloud[handlers[h].id] = "gone"
  /\ handlers' = [handlers EXCEPT ![h] = Idle]
  /\ UNCHANGED <<checkpoint, world, phase, volatile, pending, ops, mishap>>

(* The end of handle_register_resource: the event and register_resource.   *)
(* On the "same" path the outputs are the program's own object.            *)
Register(h) ==
  LET hs == handlers[h]
      u == UrnOf[hs.res]
      parent == ParentOf[hs.res]
      new == [id |-> hs.id, inputs |-> hs.inputs,
              parent |-> IF parent = None THEN None ELSE UrnOf[parent],
              outputs |-> IF hs.pc = "applied" THEN "provider" ELSE "program"]
      clash == IF ~dry /\ resources[u] # None /\ resources[u] # new
               THEN {resources[u].id, hs.id} ELSE {}
      late == IF phase = "save" \/ (phase = "delete" /\ ~dry /\ u \in DeletedUrns)
              THEN {hs.id} ELSE {}
  IN /\ hs.pc \in {"applied", "register"}
     /\ ~hs.stale
     /\ resources' = [resources EXCEPT ![u] = new]
     /\ order' = PushUrn(u)
     /\ handlers' = [handlers EXCEPT ![h] = Idle]
     /\ mishap' = [i \in Id |-> mishap[i]
                     \cup (IF i \in clash THEN {"duplicateUrn"} ELSE {})
                     \cup (IF i \in late THEN {"lateRegister"} ELSE {})]
     /\ UNCHANGED <<checkpoint, world, phase, dry, prior, toDelete, todo,
                    pending, asked, ops>>

(* The task ends without registering: the provider's reply is lost, or the *)
(* program's connection is gone and the server drops the task at an await, *)
(* or the run it belongs to is over and its EngineState is garbage.        *)
Drop(h) ==
  /\ handlers[h].pc # "idle"
  /\ \/ phase # "program" \/ handlers[h].stale
     \/ "lostCall" \in Fault /\ handlers[h].pc = "applied"
  /\ Hit(IF handlers[h].pc = "applied" THEN {handlers[h].id} ELSE {},
         "abandoned")
  /\ handlers' = [handlers EXCEPT ![h] = Idle]
  /\ UNCHANGED <<checkpoint, world, phase, volatile, pending, ops>>

(* cmd.output() returns with success. Nothing waits for the handlers: the  *)
(* accept loops are aborted and get_deleted_urns is computed.              *)
ProgramSucceeds ==
  /\ phase = "program"
  /\ Quiescent \/ "exitEarly" \in Fault
  /\ phase' = "delete"
  /\ toDelete' = DeletedUrns
  /\ UNCHANGED <<checkpoint, world, dry, prior, resources, order, todo,
                 pending, handlers, asked, ops, mishap>>

(* cmd.output() returns with a failure: run_program returns ProgramFailed  *)
(* and saves nothing of what the run did.                                  *)
ProgramFails ==
  /\ phase = "program"
  /\ "programFails" \in Fault
  /\ EndRun
  /\ Hit({resources[u].id : u \in {v \in Domain(resources) :
                                     resources[v].outputs = "provider"}},
         "programFailed")
  /\ UNCHANGED <<checkpoint, world, ops>>

(* The result of Provider::delete is dropped: an error leaves the object.  *)
DeleteObject(i) ==
  \/ cloud' = [cloud EXCEPT ![i] = "gone"] /\ UNCHANGED mishap
  \/ "providerError" \in Fault /\ Hit({i}, "deleteFailed") /\ UNCHANGED cloud

(* One turn of the delete loop. The list is in the order of a HashMap's    *)
(* keys, which is any order.                                               *)
DeleteUrn(u) ==
  /\ phase = "delete"
  /\ u \in toDelete
  /\ toDelete' = toDelete \ {u}
  /\ IF u \in Component \/ dry THEN UNCHANGED <<cloud, mishap>>
                               ELSE DeleteObject(prior[u].id)
  /\ UNCHANGED <<checkpoint, props, phase, dry, prior, resources, order, todo,
                 pending, handlers, asked, ops>>

(* A dry run ends without saving.                                          *)
EndPreview ==
  /\ phase = "delete"
  /\ toDelete = {}
  /\ dry
  /\ EndRun
  /\ UNCHANGED <<checkpoint, world, ops, mishap>>

-----------------------------------------------------------------------------
(* destroy and refresh *)

(* destroy with at least one entry in the checkpoint; without one it       *)
(* changes nothing.                                                        *)
BeginDestroy ==
  /\ phase = "idle"
  /\ ops < MaxOps
  /\ checkpoint.status = "valid"
  /\ checkpoint.saved.order # <<>>
  /\ phase' = "destroy"
  /\ prior' = checkpoint.saved.table
  /\ todo' = checkpoint.saved.order
  /\ ops' = ops + 1
  /\ UNCHANGED <<checkpoint, world, dry, resources, order, toDelete, pending,
                 handlers, asked, mishap>>

(* One turn of destroy's loop, from the back of the checkpoint's list.     *)
DestroyEntry ==
  LET u == todo[Len(todo)] IN
  /\ phase = "destroy"
  /\ todo # <<>>
  /\ todo' = SubSeq(todo, 1, Len(todo) - 1)
  /\ IF u \in Component THEN UNCHANGED <<cloud, mishap>>
                        ELSE DeleteObject(prior[u].id)
  /\ UNCHANGED <<checkpoint, props, phase, dry, prior, resources, order,
                 toDelete, pending, handlers, asked, ops>>

BeginRefresh ==
  /\ phase = "idle"
  /\ ops < MaxOps
  /\ checkpoint.status = "valid"
  /\ phase' = "refresh"
  /\ prior' = checkpoint.saved.table
  /\ todo' = checkpoint.saved.order
  /\ ops' = ops + 1
  /\ UNCHANGED <<checkpoint, world, dry, resources, order, toDelete, pending,
                 handlers, asked, mishap>>

(* One turn of refresh's loop. An object the provider no longer has is     *)
(* dropped; a live one keeps its id and takes the live outputs and inputs  *)
(* as far as the provider returns them; an error keeps the entry.          *)
RefreshEntry ==
  LET u == todo[1]
      old == prior[u]
      Keep(e) == /\ resources' = [resources EXCEPT ![u] = e]
                 /\ order' = Append(order, u)
  IN /\ phase = "refresh"
     /\ todo # <<>>
     /\ todo' = Tail(todo)
     /\ \/ u \in Component /\ Keep(old)
        \/ u \notin Component /\ "providerError" \in Fault /\ Keep(old)
        \/ /\ u \notin Component
           /\ cloud[old.id] = "gone"
           /\ UNCHANGED <<resources, order>>
        \/ /\ u \notin Component
           /\ cloud[old.id] = "live"
           /\ \E in \in {old.inputs, props[old.id]},
                 out \in {old.outputs, "provider"} :
                Keep([old EXCEPT !.inputs = in, !.outputs = out])
     /\ UNCHANGED <<checkpoint, world, phase, dry, prior, toDelete, pending,
                    handlers, asked, ops, mishap>>

-----------------------------------------------------------------------------
(* Saving *)

(* to_checkpoint (destroy: empty_checkpoint; its run registers nothing),   *)
(* then fs::write creates the file anew: empty until it is written.        *)
ReadyToSave ==
  \/ phase = "delete" /\ toDelete = {} /\ ~dry
  \/ phase \in {"destroy", "refresh"} /\ todo = <<>>

BeginSave ==
  /\ ReadyToSave
  /\ phase' = "save"
  /\ pending' = [order |-> order, table |-> resources]
  /\ checkpoint' = [status |-> "torn", saved |-> NoSaved]
  /\ UNCHANGED <<world, volatile, handlers, ops, mishap>>

(* save_checkpoint returns an error: encryption failed before the file was *)
(* touched, or the write failed after it was truncated. The operation      *)
(* returns it.                                                             *)
SaveFails ==
  /\ "saveFails" \in Fault
  /\ ReadyToSave \/ phase = "save"
  /\ EndRun
  /\ Hit(Upset, "saveFailed")
  /\ UNCHANGED <<checkpoint, world, ops>>

EndSave ==
  /\ phase = "save"
  /\ checkpoint' = [status |-> "valid", saved |-> pending]
  /\ EndRun
  /\ UNCHANGED <<world, ops, mishap>>

-----------------------------------------------------------------------------
(* Faults of the environment *)

(* Somebody deletes or changes an object without the engine.               *)
OutOfBand(i) ==
  /\ "outOfBand" \in Fault
  /\ cloud[i] = "live"
  /\ \/ cloud' = [cloud EXCEPT ![i] = "gone"] /\ UNCHANGED props
     \/ \E in \in Input : props' = [props EXCEPT ![i] = in] /\ UNCHANGED cloud
  /\ Hit({i}, "outOfBand")
  /\ UNCHANGED <<checkpoint, phase, volatile, pending, handlers, ops>>

(* The engine's process dies in the middle of an operation.                *)
Crash ==
  /\ "crash" \in Fault
  /\ phase # "idle"
  /\ EndRun
  /\ Hit(Upset, "crash")
  /\ UNCHANGED <<checkpoint, world, ops>>

-----------------------------------------------------------------------------
HandlerStep(h) ==
  \/ \E i \in Id : ProviderCreates(h, i)
  \/ ProviderUpdates(h)
  \/ CallFails(h)
  \/ Register(h)
  \/ Drop(h)

EngineStep ==
  \/ ProgramSucceeds
  \/ \E u \in Urn : DeleteUrn(u)
  \/ EndPreview
  \/ DestroyEntry
  \/ RefreshEntry
  \/ BeginSave
  \/ EndSave

Next ==
  \/ \E preview \in BOOLEAN : BeginRun(preview)
  \/ \E h \in Handler, r \in Resource, in \in Input : Receive(h, r, in)
  \/ \E h \in Handler : HandlerStep(h)
  \/ EngineStep
  \/ ProgramFails
  \/ BeginDestroy
  \/ BeginRefresh
  \/ \E i \in Id : OutOfBand(i)
  \/ SaveFails
  \/ Crash

Spec == Init /\ [][Next]_vars

(* The tokio runtime polls the engine's tasks, a provider answers, and the *)
(* program exits once its registrations are answered: cmd.output() has no  *)
(* timeout, so a program that never exits keeps the operation open.        *)
FairSpec == /\ Spec
            /\ WF_vars(EngineStep)
            /\ \A h \in Handler : WF_vars(HandlerStep(h))

-----------------------------------------------------------------------------
(* What is promised to the user of the engine: see StackLedger.            *)

IdTable(t) == [u \in Urn |-> IF t[u] = None THEN None ELSE t[u].id]

LedgerTable == IF phase = "save" THEN IdTable(prior)
                                 ELSE IdTable(checkpoint.saved.table)

(* Objects this run created and has not lost hold of.                      *)
NewInHand ==
  (IdsIn(resources) \cup IdsIn(pending.table)
     \cup {handlers[h].id : h \in {g \in Handler :
             handlers[g].pc = "applied" /\ ~handlers[g].stale}})
  \ IdsIn(prior)

Ledger == INSTANCE StackLedger WITH
  ledger <- LedgerTable,
  used <- {i \in Id : cloud[i] # "unused"},
  live <- {i \in Id : cloud[i] = "live"},
  fresh <- NewInHand,
  outside <- {i \in Id : "outOfBand" \in mishap[i]}

(* The engine implements the ledger.                                       *)
LedgerSpec == Ledger!Spec

-----------------------------------------------------------------------------
(* Properties *)

InHand == IdsIn(prior) \cup IdsIn(resources) \cup IdsIn(pending.table)
            \cup HeldByHandler

(* An object that lives at the provider is in the checkpoint or in the     *)
(* hands of the operation in progress, unless one of the named mishaps     *)
(* orphaned it. These are the only ways the engine loses track of what it  *)
(* created.                                                                *)
LeakCause == {"abandoned", "duplicateUrn", "programFailed", "deleteFailed",
              "lateRegister", "saveFailed", "crash"}
NoSilentLeak ==
  \A i \in Id : cloud[i] = "live" /\ i \notin Recorded \cup InHand
                => mishap[i] \cap LeakCause # {}

(* Between two operations, an entry of the checkpoint whose object is gone *)
(* was hit from outside, by a crash or a failed save, or by a task that    *)
(* registered its URN after the delete loop had listed it. `up` reports such an entry "same"  *)
(* and does not create the object again.                                   *)
DanglingCause == {"outOfBand", "lateRegister", "saveFailed", "crash"}
NoSilentDangling ==
  phase = "idle" =>
    \A i \in Recorded : cloud[i] # "live" => mishap[i] \cap DanglingCause # {}

(* Between two operations, the inputs the checkpoint records for a live    *)
(* object are those the provider was last given for it, unless a named     *)
(* mishap separated them. diff_resource compares against the recorded      *)
(* inputs, so a silent difference would never be repaired.                 *)
DriftCause == {"outOfBand", "abandoned", "duplicateUrn", "programFailed",
               "lateRegister", "saveFailed", "crash"}
NoSilentDrift ==
  phase = "idle" /\ checkpoint.status = "valid" =>
    \A u \in Domain(checkpoint.saved.table) \ Component :
      LET e == checkpoint.saved.table[u] IN
        \/ props[e.id] = e.inputs
        \/ e.id \in HeldByHandler
        \/ mishap[e.id] \cap DriftCause # {}

(* No two URNs of the checkpoint name the same object, so that deleting    *)
(* one resource never takes away another one's object.                     *)
OneUrnPerObject ==
  \A u, v \in Domain(checkpoint.saved.table) \ Component :
    checkpoint.saved.table[u].id = checkpoint.saved.table[v].id => u = v

(* resource_order lists every registered URN once.                         *)
ListMatchesTable ==
  LET Matches(o, t) == /\ \A j, k \in 1..Len(o) : o[j] = o[k] => j = k
                       /\ {o[k] : k \in 1..Len(o)} = Domain(t)
  IN /\ Matches(order, resources)
     /\ Matches(checkpoint.saved.order, checkpoint.saved.table)

(* Without faults and with distinct URNs the checkpoint is exact between   *)
(* two operations: it lists the live objects, all of them, with the inputs *)
(* they have.                                                              *)
CheckpointExact == phase = "idle" => \A i \in Id : Settled(i)

(* When destroy visits a resource it has visited all of its children:      *)
(* it walks the recorded list backwards, looks at no parent, and relies on *)
(* every registration, over any number of runs, to list parents first.     *)
DestroyChildrenFirst ==
  [][phase = "destroy" /\ todo' # todo
       => \A k \in 1..Len(todo') : prior[todo'[k]].parent # todo[Len(todo)]]_vars

(* When the delete loop of `up` visits a resource it has visited those of  *)
(* its children that are deleted too ("Reverse so children are deleted     *)
(* before parents", state.rs).                                             *)
DeleteChildrenFirst ==
  [][phase = "delete" /\ ~dry /\ toDelete' # toDelete
       => \A u \in toDelete \ toDelete', v \in toDelete' :
            prior[v].parent # u]_vars

(* Every operation ends.                                                   *)
OperationEnds == phase # "idle" ~> phase = "idle"

(* A preview leaves the checkpoint file alone, and the only provider calls *)
(* that take effect while it runs come from tasks of an earlier run.       *)
PreviewTouchesNothing ==
  [][dry => /\ checkpoint' = checkpoint
            /\ \A h \in Handler : ~handlers[h].stale
                                  => handlers'[h].pc \notin {"call", "applied"}
            /\ \A i \in Id : cloud[i] = "live" /\ cloud'[i] = "gone"
                            => "outOfBand" \in mishap'[i]]_vars
=============================================================================
