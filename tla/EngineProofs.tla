---------------------------- MODULE EngineProofs ----------------------------
(***************************************************************************)
(* Theorems about Engine for every set of resources, URNs, ids, handlers   *)
(* and faults.                                                             *)
(***************************************************************************)
EXTENDS Engine, TLAPS

-----------------------------------------------------------------------------
(* Typing. TypeOK is not inductive: what a task writes into the table, or  *)
(* refresh copies, has the right type only because of what the task and    *)
(* the loop hold.                                                          *)

(* A task has a request and, once the provider acted, an id.               *)
TasksTyped ==
  \A h \in Handler :
    /\ handlers[h].pc # "idle" => /\ handlers[h].res \in Resource
                                  /\ handlers[h].inputs \in Input
    /\ handlers[h].pc = "applied" => handlers[h].id \in Id

(* A live object has inputs.                                               *)
ObjectsTyped == \A i \in Id : cloud[i] = "live" => props[i] \in Input

CustomHasId(t) == \A u \in Urn \ Component : t[u] # None => t[u].id \in Id

(* Every custom resource of a table that may be saved has an id.           *)
TablesTyped ==
  /\ CustomHasId(checkpoint.saved.table)
  /\ CustomHasId(prior)
  /\ CustomHasId(pending.table)
  /\ ~dry => CustomHasId(resources)
  /\ ~dry => \A h \in Handler :
       handlers[h].pc = "register" /\ ~handlers[h].stale
         /\ UrnOf[handlers[h].res] \notin Component => handlers[h].id \in Id

(* destroy and refresh walk a list of entries of prior.                    *)
ListInTable(o, t) == \A k \in 1..Len(o) : t[o[k]] # None
WalkTyped ==
  /\ ListInTable(checkpoint.saved.order, checkpoint.saved.table)
  /\ ListInTable(pending.order, pending.table)
  /\ ListInTable(order, resources)
  /\ ListInTable(todo, prior)
  /\ phase \notin {"destroy", "refresh"} => todo = <<>>

(* dry is set in runs of the program only.                                 *)
DryTyped == dry => phase \in {"program", "delete"}

TypeInv == TypeOK /\ TasksTyped /\ ObjectsTyped /\ TablesTyped /\ WalkTyped
             /\ DryTyped

-----------------------------------------------------------------------------
(* Ownership. An id, wherever the engine keeps it, belongs to one URN.     *)

In(t, u, i) == t[u] # None /\ t[u].id = i

HeldFor(u, i) ==
  \E h \in Handler : /\ handlers[h].pc # "idle"
                     /\ UrnOf[handlers[h].res] = u
                     /\ handlers[h].id = i

Owns(u, i) == \/ In(prior, u, i)
              \/ In(resources, u, i)
              \/ In(pending.table, u, i)
              \/ In(checkpoint.saved.table, u, i)
              \/ HeldFor(u, i)

Ownership ==
  \A u \in Urn, i \in Id : Owns(u, i) =>
    /\ cloud[i] # "unused"
    /\ \A v \in Urn : Owns(v, i) => u = v

-----------------------------------------------------------------------------
LEMMA Constants == NoTable \in Table /\ NoSaved \in Saved /\ Idle \in HandlerState
<1>1. NoTable \in Table
  BY DEF NoTable, Table
<1>2. NoSaved \in Saved
  BY <1>1 DEF NoSaved, Saved
<1>3. Idle \in HandlerState
  BY DEF Idle, HandlerState
<1> QED
  BY <1>1, <1>2, <1>3

THEOREM InitTypeInv == Init => TypeInv
<1> SUFFICES ASSUME Init PROVE TypeInv
  OBVIOUS
<1>1. checkpoint \in [status : {"absent", "valid", "torn"}, saved : Saved]
  BY Constants DEF Init
<1>2. /\ cloud \in [Id -> {"unused", "live", "gone"}]
      /\ props \in [Id -> Input \cup {None}]
      /\ phase \in {"idle", "program", "delete", "destroy", "refresh", "save"}
      /\ prior \in Table
      /\ resources \in Table
      /\ order \in Seq(Urn)
      /\ toDelete \subseteq Urn
      /\ todo \in Seq(Urn)
      /\ pending \in Saved
      /\ handlers \in [Handler -> HandlerState]
      /\ asked \subseteq Resource
      /\ ops \in 0..MaxOps
      /\ mishap \in [Id -> SUBSET Mishap]
  BY Constants, EngineAssumption DEF Init
<1>3. dry \in BOOLEAN
  BY DEF Init
<1>4. TypeOK
  BY <1>1, <1>2, <1>3 DEF TypeOK
<1>5. TasksTyped /\ ObjectsTyped /\ DryTyped
  BY DEF Init, Idle, TasksTyped, ObjectsTyped, DryTyped
<1>6. TablesTyped
  BY DEF Init, Idle, NoSaved, NoTable, TablesTyped, CustomHasId
<1>7. WalkTyped
  BY DEF Init, NoSaved, WalkTyped, ListInTable
<1> QED
  BY <1>4, <1>5, <1>6, <1>7 DEF TypeInv

-----------------------------------------------------------------------------
LEMMA EndRunTypes ==
  ASSUME TypeInv, EndRun
  PROVE  /\ phase' = "idle" /\ dry' = FALSE /\ order' = <<>> /\ todo' = <<>>
         /\ prior' \in Table /\ resources' \in Table /\ pending' \in Saved
         /\ handlers' \in [Handler -> HandlerState]
         /\ CustomHasId(prior') /\ CustomHasId(pending'.table)
         /\ CustomHasId(resources')
         /\ TasksTyped'
         /\ \A h \in Handler : handlers'[h].pc # "idle" => handlers'[h].stale
         /\ ListInTable(order', resources') /\ ListInTable(todo', prior')
         /\ ListInTable(pending'.order, pending'.table)
<1>1. handlers' \in [Handler -> HandlerState]
  BY DEF TypeInv, TypeOK, EndRun, HandlerState
<1>2. \A h \in Handler : /\ handlers'[h].pc = handlers[h].pc
                         /\ handlers'[h].res = handlers[h].res
                         /\ handlers'[h].inputs = handlers[h].inputs
                         /\ handlers'[h].id = handlers[h].id
                         /\ handlers'[h].pc # "idle" => handlers'[h].stale
  BY DEF TypeInv, TypeOK, EndRun, HandlerState
<1>3. TasksTyped'
  BY <1>2 DEF TypeInv, TasksTyped
<1>4. CustomHasId(NoTable)
  BY DEF CustomHasId, NoTable
<1> QED
  BY <1>1, <1>2, <1>3, <1>4, Constants DEF EndRun, NoSaved, ListInTable

LEMMA HitTypes ==
  ASSUME TypeInv, NEW S, NEW why \in Mishap, Hit(S, why)
  PROVE  mishap' \in [Id -> SUBSET Mishap]
BY DEF TypeInv, TypeOK, Hit

LEMMA BeginTypes ==
  ASSUME TypeInv, (\E preview \in BOOLEAN : BeginRun(preview)) \/ BeginDestroy
                    \/ BeginRefresh
  PROVE  TypeInv'
<1>1. checkpoint \in [status : {"absent", "valid", "torn"}, saved : Saved]
  BY DEF TypeInv, TypeOK
<1>2. checkpoint.saved.table \in Table /\ checkpoint.saved.order \in Seq(Urn)
  BY <1>1 DEF Saved
<1>3. ops' \in 0..MaxOps
  BY EngineAssumption DEF TypeInv, TypeOK, BeginRun, BeginDestroy, BeginRefresh
<1>4. dry' \in BOOLEAN
  BY DEF TypeInv, TypeOK, BeginRun, BeginDestroy, BeginRefresh
<1>5. TypeOK'
  BY <1>2, <1>3, <1>4
     DEF TypeInv, TypeOK, BeginRun, BeginDestroy, BeginRefresh, world
<1>6. TasksTyped' /\ ObjectsTyped'
  BY DEF TypeInv, TasksTyped, ObjectsTyped, BeginRun, BeginDestroy, BeginRefresh, world
<1>7. TablesTyped'
  BY DEF TypeInv, TablesTyped, DryTyped, CustomHasId,
         BeginRun, BeginDestroy, BeginRefresh
<1>8. WalkTyped'
  BY DEF TypeInv, WalkTyped, ListInTable, BeginRun, BeginDestroy, BeginRefresh
<1>9. DryTyped'
  BY DEF TypeInv, DryTyped, BeginRun, BeginDestroy, BeginRefresh
<1> QED
  BY <1>5, <1>6, <1>7, <1>8, <1>9 DEF TypeInv

LEMMA ReceiveTypes ==
  ASSUME TypeInv, NEW h \in Handler, NEW r \in Resource, NEW in \in Input,
         Receive(h, r, in)
  PROVE  TypeInv'
<1> DEFINE u == UrnOf[r]
           old == prior[u]
           new == handlers'[h]
<1>1. u \in Urn /\ old \in Entry \cup {None}
  BY EngineAssumption DEF TypeInv, TypeOK, Table
<1>2. PriorId(old) \in Id \cup {None}
  BY <1>1 DEF PriorId, Entry
<1>3. /\ new.pc \in {"call", "register"} /\ new.res = r /\ new.inputs = in
      /\ new.id = PriorId(old) /\ new.stale = FALSE /\ new \in HandlerState
  BY <1>2 DEF TypeInv, TypeOK, Receive, GetPriorResource, HandlerState
<1>4. \A g \in Handler \ {h} : handlers'[g] = handlers[g]
  BY DEF TypeInv, TypeOK, Receive
<1>5. handlers' \in [Handler -> HandlerState]
  BY <1>3 DEF TypeInv, TypeOK, Receive, GetPriorResource
<1>6. TypeOK'
  <2>1. asked' \subseteq Resource
    BY DEF TypeInv, TypeOK, Receive
  <2> QED
    BY <1>5, <2>1 DEF TypeInv, TypeOK, Receive, world
<1>7. TasksTyped'
  BY <1>3, <1>4 DEF TypeInv, TasksTyped
<1>8. new.pc = "register" /\ u \notin Component /\ ~dry => new.id \in Id
  <2> SUFFICES ASSUME new.pc = "register", u \notin Component, ~dry
               PROVE  new.id \in Id
    OBVIOUS
  <2>1. ~CallsProvider(u, DiffResource(old, in))
    BY DEF TypeInv, TypeOK, Receive, GetPriorResource
  <2>2. old # None
    BY <2>1 DEF CallsProvider, DiffResource
  <2> QED
    BY <1>1, <1>3, <2>2 DEF TypeInv, TablesTyped, CustomHasId, PriorId
<1>9. TablesTyped'
  BY <1>3, <1>4, <1>8 DEF TypeInv, TablesTyped, CustomHasId, Receive
<1>10. ObjectsTyped' /\ WalkTyped' /\ DryTyped'
  BY DEF TypeInv, ObjectsTyped, WalkTyped, ListInTable, DryTyped, Receive, world
<1> QED
  BY <1>6, <1>7, <1>9, <1>10 DEF TypeInv

(* What a step of one task that writes neither memory nor file preserves.  *)
LEMMA TaskStepTypes ==
  ASSUME TypeInv, NEW h \in Handler, NEW new,
         handlers' = [handlers EXCEPT ![h] = new], new \in HandlerState,
         new.pc # "idle" => new.res \in Resource /\ new.inputs \in Input,
         new.pc = "applied" => new.id \in Id,
         new.pc # "register",
         cloud' \in [Id -> {"unused", "live", "gone"}],
         props' \in [Id -> Input \cup {None}],
         mishap' \in [Id -> SUBSET Mishap],
         ObjectsTyped',
         UNCHANGED <<checkpoint, phase, volatile, pending, ops>>
  PROVE  TypeInv'
<1>1. \A g \in Handler : handlers'[g] = IF g = h THEN new ELSE handlers[g]
  BY DEF TypeInv, TypeOK
<1>2. handlers' \in [Handler -> HandlerState]
  BY DEF TypeInv, TypeOK
<1>3. TypeOK'
  BY <1>2 DEF TypeInv, TypeOK, volatile
<1>4. TasksTyped'
  BY <1>1 DEF TypeInv, TasksTyped
<1>5. TablesTyped'
  BY <1>1 DEF TypeInv, TablesTyped, CustomHasId, volatile
<1>6. WalkTyped' /\ DryTyped'
  BY DEF TypeInv, WalkTyped, ListInTable, DryTyped, volatile
<1> QED
  BY <1>3, <1>4, <1>5, <1>6 DEF TypeInv

LEMMA CallTypes ==
  ASSUME TypeInv, NEW h \in Handler,
         (\E i \in Id : ProviderCreates(h, i)) \/ ProviderUpdates(h)
           \/ CallFails(h) \/ Drop(h)
  PROVE  TypeInv'
<1>1. handlers[h] \in HandlerState
  BY DEF TypeInv, TypeOK
<1>2. ASSUME NEW i \in Id, ProviderCreates(h, i) PROVE TypeInv'
  <2> DEFINE new == [handlers[h] EXCEPT !.pc = "applied", !.id = i]
  <2>1. handlers' = [handlers EXCEPT ![h] = new]
    BY <1>2 DEF ProviderCreates, TypeInv, TypeOK, HandlerState
  <2>2. new \in HandlerState /\ new.pc = "applied" /\ new.id = i
        /\ new.res = handlers[h].res /\ new.inputs = handlers[h].inputs
    BY <1>1 DEF HandlerState
  <2>3. handlers[h].res \in Resource /\ handlers[h].inputs \in Input
    BY <1>2 DEF ProviderCreates, TypeInv, TasksTyped
  <2>4. ObjectsTyped'
    BY <1>2, <2>3 DEF ProviderCreates, TypeInv, TypeOK, ObjectsTyped
  <2>5. /\ cloud' \in [Id -> {"unused", "live", "gone"}]
        /\ props' \in [Id -> Input \cup {None}]
        /\ mishap' \in [Id -> SUBSET Mishap]
        /\ UNCHANGED <<checkpoint, phase, volatile, pending, ops>>
    BY <1>2, <2>3 DEF ProviderCreates, TypeInv, TypeOK
  <2> HIDE DEF new
  <2> QED
    BY <2>1, <2>2, <2>3, <2>4, <2>5, TaskStepTypes
<1>3. ASSUME ProviderUpdates(h) PROVE TypeInv'
  <2> DEFINE i == handlers[h].id
             new == [handlers[h] EXCEPT !.pc = "applied"]
  <2>1. handlers' = [handlers EXCEPT ![h] = new]
    BY <1>3 DEF ProviderUpdates, TypeInv, TypeOK, HandlerState
  <2>2. i \in Id
    BY <1>1, <1>3 DEF ProviderUpdates, HandlerState
  <2>3. new \in HandlerState /\ new.pc = "applied" /\ new.id = i
        /\ new.res = handlers[h].res /\ new.inputs = handlers[h].inputs
    BY <1>1 DEF HandlerState
  <2>4. handlers[h].res \in Resource /\ handlers[h].inputs \in Input
    BY <1>3 DEF ProviderUpdates, TypeInv, TasksTyped
  <2>5. ObjectsTyped'
    BY <1>3, <2>4 DEF ProviderUpdates, TypeInv, TypeOK, ObjectsTyped
  <2>6. /\ cloud' \in [Id -> {"unused", "live", "gone"}]
        /\ props' \in [Id -> Input \cup {None}]
        /\ mishap' \in [Id -> SUBSET Mishap]
        /\ UNCHANGED <<checkpoint, phase, volatile, pending, ops>>
    BY <1>3, <2>4 DEF ProviderUpdates, TypeInv, TypeOK
  <2> HIDE DEF new, i
  <2> QED
    BY <2>1, <2>2, <2>3, <2>4, <2>5, <2>6, TaskStepTypes
<1>4. ASSUME CallFails(h) \/ Drop(h) PROVE TypeInv'
  <2>1. handlers' = [handlers EXCEPT ![h] = Idle] /\ Idle.pc = "idle"
    BY <1>4 DEF CallFails, Drop, Idle
  <2>2. mishap' \in [Id -> SUBSET Mishap]
    BY <1>4, HitTypes DEF CallFails, Drop, TypeInv, TypeOK, Mishap
  <2>3. ObjectsTyped'
    BY <1>4 DEF CallFails, Drop, TypeInv, ObjectsTyped, world
  <2>4. /\ cloud' \in [Id -> {"unused", "live", "gone"}]
        /\ props' \in [Id -> Input \cup {None}]
        /\ UNCHANGED <<checkpoint, phase, volatile, pending, ops>>
    BY <1>4 DEF CallFails, Drop, TypeInv, TypeOK, world
  <2> QED
    BY <2>1, <2>2, <2>3, <2>4, Constants, TaskStepTypes
<1> QED
  BY <1>2, <1>3, <1>4

LEMMA RegisterTypes ==
  ASSUME TypeInv, NEW h \in Handler, Register(h)
  PROVE  TypeInv'
<1> DEFINE hs == handlers[h]
           u == UrnOf[hs.res]
           parent == ParentOf[hs.res]
           new == [id |-> hs.id, inputs |-> hs.inputs,
                   parent |-> IF parent = None THEN None ELSE UrnOf[parent],
                   outputs |-> IF hs.pc = "applied" THEN "provider" ELSE "program"]
<1>1. hs \in HandlerState /\ hs.pc \in {"applied", "register"} /\ ~hs.stale
  BY DEF Register, TypeInv, TypeOK
<1>2. hs.res \in Resource /\ hs.inputs \in Input /\ hs.id \in Id \cup {None}
  BY <1>1 DEF TypeInv, TasksTyped, HandlerState
<1>3. u \in Urn /\ (parent = None \/ UrnOf[parent] \in Urn)
  BY <1>2, EngineAssumption
<1>4. new \in Entry /\ new # None
  <2>1. new \in Entry
    BY <1>2, <1>3 DEF Entry
  <2> QED
    BY <2>1, EngineAssumption
<1>5. resources' = [resources EXCEPT ![u] = new]
  BY DEF Register
<1>6. resources' \in Table /\ \A v \in Urn : resources'[v] = IF v = u THEN new ELSE resources[v]
  BY <1>3, <1>4, <1>5 DEF TypeInv, TypeOK, Table
<1>7. order' \in Seq(Urn)
      /\ order' \in {order, Append(order, u)}
  BY <1>3 DEF Register, PushUrn, TypeInv, TypeOK
<1>8. ListInTable(order', resources')
  <2> HIDE DEF new, u
  <2>1. CASE order' = order
    <3>1. \A k \in 1..Len(order) : order[k] \in Urn /\ resources[order[k]] # None
      BY DEF TypeInv, TypeOK, WalkTyped, ListInTable
    <3> QED
      BY <1>4, <1>6, <2>1, <3>1 DEF ListInTable
  <2>2. CASE order' = Append(order, u)
    BY <1>3, <1>4, <1>6, <2>2 DEF TypeInv, TypeOK, WalkTyped, ListInTable
  <2> QED
    BY <1>7, <2>1, <2>2
<1>9. \A g \in Handler : handlers'[g] = IF g = h THEN Idle ELSE handlers[g]
  BY DEF Register, TypeInv, TypeOK
<1>10. handlers' \in [Handler -> HandlerState] /\ Idle.pc = "idle"
  BY Constants DEF Register, TypeInv, TypeOK, Idle
<1>11. mishap' \in [Id -> SUBSET Mishap]
  BY DEF Register, TypeInv, TypeOK, Mishap
<1>12. TypeOK'
  BY <1>6, <1>7, <1>10, <1>11 DEF Register, TypeInv, TypeOK, world
<1>13. TasksTyped' /\ ObjectsTyped' /\ DryTyped'
  BY <1>9, <1>10 DEF Register, TypeInv, TasksTyped, ObjectsTyped, DryTyped, world
<1>14. ~dry /\ u \notin Component => new.id \in Id
  BY <1>1 DEF TypeInv, TasksTyped, TablesTyped
<1>15. TablesTyped'
  <2>1. ~dry => CustomHasId(resources')
    BY <1>6, <1>14 DEF TypeInv, TablesTyped, CustomHasId
  <2> QED
    BY <2>1, <1>9, <1>10 DEF Register, TypeInv, TablesTyped, CustomHasId
<1>16. WalkTyped'
  BY <1>8 DEF Register, TypeInv, WalkTyped, ListInTable
<1> QED
  BY <1>12, <1>13, <1>15, <1>16 DEF TypeInv

(* What the end of a run preserves, whether or not it wrote the file.      *)
LEMMA EndTypes ==
  ASSUME TypeInv, EndRun,
         checkpoint' \in [status : {"absent", "valid", "torn"}, saved : Saved],
         CustomHasId(checkpoint'.saved.table),
         ListInTable(checkpoint'.saved.order, checkpoint'.saved.table),
         mishap' \in [Id -> SUBSET Mishap],
         UNCHANGED <<world, ops>>
  PROVE  TypeInv'
<1>1. TypeOK'
  <2>1. toDelete' \subseteq Urn /\ asked' \subseteq Resource /\ dry' \in BOOLEAN
    BY DEF EndRun
  <2>2. order' \in Seq(Urn) /\ todo' \in Seq(Urn)
    BY EndRunTypes
  <2> QED
    BY <2>1, <2>2, EndRunTypes DEF TypeInv, TypeOK, world
<1>2. TasksTyped' /\ ObjectsTyped' /\ DryTyped'
  BY EndRunTypes DEF TypeInv, ObjectsTyped, DryTyped, world
<1>3. TablesTyped' /\ WalkTyped'
  BY EndRunTypes DEF TablesTyped, CustomHasId, WalkTyped, ListInTable
<1> QED
  BY <1>1, <1>2, <1>3 DEF TypeInv

LEMMA EndingTypes ==
  ASSUME TypeInv, ProgramFails \/ EndPreview \/ SaveFails \/ EndSave \/ Crash
  PROVE  TypeInv'
<1>1. EndRun /\ UNCHANGED <<world, ops>>
  BY DEF ProgramFails, EndPreview, SaveFails, EndSave, Crash, world
<1>2. mishap' \in [Id -> SUBSET Mishap]
  BY HitTypes DEF ProgramFails, EndPreview, SaveFails, EndSave, Crash, Mishap,
                  TypeInv, TypeOK
<1>3. /\ checkpoint' \in [status : {"absent", "valid", "torn"}, saved : Saved]
      /\ CustomHasId(checkpoint'.saved.table)
      /\ ListInTable(checkpoint'.saved.order, checkpoint'.saved.table)
  <2>1. CASE UNCHANGED checkpoint
    BY <2>1 DEF TypeInv, TypeOK, TablesTyped, WalkTyped
  <2>2. CASE checkpoint' = [status |-> "valid", saved |-> pending]
    BY <2>2 DEF TypeInv, TypeOK, TablesTyped, WalkTyped
  <2> QED
    BY <2>1, <2>2 DEF ProgramFails, EndPreview, SaveFails, EndSave, Crash
<1> QED
  BY <1>1, <1>2, <1>3, EndTypes

(* One turn of a loop that may delete one object at the provider.          *)
LEMMA DeleteObjectTypes ==
  ASSUME TypeInv, NEW i,
         DeleteObject(i) \/ UNCHANGED <<cloud, mishap>>,
         UNCHANGED props
  PROVE  /\ cloud' \in [Id -> {"unused", "live", "gone"}]
         /\ mishap' \in [Id -> SUBSET Mishap]
         /\ ObjectsTyped'
<1>1. mishap' \in [Id -> SUBSET Mishap]
  BY HitTypes DEF DeleteObject, TypeInv, TypeOK, Mishap
<1>2. /\ cloud' \in [Id -> {"unused", "live", "gone"}]
      /\ \A j \in Id : cloud'[j] = "live" => cloud[j] = "live"
  BY DEF DeleteObject, TypeInv, TypeOK
<1> QED
  BY <1>1, <1>2 DEF TypeInv, ObjectsTyped

LEMMA LoopTypes ==
  ASSUME TypeInv, ProgramSucceeds \/ (\E u \in Urn : DeleteUrn(u)) \/ DestroyEntry
  PROVE  TypeInv'
<1>1. ASSUME ProgramSucceeds PROVE TypeInv'
  <2>1. DeletedUrns \subseteq Urn
    BY DEF DeletedUrns, Domain
  <2> QED
    BY <1>1, <2>1 DEF ProgramSucceeds, TypeInv, TypeOK, TasksTyped, ObjectsTyped,
       TablesTyped, CustomHasId, WalkTyped, ListInTable, DryTyped, world
<1>2. ASSUME NEW u \in Urn, DeleteUrn(u) PROVE TypeInv'
  <2>1. DeleteObject(prior[u].id) \/ UNCHANGED <<cloud, mishap>>
    BY <1>2 DEF DeleteUrn
  <2>2. /\ cloud' \in [Id -> {"unused", "live", "gone"}]
        /\ mishap' \in [Id -> SUBSET Mishap]
        /\ ObjectsTyped'
    BY <1>2, <2>1, DeleteObjectTypes DEF DeleteUrn
  <2>3. TypeOK'
    BY <1>2, <2>2 DEF DeleteUrn, TypeInv, TypeOK
  <2> QED
    BY <1>2, <2>2, <2>3 DEF DeleteUrn, TypeInv, TasksTyped, TablesTyped,
       CustomHasId, WalkTyped, ListInTable, DryTyped
<1>3. ASSUME DestroyEntry PROVE TypeInv'
  <2>1. /\ \/ DeleteObject(prior[todo[Len(todo)]].id)
           \/ UNCHANGED <<cloud, mishap>>
        /\ phase = "destroy" /\ todo # <<>>
        /\ todo' = SubSeq(todo, 1, Len(todo) - 1)
        /\ UNCHANGED <<checkpoint, props, phase, dry, prior, resources, order,
                       toDelete, pending, handlers, asked, ops>>
    BY <1>3 DEF DestroyEntry
  <2>2. /\ cloud' \in [Id -> {"unused", "live", "gone"}]
        /\ mishap' \in [Id -> SUBSET Mishap]
        /\ ObjectsTyped'
    BY <2>1, DeleteObjectTypes
  <2>3. todo' \in Seq(Urn) /\ ListInTable(todo', prior)
    BY <2>1 DEF TypeInv, TypeOK, WalkTyped, ListInTable
  <2>4. TypeOK'
    BY <2>1, <2>2, <2>3 DEF TypeInv, TypeOK
  <2> QED
    BY <2>1, <2>2, <2>3, <2>4 DEF TypeInv, TasksTyped, TablesTyped,
       CustomHasId, WalkTyped, ListInTable, DryTyped
<1> QED
  BY <1>1, <1>2, <1>3

(* What a turn of refresh's loop does to the memory: nothing, if the object *)
(* it visits is gone, or an entry with the id and the parent of the one it *)
(* visits and with its inputs or the live ones.                            *)
LEMMA RefreshStep ==
  ASSUME TypeInv, RefreshEntry
  PROVE  /\ todo[1] \in Urn /\ prior[todo[1]] \in Entry
         /\ prior[todo[1]] # None
         /\ todo[1] \notin Component => prior[todo[1]].id \in Id
         /\ \/ /\ UNCHANGED <<resources, order>>
               /\ todo[1] \notin Component
               /\ cloud[prior[todo[1]].id] = "gone"
            \/ \E e \in Entry :
                 /\ e.id = prior[todo[1]].id
                 /\ e.parent = prior[todo[1]].parent
                 /\ e.inputs \in {prior[todo[1]].inputs, props[prior[todo[1]].id]}
                 /\ resources' = [resources EXCEPT ![todo[1]] = e]
                 /\ order' = Append(order, todo[1])
<1> DEFINE u == todo[1]
           old == prior[u]
           Keep(e) == /\ resources' = [resources EXCEPT ![u] = e]
                      /\ order' = Append(order, u)
           Follows(e) == /\ e.id = old.id /\ e.parent = old.parent
                         /\ e.inputs \in {old.inputs, props[old.id]}
<1>1. todo # <<>>
  BY DEF RefreshEntry
<1>2. u \in Urn /\ old \in Entry /\ old # None
      /\ (u \notin Component => old.id \in Id)
  BY <1>1, EngineAssumption
     DEF TypeInv, TypeOK, Table, WalkTyped, ListInTable, TablesTyped, CustomHasId
<1>3. \/ UNCHANGED <<resources, order>> /\ u \notin Component /\ cloud[old.id] = "gone"
      \/ \E e \in Entry : Follows(e) /\ Keep(e)
  <2>1. CASE Keep(old)
    BY <1>2, <2>1
  <2>2. ASSUME u \notin Component, cloud[old.id] = "live",
               NEW in \in {old.inputs, props[old.id]},
               NEW out \in {old.outputs, "provider"},
               Keep([old EXCEPT !.inputs = in, !.outputs = out])
        PROVE  \E e \in Entry : Follows(e) /\ Keep(e)
    <3>1. in \in Input
      BY <1>2, <2>2 DEF TypeInv, ObjectsTyped, Entry
    <3>2. [old EXCEPT !.inputs = in, !.outputs = out] \in Entry
          /\ Follows([old EXCEPT !.inputs = in, !.outputs = out])
      BY <1>2, <3>1 DEF Entry
    <3> QED
      BY <2>2, <3>2
  <2> QED
    BY <2>1, <2>2 DEF RefreshEntry
<1> QED
  BY <1>2, <1>3

LEMMA RefreshTypes ==
  ASSUME TypeInv, RefreshEntry
  PROVE  TypeInv'
<1> DEFINE u == todo[1]
           old == prior[u]
           Keep(e) == /\ resources' = [resources EXCEPT ![u] = e]
                      /\ order' = Append(order, u)
<1>1. /\ phase = "refresh" /\ todo # <<>> /\ todo' = Tail(todo)
      /\ UNCHANGED <<checkpoint, world, phase, dry, prior, toDelete, pending,
                     handlers, asked, ops, mishap>>
  BY DEF RefreshEntry
<1>2. u \in Urn /\ old \in Entry /\ old # None
      /\ (u \notin Component => old.id \in Id)
  BY RefreshStep
<1>3. \/ UNCHANGED <<resources, order>>
      \/ \E e \in Entry : e.id = old.id /\ Keep(e)
  BY RefreshStep
<1>4. todo' \in Seq(Urn) /\ ListInTable(todo', prior)
  BY <1>1 DEF TypeInv, TypeOK, WalkTyped, ListInTable
<1>5. CASE UNCHANGED <<resources, order>>
  BY <1>1, <1>4, <1>5 DEF TypeInv, TypeOK, TasksTyped, ObjectsTyped, TablesTyped,
     CustomHasId, WalkTyped, ListInTable, DryTyped, world
<1>6. ASSUME NEW e \in Entry, e.id = old.id, Keep(e) PROVE TypeInv'
  <2>1. resources' \in Table /\ order' \in Seq(Urn) /\ e # None
    BY <1>2, <1>6, EngineAssumption DEF TypeInv, TypeOK, Table
  <2>2. \A v \in Urn : resources'[v] = IF v = u THEN e ELSE resources[v]
    BY <1>2, <1>6 DEF TypeInv, TypeOK, Table
  <2>3. ListInTable(order', resources')
    BY <1>2, <1>6, <2>1, <2>2 DEF TypeInv, TypeOK, WalkTyped, ListInTable
  <2>4. ~dry => CustomHasId(resources')
    BY <1>2, <1>6, <2>2 DEF TypeInv, TablesTyped, CustomHasId
  <2>5. TypeOK'
    BY <1>1, <1>4, <2>1 DEF TypeInv, TypeOK, world
  <2>6. TablesTyped'
    BY <1>1, <2>4 DEF TypeInv, TablesTyped, CustomHasId
  <2>7. WalkTyped'
    BY <1>1, <1>4, <2>3 DEF TypeInv, WalkTyped, ListInTable
  <2> QED
    BY <1>1, <2>5, <2>6, <2>7 DEF TypeInv, TasksTyped, ObjectsTyped, DryTyped, world
<1> QED
  BY <1>3, <1>5, <1>6

LEMMA BeginSaveTypes ==
  ASSUME TypeInv, BeginSave
  PROVE  TypeInv'
<1>1. pending' \in Saved
  BY DEF BeginSave, TypeInv, TypeOK, Saved
<1>2. checkpoint' \in [status : {"absent", "valid", "torn"}, saved : Saved]
  BY Constants DEF BeginSave
<1>3. phase' = "save" /\ ~dry /\ todo = <<>>
  BY DEF BeginSave, ReadyToSave, TypeInv, DryTyped, WalkTyped
<1>4. TypeOK'
  BY <1>1, <1>2, <1>3 DEF BeginSave, TypeInv, TypeOK, volatile, world
<1>5. TasksTyped' /\ ObjectsTyped' /\ DryTyped'
  BY <1>3 DEF BeginSave, TypeInv, TasksTyped, ObjectsTyped, DryTyped, volatile, world
<1>6. CustomHasId(pending'.table) /\ ListInTable(pending'.order, pending'.table)
  BY <1>3 DEF BeginSave, TypeInv, TablesTyped, WalkTyped
<1>7. CustomHasId(NoTable)
  BY DEF CustomHasId, NoTable
<1>8. TablesTyped'
  BY <1>6, <1>7 DEF BeginSave, TypeInv, TablesTyped, CustomHasId, volatile, NoSaved
<1>9. WalkTyped'
  BY <1>3, <1>6 DEF BeginSave, TypeInv, WalkTyped, ListInTable, volatile, NoSaved
<1> QED
  BY <1>4, <1>5, <1>8, <1>9 DEF TypeInv

LEMMA OutOfBandTypes ==
  ASSUME TypeInv, NEW i \in Id, OutOfBand(i)
  PROVE  TypeInv'
<1>1. mishap' \in [Id -> SUBSET Mishap]
  BY HitTypes DEF OutOfBand, Mishap
<1>2. /\ cloud' \in [Id -> {"unused", "live", "gone"}]
      /\ props' \in [Id -> Input \cup {None}]
      /\ ObjectsTyped'
  BY DEF OutOfBand, TypeInv, TypeOK, ObjectsTyped
<1>3. TypeOK'
  BY <1>1, <1>2 DEF OutOfBand, TypeInv, TypeOK, volatile
<1> QED
  BY <1>2, <1>3 DEF OutOfBand, TypeInv, TasksTyped, TablesTyped, CustomHasId,
     WalkTyped, ListInTable, DryTyped, volatile

(* The typing invariant is inductive.                                      *)
THEOREM NextTypeInv == TypeInv /\ [Next]_vars => TypeInv'
<1> SUFFICES ASSUME TypeInv, [Next]_vars PROVE TypeInv'
  OBVIOUS
<1>1. CASE UNCHANGED vars
  BY <1>1 DEF vars, TypeInv, TypeOK, TasksTyped, ObjectsTyped, TablesTyped,
     CustomHasId, WalkTyped, ListInTable, DryTyped
<1>2. CASE (\E preview \in BOOLEAN : BeginRun(preview)) \/ BeginDestroy \/ BeginRefresh
  BY <1>2, BeginTypes
<1>3. CASE \E h \in Handler, r \in Resource, in \in Input : Receive(h, r, in)
  BY <1>3, ReceiveTypes
<1>4. CASE \E h \in Handler : HandlerStep(h)
  BY <1>4, CallTypes, RegisterTypes DEF HandlerStep
<1>5. CASE EngineStep
  BY <1>5, LoopTypes, EndingTypes, RefreshTypes, BeginSaveTypes DEF EngineStep
<1>6. CASE ProgramFails \/ SaveFails \/ Crash
  BY <1>6, EndingTypes
<1>7. CASE \E i \in Id : OutOfBand(i)
  BY <1>7, OutOfBandTypes
<1> QED
  BY <1>1, <1>2, <1>3, <1>4, <1>5, <1>6, <1>7 DEF Next

(* Whatever the faults, every table and file of the engine keeps its shape.*)
THEOREM SpecTypeInv == Spec => []TypeInv
<1> QED
  BY InitTypeInv, NextTypeInv, PTL DEF Spec

THEOREM SpecTypeOK == Spec => []TypeOK
<1>1. TypeInv => TypeOK
  BY DEF TypeInv
<1> QED
  BY <1>1, SpecTypeInv, PTL

-----------------------------------------------------------------------------
(* Ownership is inductive: a step hands ids from one place to another of   *)
(* the same URN, and only the provider introduces one.                     *)

LEMMA HandingOn ==
  ASSUME Ownership,
         \A i \in Id : cloud[i] # "unused" => cloud'[i] # "unused",
         \A u \in Urn, i \in Id : Owns(u, i)' => Owns(u, i)
  PROVE  Ownership'
<1> HIDE DEF Owns
<1>1. ASSUME NEW u \in Urn, NEW i \in Id, Owns(u, i)'
      PROVE  cloud'[i] # "unused" /\ \A v \in Urn : Owns(v, i)' => u = v
  BY <1>1 DEF Ownership
<1> QED
  BY <1>1 DEF Ownership

LEMMA NobodyOwnsNone ==
  ASSUME TypeInv
  PROVE  None \notin Id /\ NoTable = [u \in Urn |-> None]
BY EngineAssumption DEF NoTable

LEMMA EndRunOwns ==
  ASSUME TypeInv, EndRun, NEW u \in Urn, NEW i \in Id, Owns(u, i)'
  PROVE  In(checkpoint'.saved.table, u, i) \/ Owns(u, i)
<1>1. /\ prior' = NoTable /\ resources' = NoTable /\ pending'.table = NoTable
  BY DEF EndRun, NoSaved
<1>2. ~In(NoTable, u, i)
  BY DEF In, NoTable
<1>3. HeldFor(u, i)' => HeldFor(u, i)
  BY DEF EndRun, HeldFor, TypeInv, TypeOK, HandlerState
<1> QED
  BY <1>1, <1>2, <1>3 DEF Owns, In

THEOREM InitOwnership == Init => Ownership
<1> SUFFICES ASSUME Init PROVE Ownership
  OBVIOUS
<1>1. ASSUME NEW u \in Urn, NEW i \in Id PROVE ~Owns(u, i)
  BY DEF Init, Owns, In, HeldFor, NoTable, NoSaved, Idle
<1> QED
  BY <1>1 DEF Ownership

LEMMA BeginOwnership ==
  ASSUME TypeInv, Ownership,
         (\E preview \in BOOLEAN : BeginRun(preview)) \/ BeginDestroy
           \/ BeginRefresh
  PROVE  Ownership'
<1>1. /\ prior' = checkpoint.saved.table
      /\ UNCHANGED <<checkpoint, cloud, resources, pending, handlers>>
  BY DEF BeginRun, BeginDestroy, BeginRefresh, world
<1>2. \A u \in Urn, i \in Id : Owns(u, i)' => Owns(u, i)
  BY <1>1 DEF Owns, In, HeldFor
<1> QED
  BY <1>1, <1>2, HandingOn

LEMMA ReceiveOwnership ==
  ASSUME TypeInv, Ownership,
         NEW h \in Handler, NEW r \in Resource, NEW in \in Input, Receive(h, r, in)
  PROVE  Ownership'
<1>1. UNCHANGED <<checkpoint, cloud, prior, resources, pending>>
  BY DEF Receive, world
<1>2. \A g \in Handler : handlers'[g] # handlers[g] =>
         handlers'[g].res = r /\ handlers'[g].id = PriorId(prior[UrnOf[r]])
  BY DEF Receive, TypeInv, TypeOK, GetPriorResource
<1>3. ASSUME NEW u \in Urn, NEW i \in Id, HeldFor(u, i)' PROVE Owns(u, i)
  <2>1. PICK g \in Handler : /\ handlers'[g].pc # "idle"
                             /\ UrnOf[handlers'[g].res] = u
                             /\ handlers'[g].id = i
    BY <1>3 DEF HeldFor
  <2>2. CASE handlers'[g] = handlers[g]
    BY <2>1, <2>2 DEF HeldFor, Owns
  <2>3. CASE handlers'[g] # handlers[g]
    BY <1>2, <2>1, <2>3, NobodyOwnsNone DEF PriorId, Owns, In
  <2> QED
    BY <2>2, <2>3
<1>4. \A u \in Urn, i \in Id : Owns(u, i)' => Owns(u, i)
  BY <1>1, <1>3 DEF Owns, In
<1> QED
  BY <1>1, <1>4, HandingOn

LEMMA CreateOwnership ==
  ASSUME TypeInv, Ownership,
         NEW h \in Handler, NEW n \in Id, ProviderCreates(h, n)
  PROVE  Ownership'
<1> DEFINE w == UrnOf[handlers[h].res]
<1>1. UNCHANGED <<checkpoint, prior, resources, pending>>
  BY DEF ProviderCreates, volatile
<1>2. /\ cloud[n] = "unused" /\ cloud'[n] = "live"
      /\ \A i \in Id : i # n => cloud'[i] = cloud[i]
  BY DEF ProviderCreates, TypeInv, TypeOK
<1>3. /\ handlers'[h].res = handlers[h].res /\ handlers'[h].id = n
      /\ \A g \in Handler : g # h => handlers'[g] = handlers[g]
  BY DEF ProviderCreates, TypeInv, TypeOK, HandlerState
<1>4. \A u \in Urn : ~Owns(u, n)
  BY <1>2 DEF Ownership
<1>5. \A u \in Urn, i \in Id : Owns(u, i)' => Owns(u, i) \/ (u = w /\ i = n)
  BY <1>1, <1>3 DEF Owns, In, HeldFor
<1> HIDE DEF w
<1>6. ASSUME NEW u \in Urn, NEW i \in Id, Owns(u, i)'
      PROVE  cloud'[i] # "unused" /\ \A v \in Urn : Owns(v, i)' => u = v
  <2>1. CASE i = n
    BY <1>2, <1>4, <1>5, <1>6, <2>1
  <2>2. CASE i # n
    BY <1>2, <1>5, <1>6, <2>2 DEF Ownership
  <2> QED
    BY <2>1, <2>2
<1> QED
  BY <1>6 DEF Ownership

LEMMA TaskOwnership ==
  ASSUME TypeInv, Ownership, NEW h \in Handler,
         ProviderUpdates(h) \/ CallFails(h) \/ Register(h) \/ Drop(h)
  PROVE  Ownership'
<1>1. UNCHANGED <<checkpoint, cloud, prior, pending>>
  BY DEF ProviderUpdates, CallFails, Register, Drop, volatile, world
<1>2. \A u \in Urn, i \in Id : HeldFor(u, i)' => HeldFor(u, i)
  <2>1. \A g \in Handler :
          \/ handlers'[g].pc = "idle"
          \/ /\ handlers[g].pc # "idle"
             /\ handlers'[g].res = handlers[g].res
             /\ handlers'[g].id = handlers[g].id
    <3>1. CASE ProviderUpdates(h)
      BY <3>1 DEF ProviderUpdates, TypeInv, TypeOK, HandlerState
    <3>2. CASE handlers' = [handlers EXCEPT ![h] = Idle]
      BY <3>2 DEF Idle, TypeInv, TypeOK, HandlerState
    <3> QED
      BY <3>1, <3>2 DEF CallFails, Register, Drop
  <2> QED
    BY <2>1 DEF HeldFor
<1>3. CASE UNCHANGED resources
  <2>1. \A u \in Urn, i \in Id : Owns(u, i)' => Owns(u, i)
    BY <1>1, <1>2, <1>3 DEF Owns, In
  <2> QED
    BY <1>1, <2>1, HandingOn
<1>4. CASE Register(h)
  <2>1. UrnOf[handlers[h].res] \in Urn /\ handlers[h].pc # "idle"
    BY <1>4, EngineAssumption DEF Register, TypeInv, TasksTyped
  <2>2. ASSUME NEW u \in Urn, NEW i \in Id, In(resources', u, i)
        PROVE  Owns(u, i)
    <3>1. CASE u = UrnOf[handlers[h].res]
      <4>1. resources'[u].id = handlers[h].id
        BY <1>4, <2>1, <3>1 DEF Register, TypeInv, TypeOK, Table
      <4> QED
        BY <2>1, <2>2, <3>1, <4>1 DEF Owns, In, HeldFor
    <3>2. CASE u # UrnOf[handlers[h].res]
      <4>1. resources'[u] = resources[u]
        BY <1>4, <2>1, <3>2 DEF Register, TypeInv, TypeOK, Table
      <4> QED
        BY <2>2, <4>1 DEF Owns, In
    <3> QED
      BY <3>1, <3>2
  <2>3. \A u \in Urn, i \in Id : Owns(u, i)' => Owns(u, i)
    BY <1>1, <1>2, <2>2 DEF Owns, In
  <2> QED
    BY <1>1, <2>3, HandingOn
<1> QED
  BY <1>3, <1>4 DEF ProviderUpdates, CallFails, Drop, volatile

LEMMA EndOwnership ==
  ASSUME TypeInv, Ownership,
         ProgramFails \/ EndPreview \/ SaveFails \/ EndSave \/ Crash
  PROVE  Ownership'
<1>1. EndRun /\ UNCHANGED cloud
  BY DEF ProgramFails, EndPreview, SaveFails, EndSave, Crash, world
<1>2. checkpoint'.saved \in {checkpoint.saved, pending}
  BY DEF ProgramFails, EndPreview, SaveFails, EndSave, Crash
<1>3. \A u \in Urn, i \in Id : Owns(u, i)' => Owns(u, i)
  BY <1>1, <1>2, EndRunOwns DEF Owns
<1> QED
  BY <1>1, <1>3, HandingOn

LEMMA LoopOwnership ==
  ASSUME TypeInv, Ownership,
         ProgramSucceeds \/ (\E u \in Urn : DeleteUrn(u)) \/ DestroyEntry
           \/ (\E i \in Id : OutOfBand(i))
  PROVE  Ownership'
<1>1. UNCHANGED <<checkpoint, prior, resources, pending, handlers>>
  BY DEF ProgramSucceeds, DeleteUrn, DestroyEntry, OutOfBand, volatile
<1>2. \A i \in Id : cloud[i] # "unused" => cloud'[i] # "unused"
  BY DEF ProgramSucceeds, DeleteUrn, DestroyEntry, OutOfBand, DeleteObject,
         world, TypeInv, TypeOK
<1>3. \A u \in Urn, i \in Id : Owns(u, i)' => Owns(u, i)
  BY <1>1 DEF Owns, In, HeldFor
<1> QED
  BY <1>2, <1>3, HandingOn

LEMMA RefreshOwnership ==
  ASSUME TypeInv, Ownership, RefreshEntry
  PROVE  Ownership'
<1>1. UNCHANGED <<checkpoint, cloud, prior, pending, handlers>>
  BY DEF RefreshEntry, world
<1>2. ASSUME NEW u \in Urn, NEW i \in Id, In(resources', u, i)
      PROVE  In(resources, u, i) \/ In(prior, u, i)
  <2>1. \A v \in Urn : \/ resources'[v] = resources[v]
                       \/ /\ v = todo[1] /\ prior[v] # None
                          /\ resources'[v].id = prior[v].id
    BY RefreshStep DEF TypeInv, TypeOK, Table
  <2> QED
    BY <1>2, <2>1 DEF In
<1>3. \A u \in Urn, i \in Id : Owns(u, i)' => Owns(u, i)
  BY <1>1, <1>2 DEF Owns, In, HeldFor
<1> QED
  BY <1>1, <1>3, HandingOn

LEMMA BeginSaveOwnership ==
  ASSUME TypeInv, Ownership, BeginSave
  PROVE  Ownership'
<1>1. /\ UNCHANGED <<cloud, prior, resources, handlers>>
      /\ pending'.table = resources /\ checkpoint'.saved.table = NoTable
  BY DEF BeginSave, NoSaved, volatile, world
<1>2. \A u \in Urn, i \in Id : Owns(u, i)' => Owns(u, i)
  BY <1>1 DEF Owns, In, HeldFor, NoTable
<1> QED
  BY <1>1, <1>2, HandingOn

THEOREM NextOwnership == TypeInv /\ Ownership /\ [Next]_vars => Ownership'
<1> SUFFICES ASSUME TypeInv, Ownership, [Next]_vars PROVE Ownership'
  OBVIOUS
<1>1. CASE UNCHANGED vars
  <2>1. UNCHANGED cloud /\ \A u \in Urn, i \in Id : Owns(u, i)' => Owns(u, i)
    BY <1>1 DEF vars, Owns, In, HeldFor
  <2> QED
    BY <2>1, HandingOn
<1>2. CASE (\E preview \in BOOLEAN : BeginRun(preview)) \/ BeginDestroy \/ BeginRefresh
  BY <1>2, BeginOwnership
<1>3. CASE \E h \in Handler, r \in Resource, in \in Input : Receive(h, r, in)
  BY <1>3, ReceiveOwnership
<1>4. CASE \E h \in Handler : HandlerStep(h)
  BY <1>4, CreateOwnership, TaskOwnership DEF HandlerStep
<1>5. CASE EngineStep
  BY <1>5, LoopOwnership, EndOwnership, RefreshOwnership, BeginSaveOwnership
     DEF EngineStep
<1>6. CASE ProgramFails \/ SaveFails \/ Crash
  BY <1>6, EndOwnership
<1>7. CASE \E i \in Id : OutOfBand(i)
  BY <1>7, LoopOwnership
<1> QED
  BY <1>1, <1>2, <1>3, <1>4, <1>5, <1>6, <1>7 DEF Next

THEOREM SpecOwnership == Spec => []Ownership
<1> QED
  BY InitOwnership, NextOwnership, SpecTypeInv, PTL DEF Spec

(* Deleting one resource never takes away another one's object, whatever   *)
(* the program registers, whoever calls late and however operations end.   *)
THEOREM SpecOneUrnPerObject == Spec => []OneUrnPerObject
<1>1. TypeInv /\ Ownership => OneUrnPerObject
  <2> SUFFICES ASSUME TypeInv, Ownership,
                      NEW u \in Domain(checkpoint.saved.table) \ Component,
                      NEW v \in Domain(checkpoint.saved.table) \ Component,
                      checkpoint.saved.table[u].id = checkpoint.saved.table[v].id
               PROVE  u = v
    BY DEF OneUrnPerObject
  <2> DEFINE i == checkpoint.saved.table[u].id
  <2>1. u \in Urn /\ v \in Urn /\ i \in Id
    BY DEF Domain, TypeInv, TablesTyped, CustomHasId, OneUrnPerObject
  <2>2. Owns(u, i) /\ Owns(v, i)
    BY DEF Domain, Owns, In
  <2> QED
    BY <2>1, <2>2 DEF Ownership
<1> QED
  BY <1>1, SpecTypeInv, SpecOwnership, PTL

-----------------------------------------------------------------------------
(* What the memory of a run holds in each phase of an operation, and what  *)
(* follows from it: lists that match their tables, previews without        *)
(* effect, and the ledger.                                                 *)

(* A task of the run in progress.                                          *)
Running(h) == handlers[h].pc # "idle" /\ ~handlers[h].stale
UrnAt(h) == UrnOf[handlers[h].res]

(* Some entry of the table has the id.                                     *)
Has(t, i) == i # None /\ \E u \in Urn : In(t, u, i)

(* Between operations the memory is empty and no task belongs to a run;    *)
(* within one, until the file is truncated, prior is the checkpoint.       *)
MemoryMatchesPhase ==
  /\ checkpoint.status # "valid" => checkpoint.saved = NoSaved
  /\ phase = "idle" => prior = NoTable
  /\ phase \in {"idle", "destroy"} => resources = NoTable
  /\ phase \in {"program", "delete", "destroy", "refresh"} =>
       prior = checkpoint.saved.table
  /\ phase # "save" => pending = NoSaved
  /\ phase = "save" => checkpoint.status = "torn"
  /\ phase = "delete" => toDelete \subseteq Domain(prior)
  /\ phase \in {"idle", "destroy", "refresh"} => \A h \in Handler : ~Running(h)

(* A task, an entry of this run and one of the checkpoint being written    *)
(* carry the prior id of their URN.                                        *)
IdsFollowPrior ==
  /\ \A h \in Handler : Running(h) =>
       /\ prior[UrnAt(h)] # None => handlers[h].id = prior[UrnAt(h)].id
       /\ handlers[h].pc # "applied" => handlers[h].id = PriorId(prior[UrnAt(h)])
  /\ \A u \in Urn : resources[u] # None =>
       /\ prior[u] # None => resources[u].id = prior[u].id
       /\ resources[u].outputs = "program" => resources[u].id = PriorId(prior[u])
  /\ \A u \in Urn : pending.table[u] # None /\ prior[u] # None =>
       pending.table[u].id = prior[u].id

(* No provider is asked for a component, so nothing gives it an id.        *)
NoComponentId(t) == \A u \in Component : t[u] # None => t[u].id = None
ComponentsHaveNoId ==
  /\ NoComponentId(checkpoint.saved.table)
  /\ NoComponentId(prior)
  /\ NoComponentId(resources)
  /\ NoComponentId(pending.table)
  /\ \A h \in Handler : Running(h) /\ UrnAt(h) \in Component =>
       handlers[h].pc = "register"

(* A preview has no provider call in flight.                               *)
DryCallsNothing ==
  dry => /\ \A h \in Handler : Running(h) => handlers[h].pc = "register"
         /\ \A u \in Urn : resources[u] # None => resources[u].outputs = "program"

MemoryInv == /\ MemoryMatchesPhase
             /\ IdsFollowPrior
             /\ ComponentsHaveNoId
             /\ DryCallsNothing

THEOREM InitMemoryInv == Init => MemoryInv
<1> SUFFICES ASSUME Init PROVE MemoryInv
  OBVIOUS
<1>1. \A h \in Handler : ~Running(h)
  BY DEF Init, Running, Idle
<1>2. MemoryMatchesPhase
  BY <1>1 DEF Init, MemoryMatchesPhase
<1>3. \A u \in Urn : NoTable[u] = None
  BY DEF NoTable
<1>4. IdsFollowPrior /\ DryCallsNothing
  BY <1>1, <1>3 DEF Init, IdsFollowPrior, DryCallsNothing, NoSaved
<1>5. ComponentsHaveNoId
  BY <1>1, <1>3, EngineAssumption
     DEF Init, ComponentsHaveNoId, NoComponentId, NoSaved
<1> QED
  BY <1>2, <1>4, <1>5 DEF MemoryInv

LEMMA BeginMemory ==
  ASSUME TypeInv, MemoryInv,
         (\E preview \in BOOLEAN : BeginRun(preview)) \/ BeginDestroy
           \/ BeginRefresh
  PROVE  MemoryInv'
<1>1. /\ phase = "idle" /\ phase' \in {"program", "destroy", "refresh"}
      /\ prior' = checkpoint.saved.table
      /\ UNCHANGED <<checkpoint, resources, toDelete, pending, handlers>>
  BY DEF BeginRun, BeginDestroy, BeginRefresh
<1>2. resources = NoTable /\ pending = NoSaved /\ \A h \in Handler : ~Running(h)
  BY <1>1 DEF MemoryInv, MemoryMatchesPhase
<1>3. (\A h \in Handler : ~Running(h))' /\ \A u \in Urn : resources'[u] = None
  BY <1>1, <1>2 DEF Running, NoTable
<1>4. MemoryMatchesPhase'
  BY <1>1, <1>2, <1>3 DEF MemoryInv, MemoryMatchesPhase
<1>5. IdsFollowPrior' /\ DryCallsNothing'
  BY <1>1, <1>2, <1>3 DEF IdsFollowPrior, DryCallsNothing, NoSaved, NoTable
<1>6. ComponentsHaveNoId'
  BY <1>1, <1>3 DEF MemoryInv, ComponentsHaveNoId, NoComponentId
<1> QED
  BY <1>4, <1>5, <1>6 DEF MemoryInv

LEMMA ReceiveMemory ==
  ASSUME TypeInv, MemoryInv,
         NEW h \in Handler, NEW r \in Resource, NEW in \in Input, Receive(h, r, in)
  PROVE  MemoryInv'
<1> DEFINE u == UrnOf[r]
<1>1. /\ phase = "program"
      /\ UNCHANGED <<checkpoint, phase, prior, resources, toDelete, pending, dry>>
  BY DEF Receive
<1>2. /\ handlers'[h].res = r /\ handlers'[h].id = PriorId(prior[u])
      /\ handlers'[h].pc \in {"call", "register"}
      /\ dry \/ u \in Component => handlers'[h].pc = "register"
      /\ \A g \in Handler : g # h => handlers'[g] = handlers[g]
  BY DEF Receive, TypeInv, TypeOK, GetPriorResource, CallsProvider
<1>3. MemoryMatchesPhase'
  BY <1>1 DEF MemoryInv, MemoryMatchesPhase
<1>4. IdsFollowPrior'
  BY <1>1, <1>2 DEF MemoryInv, IdsFollowPrior, Running, UrnAt, PriorId
<1>5. ComponentsHaveNoId' /\ DryCallsNothing'
  BY <1>1, <1>2 DEF MemoryInv, ComponentsHaveNoId, NoComponentId,
                    DryCallsNothing, Running, UrnAt
<1> QED
  BY <1>3, <1>4, <1>5 DEF MemoryInv

(* What a step of one task that leaves the memory alone preserves.         *)
LEMMA TaskMemory ==
  ASSUME TypeInv, MemoryInv, NEW h \in Handler,
         (\E i \in Id : ProviderCreates(h, i)) \/ ProviderUpdates(h)
           \/ CallFails(h) \/ Drop(h)
  PROVE  MemoryInv'
<1>1. UNCHANGED <<checkpoint, phase, prior, resources, toDelete, pending, dry>>
  BY DEF ProviderCreates, ProviderUpdates, CallFails, Drop, volatile, world
<1>2. \A g \in Handler : Running(g)' =>
        /\ Running(g)
        /\ UrnAt(g)' = UrnAt(g)
        /\ \/ handlers'[g] = handlers[g]
           \/ /\ handlers'[g].pc = "applied" /\ handlers[g].pc = "call"
              /\ handlers[g].id # None => handlers'[g].id = handlers[g].id
  <2>1. ASSUME NEW i \in Id, ProviderCreates(h, i),
               NEW g \in Handler, Running(g)'
        PROVE  /\ Running(g)
               /\ UrnAt(g)' = UrnAt(g)
               /\ \/ handlers'[g] = handlers[g]
                  \/ /\ handlers'[g].pc = "applied" /\ handlers[g].pc = "call"
                     /\ handlers[g].id # None => handlers'[g].id = handlers[g].id
    BY <2>1 DEF ProviderCreates, Running, UrnAt, TypeInv, TypeOK, HandlerState
  <2>2. CASE ProviderUpdates(h)
    BY <2>2 DEF ProviderUpdates, Running, UrnAt, TypeInv, TypeOK, HandlerState
  <2>3. CASE handlers' = [handlers EXCEPT ![h] = Idle]
    BY <2>3 DEF Running, UrnAt, TypeInv, TypeOK, Idle
  <2> QED
    BY <2>1, <2>2, <2>3 DEF CallFails, Drop
<1> HIDE DEF Running, UrnAt
<1>3. MemoryMatchesPhase'
  BY <1>1, <1>2 DEF MemoryInv, MemoryMatchesPhase
<1>4. \A g \in Handler : Running(g) /\ UrnAt(g) \in Component => handlers[g].pc = "register"
  BY DEF MemoryInv, ComponentsHaveNoId
<1>5. ComponentsHaveNoId' /\ DryCallsNothing'
  BY <1>1, <1>2, <1>4 DEF MemoryInv, ComponentsHaveNoId, NoComponentId,
                          DryCallsNothing
<1>6. ASSUME NEW g \in Handler, Running(g)'
      PROVE  /\ prior'[UrnAt(g)'] # None => handlers'[g].id = prior'[UrnAt(g)'].id
             /\ handlers'[g].pc # "applied" =>
                  handlers'[g].id = PriorId(prior'[UrnAt(g)'])
  <2>1. CASE handlers'[g] = handlers[g]
    BY <1>1, <1>2, <1>6, <2>1 DEF MemoryInv, IdsFollowPrior
  <2>2. CASE handlers'[g] # handlers[g]
    <3>1. handlers[g].id = PriorId(prior[UrnAt(g)]) /\ UrnAt(g) \in Urn
          /\ UrnAt(g) \notin Component
      <4>1. handlers[g].res \in Resource
        BY <1>2, <1>6, <2>2 DEF TypeInv, TasksTyped
      <4>2. UrnAt(g) \in Urn
        BY <4>1, EngineAssumption DEF UrnAt
      <4> QED
        BY <1>2, <1>4, <1>6, <2>2, <4>2 DEF MemoryInv, IdsFollowPrior
    <3>2. prior[UrnAt(g)] # None => handlers[g].id = prior[UrnAt(g)].id
                                    /\ handlers[g].id # None
      BY <3>1, EngineAssumption DEF PriorId, TypeInv, TablesTyped, CustomHasId
    <3> QED
      BY <1>1, <1>2, <1>6, <2>2, <3>2
  <2> QED
    BY <2>1, <2>2
<1>7. IdsFollowPrior'
  <2>1. \A u \in Urn : resources'[u] # None =>
          /\ prior'[u] # None => resources'[u].id = prior'[u].id
          /\ resources'[u].outputs = "program" => resources'[u].id = PriorId(prior'[u])
    BY <1>1 DEF MemoryInv, IdsFollowPrior
  <2> QED
    BY <1>1, <1>6, <2>1 DEF MemoryInv, IdsFollowPrior
<1> QED
  BY <1>3, <1>5, <1>7 DEF MemoryInv

(* What Register writes: one entry, with the task's id, and one more URN in *)
(* the list if the table had none there.                                   *)
LEMMA RegisterStep ==
  ASSUME TypeInv, NEW h \in Handler, Register(h)
  PROVE  /\ Running(h) /\ handlers[h].pc \in {"applied", "register"}
         /\ UrnAt(h) \in Urn
         /\ resources'[UrnAt(h)] # None
         /\ resources'[UrnAt(h)].id = handlers[h].id
         /\ resources'[UrnAt(h)].inputs = handlers[h].inputs
         /\ resources'[UrnAt(h)].outputs =
              IF handlers[h].pc = "applied" THEN "provider" ELSE "program"
         /\ \A u \in Urn : u # UrnAt(h) => resources'[u] = resources[u]
         /\ order' = IF resources[UrnAt(h)] = None THEN Append(order, UrnAt(h))
                     ELSE order
         /\ handlers'[h] = Idle
         /\ \A g \in Handler : g # h => handlers'[g] = handlers[g]
         /\ UNCHANGED <<checkpoint, world, phase, dry, prior, toDelete, todo,
                        pending, asked, ops>>
<1> DEFINE hs == handlers[h]
           u == UrnAt(h)
           parent == ParentOf[hs.res]
           new == [id |-> hs.id, inputs |-> hs.inputs,
                   parent |-> IF parent = None THEN None ELSE UrnOf[parent],
                   outputs |-> IF hs.pc = "applied" THEN "provider" ELSE "program"]
<1>1. hs \in HandlerState /\ hs.pc \in {"applied", "register"} /\ ~hs.stale
      /\ resources' = [resources EXCEPT ![u] = new] /\ order' = PushUrn(u)
  BY DEF Register, TypeInv, TypeOK, UrnAt
<1>2. hs.res \in Resource /\ hs.inputs \in Input /\ hs.id \in Id \cup {None}
  BY <1>1 DEF TypeInv, TasksTyped, HandlerState
<1>3. u \in Urn /\ (parent = None \/ UrnOf[parent] \in Urn)
  BY <1>2, EngineAssumption DEF UrnAt
<1>4. new \in Entry
  BY <1>2, <1>3 DEF Entry
<1>5. resources'[u] = new /\ new # None
  BY <1>1, <1>3, <1>4, EngineAssumption DEF TypeInv, TypeOK, Table
<1>6. /\ handlers'[h] = Idle
      /\ \A g \in Handler : g # h => handlers'[g] = handlers[g]
  BY DEF Register, TypeInv, TypeOK
<1>7. \A v \in Urn : v # u => resources'[v] = resources[v]
  BY <1>1, <1>3 DEF TypeInv, TypeOK, Table
<1>8. UNCHANGED <<checkpoint, world, phase, dry, prior, toDelete, todo,
                  pending, asked, ops>>
  BY DEF Register
<1> QED
  BY <1>1, <1>3, <1>5, <1>6, <1>7, <1>8 DEF Running, PushUrn

LEMMA RegisterMemory ==
  ASSUME TypeInv, MemoryInv, NEW h \in Handler, Register(h)
  PROVE  MemoryInv'
<1> DEFINE w == UrnAt(h)
<1>1. /\ Running(h) /\ handlers[h].pc \in {"applied", "register"} /\ w \in Urn
      /\ resources'[w].id = handlers[h].id
      /\ resources'[w].outputs = "program" => handlers[h].pc = "register"
      /\ resources'[w].outputs = "provider" => handlers[h].pc = "applied"
      /\ resources'[w].outputs \in {"program", "provider"}
      /\ \A u \in Urn : u # w => resources'[u] = resources[u]
      /\ UNCHANGED <<checkpoint, phase, dry, prior, toDelete, pending>>
  BY RegisterStep
<1>2. \A g \in Handler : Running(g)' => handlers'[g] = handlers[g]
                                        /\ Running(g) /\ UrnAt(g)' = UrnAt(g)
  BY RegisterStep DEF Running, UrnAt, Idle
<1> HIDE DEF w, Running, UrnAt
<1>3. phase \notin {"idle", "destroy"}
  BY <1>1 DEF MemoryInv, MemoryMatchesPhase
<1>4. MemoryMatchesPhase'
  BY <1>1, <1>2, <1>3 DEF MemoryInv, MemoryMatchesPhase
<1>5. /\ prior[w] # None => handlers[h].id = prior[w].id
      /\ handlers[h].pc # "applied" => handlers[h].id = PriorId(prior[w])
      /\ w \in Component => handlers[h].pc = "register"
      /\ dry => handlers[h].pc = "register"
  BY <1>1 DEF w, MemoryInv, IdsFollowPrior, ComponentsHaveNoId, DryCallsNothing
<1>6. IdsFollowPrior'
  BY <1>1, <1>2, <1>5 DEF MemoryInv, IdsFollowPrior
<1>7. w \in Component => handlers[h].id = None
  BY <1>5 DEF MemoryInv, ComponentsHaveNoId, NoComponentId, PriorId
<1>8. ComponentsHaveNoId'
  BY <1>1, <1>2, <1>7, EngineAssumption
     DEF MemoryInv, ComponentsHaveNoId, NoComponentId
<1>9. DryCallsNothing'
  BY <1>1, <1>2, <1>5 DEF MemoryInv, DryCallsNothing
<1> QED
  BY <1>4, <1>6, <1>8, <1>9 DEF MemoryInv

(* The loops, the program's end and what happens from outside leave the    *)
(* tables and the tasks alone.                                             *)
LEMMA LoopMemory ==
  ASSUME TypeInv, MemoryInv,
         ProgramSucceeds \/ (\E u \in Urn : DeleteUrn(u)) \/ DestroyEntry
           \/ (\E i \in Id : OutOfBand(i))
  PROVE  MemoryInv'
<1>1. UNCHANGED <<checkpoint, dry, prior, resources, pending, handlers>>
  BY DEF ProgramSucceeds, DeleteUrn, DestroyEntry, OutOfBand, volatile
<1>2. \/ UNCHANGED phase /\ toDelete' \subseteq toDelete
      \/ phase = "program" /\ phase' = "delete" /\ toDelete' = DeletedUrns
  BY DEF ProgramSucceeds, DeleteUrn, DestroyEntry, OutOfBand, volatile
<1>3. \A h \in Handler : Running(h)' = Running(h) /\ UrnAt(h)' = UrnAt(h)
  BY <1>1 DEF Running, UrnAt
<1> HIDE DEF Running, UrnAt
<1>4. DeletedUrns \subseteq Domain(prior)
  BY DEF DeletedUrns
<1>5. MemoryMatchesPhase'
  BY <1>1, <1>2, <1>3, <1>4 DEF MemoryInv, MemoryMatchesPhase, Domain
<1>6. IdsFollowPrior' /\ ComponentsHaveNoId' /\ DryCallsNothing'
  BY <1>1, <1>3 DEF MemoryInv, IdsFollowPrior, ComponentsHaveNoId,
                    NoComponentId, DryCallsNothing
<1> QED
  BY <1>5, <1>6 DEF MemoryInv

LEMMA RefreshMemory ==
  ASSUME TypeInv, MemoryInv, RefreshEntry
  PROVE  MemoryInv'
<1>1. /\ phase = "refresh"
      /\ UNCHANGED <<checkpoint, phase, dry, prior, toDelete, pending, handlers>>
  BY DEF RefreshEntry
<1>2. ~dry /\ ~dry'
  BY <1>1 DEF TypeInv, DryTyped
<1>3. \A u \in Urn : \/ resources'[u] = resources[u]
                     \/ /\ prior[u] # None /\ prior[u].id \in Id \cup {None}
                        /\ resources'[u].id = prior[u].id
  BY RefreshStep, EngineAssumption DEF TypeInv, TypeOK, Table, Entry
<1>4. \A h \in Handler : ~Running(h) /\ ~Running(h)'
  BY <1>1 DEF MemoryInv, MemoryMatchesPhase, Running
<1> HIDE DEF Running, UrnAt
<1>5. MemoryMatchesPhase'
  BY <1>1, <1>4 DEF MemoryInv, MemoryMatchesPhase
<1>6. IdsFollowPrior'
  BY <1>1, <1>3, <1>4 DEF MemoryInv, IdsFollowPrior, PriorId
<1>7. ComponentsHaveNoId'
  BY <1>1, <1>3, <1>4, EngineAssumption
     DEF MemoryInv, ComponentsHaveNoId, NoComponentId
<1> QED
  BY <1>2, <1>5, <1>6, <1>7 DEF MemoryInv, DryCallsNothing

LEMMA BeginSaveMemory ==
  ASSUME TypeInv, MemoryInv, BeginSave
  PROVE  MemoryInv'
<1>1. /\ phase' = "save" /\ pending'.table = resources
      /\ checkpoint'.status = "torn" /\ checkpoint'.saved = NoSaved
      /\ UNCHANGED <<dry, prior, resources, toDelete, handlers>>
  BY DEF BeginSave, volatile
<1>2. \A h \in Handler : Running(h)' = Running(h) /\ UrnAt(h)' = UrnAt(h)
  BY <1>1 DEF Running, UrnAt
<1> HIDE DEF Running, UrnAt
<1>3. MemoryMatchesPhase'
  BY <1>1 DEF MemoryMatchesPhase
<1>4. IdsFollowPrior' /\ DryCallsNothing'
  BY <1>1, <1>2 DEF MemoryInv, IdsFollowPrior, DryCallsNothing
<1>5. NoComponentId(NoTable)
  BY EngineAssumption DEF NoComponentId, NoTable
<1>6. ComponentsHaveNoId'
  BY <1>1, <1>2, <1>5 DEF MemoryInv, ComponentsHaveNoId, NoComponentId, NoSaved
<1> QED
  BY <1>3, <1>4, <1>6 DEF MemoryInv

LEMMA EndMemory ==
  ASSUME TypeInv, MemoryInv,
         ProgramFails \/ EndPreview \/ SaveFails \/ EndSave \/ Crash
  PROVE  MemoryInv'
<1>1. EndRun
  BY DEF ProgramFails, EndPreview, SaveFails, EndSave, Crash
<1>2. /\ phase' = "idle" /\ prior' = NoTable /\ resources' = NoTable
      /\ pending' = NoSaved /\ dry' = FALSE
  BY <1>1 DEF EndRun
<1>3. (\A h \in Handler : ~Running(h))'
  BY <1>1, EndRunTypes DEF Running
<1>4. \A u \in Urn : NoTable[u] = None
  BY DEF NoTable
<1>5. \/ UNCHANGED checkpoint
      \/ checkpoint' = [status |-> "valid", saved |-> pending]
  BY DEF ProgramFails, EndPreview, SaveFails, EndSave, Crash
<1>6. MemoryMatchesPhase'
  BY <1>2, <1>3, <1>5 DEF MemoryInv, MemoryMatchesPhase
<1>7. IdsFollowPrior' /\ DryCallsNothing'
  BY <1>2, <1>3, <1>4 DEF IdsFollowPrior, DryCallsNothing, NoSaved
<1>8. ComponentsHaveNoId'
  BY <1>2, <1>3, <1>4, <1>5, EngineAssumption
     DEF MemoryInv, ComponentsHaveNoId, NoComponentId, NoSaved
<1> QED
  BY <1>6, <1>7, <1>8 DEF MemoryInv

THEOREM NextMemoryInv == TypeInv /\ MemoryInv /\ [Next]_vars => MemoryInv'
<1> SUFFICES ASSUME TypeInv, MemoryInv, [Next]_vars PROVE MemoryInv'
  OBVIOUS
<1>1. CASE UNCHANGED vars
  BY <1>1 DEF vars, MemoryInv, MemoryMatchesPhase, IdsFollowPrior,
     ComponentsHaveNoId, NoComponentId, DryCallsNothing, Running, UrnAt
<1>2. CASE (\E preview \in BOOLEAN : BeginRun(preview)) \/ BeginDestroy \/ BeginRefresh
  BY <1>2, BeginMemory
<1>3. CASE \E h \in Handler, r \in Resource, in \in Input : Receive(h, r, in)
  BY <1>3, ReceiveMemory
<1>4. CASE \E h \in Handler : HandlerStep(h)
  BY <1>4, TaskMemory, RegisterMemory DEF HandlerStep
<1>5. CASE EngineStep
  BY <1>5, LoopMemory, EndMemory, RefreshMemory, BeginSaveMemory DEF EngineStep
<1>6. CASE ProgramFails \/ SaveFails \/ Crash
  BY <1>6, EndMemory
<1>7. CASE \E i \in Id : OutOfBand(i)
  BY <1>7, LoopMemory
<1> QED
  BY <1>1, <1>2, <1>3, <1>4, <1>5, <1>6, <1>7 DEF Next

THEOREM SpecMemoryInv == Spec => []MemoryInv
<1> QED
  BY InitMemoryInv, NextMemoryInv, SpecTypeInv, PTL DEF Spec

-----------------------------------------------------------------------------
(* Previews.                                                               *)

LEMMA PreviewStep ==
  ASSUME TypeInv, MemoryInv, Next, dry
  PROVE  /\ checkpoint' = checkpoint
         /\ \A h \in Handler : ~handlers[h].stale
                               => handlers'[h].pc \notin {"call", "applied"}
         /\ \A i \in Id : cloud[i] = "live" /\ cloud'[i] = "gone"
                         => "outOfBand" \in mishap'[i]
<1> DEFINE Quiet == \A h \in Handler : ~handlers[h].stale
                               => handlers'[h].pc \notin {"call", "applied"}
<1>1. phase \in {"program", "delete"}
  BY DEF TypeInv, DryTyped
<1>2. \A h \in Handler : ~handlers[h].stale
                         => handlers[h].pc \notin {"call", "applied"}
  BY DEF MemoryInv, DryCallsNothing, Running
<1>3. ASSUME NEW h \in Handler, NEW r \in Resource, NEW in \in Input,
             Receive(h, r, in)
      PROVE  UNCHANGED <<checkpoint, cloud>> /\ Quiet
  <2>1. handlers'[h].pc = "register" /\ UNCHANGED <<checkpoint, cloud>>
        /\ \A g \in Handler : g # h => handlers'[g] = handlers[g]
    BY <1>3 DEF Receive, world, CallsProvider, TypeInv, TypeOK
  <2> QED
    BY <1>2, <2>1
<1>4. ASSUME NEW h \in Handler, HandlerStep(h)
      PROVE  /\ checkpoint' = checkpoint
             /\ Quiet
             /\ \A i \in Id : cloud[i] = "live" => cloud'[i] = "live"
  <2>1. CASE \E i \in Id : ProviderCreates(h, i)
    <3>1. PICK i \in Id : ProviderCreates(h, i)
      BY <2>1
    <3>2. handlers[h].stale /\ checkpoint' = checkpoint
      BY <1>2, <3>1 DEF ProviderCreates
    <3>3. \A g \in Handler : g # h => handlers'[g] = handlers[g]
      BY <3>1 DEF ProviderCreates, TypeInv, TypeOK
    <3>4. \A j \in Id : cloud[j] = "live" => cloud'[j] = "live"
      BY <3>1 DEF ProviderCreates, TypeInv, TypeOK
    <3> QED
      BY <1>2, <3>2, <3>3, <3>4
  <2>2. CASE ProviderUpdates(h)
    <3>1. handlers[h].stale /\ UNCHANGED <<checkpoint, cloud>>
      BY <1>2, <2>2 DEF ProviderUpdates
    <3>2. \A g \in Handler : g # h => handlers'[g] = handlers[g]
      BY <2>2 DEF ProviderUpdates, TypeInv, TypeOK
    <3> QED
      BY <1>2, <3>1, <3>2
  <2>3. CASE CallFails(h) \/ Register(h) \/ Drop(h)
    <3>1. handlers' = [handlers EXCEPT ![h] = Idle] /\ UNCHANGED <<checkpoint, cloud>>
      BY <2>3 DEF CallFails, Register, Drop, world
    <3>2. \A g \in Handler : handlers'[g].pc \in {"idle", handlers[g].pc}
      BY <3>1 DEF TypeInv, TypeOK, Idle
    <3> QED
      BY <1>2, <3>1, <3>2
  <2> QED
    BY <1>4, <2>1, <2>2, <2>3 DEF HandlerStep
<1>5. ASSUME ProgramSucceeds \/ (\E u \in Urn : DeleteUrn(u))
      PROVE  UNCHANGED <<checkpoint, cloud, handlers>>
  BY <1>5 DEF ProgramSucceeds, DeleteUrn, world
<1>6. ASSUME EndPreview \/ ProgramFails \/ SaveFails \/ Crash
      PROVE  UNCHANGED <<checkpoint, cloud>> /\ Quiet
  <2>1. EndRun /\ UNCHANGED <<checkpoint, cloud>>
    BY <1>6 DEF EndPreview, ProgramFails, SaveFails, Crash, world
  <2>2. \A h \in Handler : handlers'[h].pc = handlers[h].pc
    BY <2>1 DEF EndRun, TypeInv, TypeOK, HandlerState
  <2> QED
    BY <1>2, <2>1, <2>2
<1>7. ASSUME NEW i \in Id, OutOfBand(i)
      PROVE  /\ UNCHANGED <<checkpoint, handlers>>
             /\ \A j \in Id : cloud[j] = "live" /\ cloud'[j] = "gone"
                             => "outOfBand" \in mishap'[j]
  BY <1>7 DEF OutOfBand, Hit, TypeInv, TypeOK
<1>8. ~BeginDestroy /\ ~BeginRefresh /\ (\A preview \in BOOLEAN : ~BeginRun(preview))
      /\ ~DestroyEntry /\ ~RefreshEntry /\ ~BeginSave /\ ~EndSave
  BY <1>1 DEF BeginDestroy, BeginRefresh, BeginRun, DestroyEntry, RefreshEntry,
     BeginSave, ReadyToSave, EndSave
<1> HIDE DEF Quiet
<1>9. /\ checkpoint' = checkpoint
      /\ Quiet
      /\ \A i \in Id : cloud[i] = "live" /\ cloud'[i] = "gone"
                      => "outOfBand" \in mishap'[i]
  <2>1. UNCHANGED handlers => Quiet
    BY <1>2 DEF Quiet
  <2>2. CASE EngineStep
    <3>1. UNCHANGED <<checkpoint, cloud>> /\ Quiet
      BY <1>5, <1>6, <1>8, <2>1, <2>2 DEF EngineStep
    <3> QED
      BY <3>1
  <2>3. CASE ProgramFails \/ SaveFails \/ Crash
    BY <1>6, <2>3
  <2>4. CASE \E h \in Handler : HandlerStep(h)
    <3>1. PICK h \in Handler : HandlerStep(h)
      BY <2>4
    <3>2. \A i \in Id : cloud[i] = "live" => cloud'[i] = "live"
      BY <1>4, <3>1
    <3> QED
      BY <1>4, <3>1, <3>2
  <2>5. CASE \E h \in Handler, r \in Resource, in \in Input : Receive(h, r, in)
    BY <1>3, <2>5
  <2>6. CASE \E i \in Id : OutOfBand(i)
    BY <1>7, <2>1, <2>6
  <2> QED
    BY <1>8, <2>2, <2>3, <2>4, <2>5, <2>6 DEF Next
<1> QED
  BY <1>9 DEF Quiet

(* A preview has no effect: the checkpoint file is not touched, no task of *)
(* its run reaches a provider, and an object disappears only by somebody   *)
(* else's hand. Tasks of an earlier run may still be answered meanwhile.   *)
THEOREM SpecPreviewTouchesNothing == Spec => PreviewTouchesNothing
<1>1. TypeInv /\ MemoryInv /\ [Next]_vars =>
        [dry => /\ checkpoint' = checkpoint
                /\ \A h \in Handler : ~handlers[h].stale
                                      => handlers'[h].pc \notin {"call", "applied"}
                /\ \A i \in Id : cloud[i] = "live" /\ cloud'[i] = "gone"
                                => "outOfBand" \in mishap'[i]]_vars
  BY PreviewStep
<1> QED
  BY <1>1, SpecTypeInv, SpecMemoryInv, PTL DEF Spec, PreviewTouchesNothing

-----------------------------------------------------------------------------
(* The list of registered URNs and the table of their entries say the same.*)

Distinct(o) == \A j, k \in 1..Len(o) : o[j] = o[k] => j = k
Covers(o, t) == \A u \in Urn : t[u] # None => \E k \in 1..Len(o) : o[k] = u

Lists ==
  /\ Distinct(order) /\ Covers(order, resources)
  /\ Distinct(pending.order) /\ Covers(pending.order, pending.table)
  /\ Distinct(checkpoint.saved.order)
  /\ Covers(checkpoint.saved.order, checkpoint.saved.table)
  /\ Distinct(todo)
  /\ phase = "refresh" => \A k \in 1..Len(todo) : resources[todo[k]] = None

LEMMA NothingListed == Distinct(<<>>) /\ Covers(<<>>, NoTable)
BY DEF Distinct, Covers, NoTable

LEMMA AppendLists ==
  ASSUME NEW o \in Seq(Urn), NEW t, NEW new, NEW w \in Urn,
         Distinct(o), Covers(o, t), ListInTable(o, t), t[w] = None,
         \A v \in Urn : v # w => new[v] = t[v]
  PROVE  Distinct(Append(o, w)) /\ Covers(Append(o, w), new)
<1>1. \A k \in 1..Len(o) : o[k] \in Urn /\ o[k] # w
  BY DEF ListInTable
<1>2. /\ Len(Append(o, w)) = Len(o) + 1 /\ Append(o, w)[Len(o) + 1] = w
      /\ \A k \in 1..Len(o) : Append(o, w)[k] = o[k]
  OBVIOUS
<1>3. Distinct(Append(o, w))
  BY <1>1, <1>2 DEF Distinct
<1>4. ASSUME NEW u \in Urn, new[u] # None
      PROVE  \E k \in 1..Len(Append(o, w)) : Append(o, w)[k] = u
  <2>1. CASE u = w
    BY <1>2, <2>1
  <2>2. CASE u # w
    <3>1. PICK k \in 1..Len(o) : o[k] = u
      BY <1>4, <2>2 DEF Covers
    <3> QED
      BY <1>2, <3>1
  <2> QED
    BY <2>1, <2>2
<1> QED
  BY <1>3, <1>4 DEF Covers

THEOREM InitLists == Init => Lists
<1> SUFFICES ASSUME Init PROVE Lists
  OBVIOUS
<1> QED
  BY NothingListed DEF Init, NoSaved, Lists

LEMMA BeginLists ==
  ASSUME TypeInv, MemoryInv, Lists,
         (\E preview \in BOOLEAN : BeginRun(preview)) \/ BeginDestroy
           \/ BeginRefresh
  PROVE  Lists'
<1>1. /\ UNCHANGED <<checkpoint, order, resources, pending>>
      /\ todo' \in {todo, checkpoint.saved.order}
      /\ resources = NoTable
  BY DEF BeginRun, BeginDestroy, BeginRefresh, MemoryInv, MemoryMatchesPhase
<1>2. phase' = "refresh" => todo' = checkpoint.saved.order
  BY DEF BeginRun, BeginDestroy, BeginRefresh
<1>3. \A k \in 1..Len(checkpoint.saved.order) :
         NoTable[checkpoint.saved.order[k]] = None
  BY DEF TypeInv, TypeOK, Saved, NoTable
<1> QED
  BY <1>1, <1>2, <1>3 DEF Lists, Covers

LEMMA RegisterLists ==
  ASSUME TypeInv, MemoryInv, Lists, NEW h \in Handler, Register(h)
  PROVE  Lists'
<1> DEFINE w == UrnAt(h)
<1>1. /\ Running(h) /\ w \in Urn /\ resources'[w] # None
      /\ \A u \in Urn : u # w => resources'[u] = resources[u]
      /\ order' = IF resources[w] = None THEN Append(order, w) ELSE order
      /\ UNCHANGED <<checkpoint, phase, todo, pending>>
  BY RegisterStep
<1> HIDE DEF w
<1>2. phase # "refresh"
  BY <1>1 DEF MemoryInv, MemoryMatchesPhase
<1>3. order \in Seq(Urn) /\ ListInTable(order, resources)
  BY DEF TypeInv, TypeOK, WalkTyped
<1>4. Distinct(order') /\ Covers(order', resources')
  <2>1. CASE resources[w] = None
    BY <1>1, <1>3, <2>1, AppendLists DEF Lists
  <2>2. CASE resources[w] # None
    BY <1>1, <2>2 DEF Lists, Covers
  <2> QED
    BY <2>1, <2>2
<1> QED
  BY <1>1, <1>2, <1>4 DEF Lists, Covers

LEMMA RefreshLists ==
  ASSUME TypeInv, MemoryInv, Lists, RefreshEntry
  PROVE  Lists'
<1> DEFINE w == todo[1]
<1>1. /\ phase = "refresh" /\ todo # <<>> /\ todo' = Tail(todo)
      /\ UNCHANGED <<checkpoint, phase, pending>>
  BY DEF RefreshEntry
<1>2. /\ w \in Urn
      /\ \/ UNCHANGED <<resources, order>>
         \/ \E e \in Entry : /\ resources' = [resources EXCEPT ![w] = e]
                             /\ order' = Append(order, w)
  BY RefreshStep
<1>3. resources[w] = None
  BY <1>1 DEF Lists, TypeInv, TypeOK
<1>4. \A v \in Urn : v # w => resources'[v] = resources[v]
  BY <1>2 DEF TypeInv, TypeOK, Table
<1>5. order \in Seq(Urn) /\ ListInTable(order, resources)
  BY DEF TypeInv, TypeOK, WalkTyped
<1>6. /\ Len(todo') = Len(todo) - 1 /\ Len(todo) \in Nat \ {0}
      /\ \A k \in 1..Len(todo') : /\ k + 1 \in 1..Len(todo)
                                 /\ todo'[k] = todo[k + 1]
                                 /\ todo'[k] \in Urn
  BY <1>1 DEF TypeInv, TypeOK
<1> HIDE DEF w
<1>7. Distinct(order') /\ Covers(order', resources')
  <2>1. CASE UNCHANGED <<resources, order>>
    BY <2>1 DEF Lists, Covers
  <2>2. CASE order' = Append(order, w)
    BY <1>2, <1>3, <1>4, <1>5, <2>2, AppendLists DEF Lists
  <2> QED
    BY <1>2, <2>1, <2>2
<1>8. Distinct(todo')
  BY <1>6 DEF Lists, Distinct
<1>9. \A k \in 1..Len(todo') : todo'[k] # w
  BY <1>6 DEF Lists, Distinct, w
<1>10. \A k \in 1..Len(todo') : resources'[todo'[k]] = None
  BY <1>1, <1>4, <1>6, <1>9 DEF Lists
<1> QED
  BY <1>1, <1>7, <1>8, <1>10 DEF Lists, Covers

THEOREM NextLists == TypeInv /\ MemoryInv /\ Lists /\ [Next]_vars => Lists'
<1> SUFFICES ASSUME TypeInv, MemoryInv, Lists, [Next]_vars PROVE Lists'
  OBVIOUS
<1>1. CASE UNCHANGED vars
  BY <1>1 DEF vars, Lists, Covers
<1>2. CASE (\E preview \in BOOLEAN : BeginRun(preview)) \/ BeginDestroy \/ BeginRefresh
  BY <1>2, BeginLists
<1>3. CASE \E h \in Handler, r \in Resource, in \in Input : Receive(h, r, in)
  BY <1>3 DEF Receive, Lists, Covers
<1>4. CASE \E h \in Handler : Register(h)
  BY <1>4, RegisterLists
<1>5. CASE \E h \in Handler : \/ \E i \in Id : ProviderCreates(h, i)
                             \/ ProviderUpdates(h) \/ CallFails(h) \/ Drop(h)
  BY <1>5 DEF ProviderCreates, ProviderUpdates, CallFails, Drop, volatile,
     Lists, Covers
<1>6. CASE \/ ProgramSucceeds \/ (\E u \in Urn : DeleteUrn(u))
           \/ (\E i \in Id : OutOfBand(i))
  <2>1. /\ UNCHANGED <<checkpoint, order, resources, pending, todo>>
        /\ phase' # "refresh" \/ phase' = phase
    BY <1>6 DEF ProgramSucceeds, DeleteUrn, OutOfBand, volatile
  <2> QED
    BY <2>1 DEF Lists, Covers
<1>7. CASE DestroyEntry
  <2>1. /\ UNCHANGED <<checkpoint, order, resources, pending>>
        /\ phase' = "destroy" /\ todo # <<>>
        /\ todo' = SubSeq(todo, 1, Len(todo) - 1)
    BY <1>7 DEF DestroyEntry
  <2>2. Distinct(todo')
    BY <2>1 DEF Lists, Distinct, TypeInv, TypeOK
  <2> QED
    BY <2>1, <2>2 DEF Lists, Covers
<1>8. CASE RefreshEntry
  BY <1>8, RefreshLists
<1>9. CASE BeginSave
  <2>1. /\ UNCHANGED <<order, resources, todo>> /\ phase' = "save"
        /\ pending' = [order |-> order, table |-> resources]
        /\ checkpoint'.saved = NoSaved
    BY <1>9 DEF BeginSave, volatile
  <2> QED
    BY <2>1, NothingListed DEF Lists, Covers, NoSaved
<1>10. CASE EndPreview \/ EndSave \/ ProgramFails \/ SaveFails \/ Crash
  <2>1. EndRun /\ checkpoint'.saved \in {checkpoint.saved, pending}
    BY <1>10 DEF EndPreview, EndSave, ProgramFails, SaveFails, Crash
  <2>2. /\ order' = <<>> /\ resources' = NoTable /\ pending' = NoSaved
        /\ todo' = <<>> /\ phase' = "idle"
    BY <2>1 DEF EndRun
  <2> QED
    BY <2>1, <2>2, NothingListed DEF Lists, Covers, NoSaved
<1> QED
  BY <1>1, <1>2, <1>3, <1>4, <1>5, <1>6, <1>7, <1>8, <1>9, <1>10
     DEF Next, EngineStep, HandlerStep

THEOREM SpecLists == Spec => []Lists
<1> QED
  BY InitLists, NextLists, SpecTypeInv, SpecMemoryInv, PTL DEF Spec

(* In memory and in the file, resource_order lists every registered URN    *)
(* once, also when statements share a URN or refresh drops entries.        *)
THEOREM SpecListMatchesTable == Spec => []ListMatchesTable
<1>1. ASSUME NEW o \in Seq(Urn), NEW t, Distinct(o), Covers(o, t), ListInTable(o, t)
      PROVE  /\ \A j, k \in 1..Len(o) : o[j] = o[k] => j = k
             /\ {o[k] : k \in 1..Len(o)} = Domain(t)
  <2>1. \A k \in 1..Len(o) : o[k] \in Urn
    OBVIOUS
  <2> QED
    BY <1>1, <2>1 DEF Distinct, Covers, ListInTable, Domain
<1>2. TypeInv /\ Lists => ListMatchesTable
  <2> SUFFICES ASSUME TypeInv, Lists PROVE ListMatchesTable
    OBVIOUS
  <2>1. /\ order \in Seq(Urn) /\ ListInTable(order, resources)
        /\ checkpoint.saved.order \in Seq(Urn)
        /\ ListInTable(checkpoint.saved.order, checkpoint.saved.table)
    BY DEF TypeInv, TypeOK, WalkTyped, Saved
  <2> QED
    BY <1>1, <2>1 DEF Lists, ListMatchesTable
<1> QED
  BY <1>2, SpecTypeInv, SpecLists, PTL

-----------------------------------------------------------------------------
(* Families. A registration waits for its parent's, so the list has every  *)
(* parent before its children, unless a URN changes its parent.            *)

ParentUrn(r) == IF ParentOf[r] = None THEN None ELSE UrnOf[ParentOf[r]]

(* Statements that share a URN share the parent.                           *)
OneParentEach ==
  \A r, s \in Resource : UrnOf[r] = UrnOf[s] => ParentUrn(r) = ParentUrn(s)

(* No entry names a parent that is listed after it.                        *)
ParentsFirst(o, t) ==
  \A j, k \in 1..Len(o) : j < k => t[o[j]].parent # o[k]

ProgramRuns == phase = "program" \/ \E h \in Handler : Running(h)

Families ==
  /\ ParentsFirst(order, resources)
  /\ ParentsFirst(pending.order, pending.table)
  /\ ParentsFirst(checkpoint.saved.order, checkpoint.saved.table)
  /\ ParentsFirst(todo, prior)
  /\ \A h \in Handler : Running(h) =>
       LET pu == ParentUrn(handlers[h].res) IN pu # None => resources[pu] # None
  /\ ProgramRuns => \A u \in Urn : resources[u] # None =>
       /\ \E r \in Resource : UrnOf[r] = u /\ resources[u].parent = ParentUrn(r)
       /\ resources[u].parent # None => resources[resources[u].parent] # None
  /\ phase = "refresh" =>
       \A j \in 1..Len(order), k \in 1..Len(todo) :
         resources[order[j]].parent # todo[k]

THEOREM InitFamilies == Init => Families
<1> SUFFICES ASSUME Init PROVE Families
  OBVIOUS
<1>1. \A t : ParentsFirst(<<>>, t)
  BY DEF ParentsFirst
<1>2. ~ProgramRuns /\ \A h \in Handler : ~Running(h)
  BY DEF Init, ProgramRuns, Running, Idle
<1> QED
  BY <1>1, <1>2 DEF Init, NoSaved, Families

LEMMA BeginFamilies ==
  ASSUME TypeInv, MemoryInv, Families,
         (\E preview \in BOOLEAN : BeginRun(preview)) \/ BeginDestroy
           \/ BeginRefresh
  PROVE  Families'
<1>1. /\ phase = "idle"
      /\ UNCHANGED <<checkpoint, order, resources, pending, handlers>>
      /\ prior' = checkpoint.saved.table
      /\ todo' \in {todo, checkpoint.saved.order}
      /\ resources = NoTable
  BY DEF BeginRun, BeginDestroy, BeginRefresh, MemoryInv, MemoryMatchesPhase
<1>2. todo = <<>>
  BY <1>1 DEF TypeInv, WalkTyped
<1>3. \A h \in Handler : ~Running(h) /\ ~Running(h)'
  BY <1>1 DEF MemoryInv, MemoryMatchesPhase, Running
<1>4. ParentsFirst(todo', prior')
  BY <1>1, <1>2 DEF Families, ParentsFirst
<1>5. \A u \in Urn : resources'[u] = None
  BY <1>1 DEF NoTable
<1>6. order = <<>>
  BY <1>1 DEF TypeInv, TypeOK, WalkTyped, ListInTable, NoTable
<1> QED
  BY <1>1, <1>3, <1>4, <1>5, <1>6 DEF Families, ParentsFirst

LEMMA ReceiveFamilies ==
  ASSUME TypeInv, MemoryInv, Families,
         NEW h \in Handler, NEW r \in Resource, NEW in \in Input, Receive(h, r, in)
  PROVE  Families'
<1>1. /\ phase = "program"
      /\ UNCHANGED <<checkpoint, phase, prior, order, resources, todo, pending>>
      /\ handlers'[h].res = r
      /\ \A g \in Handler : g # h => handlers'[g] = handlers[g]
      /\ ParentOf[r] # None => resources[UrnOf[ParentOf[r]]] # None
  BY DEF Receive, TypeInv, TypeOK
<1>2. ASSUME NEW g \in Handler, Running(g)', ParentUrn(handlers'[g].res) # None
      PROVE  resources[ParentUrn(handlers'[g].res)] # None
  <2>1. CASE g = h
    BY <1>1, <1>2, <2>1 DEF ParentUrn
  <2>2. CASE g # h
    BY <1>1, <1>2, <2>2 DEF Families, Running
  <2> QED
    BY <2>1, <2>2
<1> QED
  BY <1>1, <1>2 DEF Families, ParentsFirst, ProgramRuns

LEMMA RegisterFamilies ==
  ASSUME OneParentEach, TypeInv, MemoryInv, Families, NEW h \in Handler, Register(h)
  PROVE  Families'
<1> DEFINE w == UrnAt(h)
           pu == ParentUrn(handlers[h].res)
<1>1. /\ Running(h) /\ w \in Urn /\ resources'[w] # None
      /\ \A u \in Urn : u # w => resources'[u] = resources[u]
      /\ order' = IF resources[w] = None THEN Append(order, w) ELSE order
      /\ handlers'[h] = Idle
      /\ \A g \in Handler : g # h => handlers'[g] = handlers[g]
      /\ UNCHANGED <<checkpoint, phase, prior, todo, pending>>
  BY RegisterStep
<1>2. handlers[h].res \in Resource
  BY <1>1 DEF Running, TypeInv, TasksTyped
<1>3. resources'[w].parent = pu
  BY <1>1 DEF Register, UrnAt, ParentUrn, TypeInv, TypeOK, Table
<1>4. ProgramRuns /\ phase # "refresh"
  BY <1>1 DEF ProgramRuns, MemoryInv, MemoryMatchesPhase
<1>5. \A u \in Urn : resources[u] # None => resources'[u] # None
  BY <1>1
<1>6. pu # None => pu \in Urn /\ resources[pu] # None
  BY <1>1, <1>2, EngineAssumption DEF Families, ParentUrn
<1>7. resources[w] # None => resources[w].parent = pu
  BY <1>1, <1>2, <1>4 DEF Families, OneParentEach, UrnAt
<1>8. /\ order \in Seq(Urn)
      /\ \A k \in 1..Len(order) : order[k] \in Urn /\ resources[order[k]] # None
  BY DEF TypeInv, TypeOK, WalkTyped, ListInTable
<1>9. \A u \in Urn : resources[u] # None /\ resources[u].parent # None =>
         resources[u].parent \in Urn /\ resources[resources[u].parent] # None
  BY <1>4, EngineAssumption DEF Families, ParentUrn
<1> HIDE DEF w, pu
<1>10. ParentsFirst(order', resources')
  <2>1. CASE resources[w] # None
    <3>1. \A u \in Urn : resources[u] # None => resources'[u].parent = resources[u].parent
      BY <1>1, <1>3, <1>7
    <3> QED
      BY <1>1, <1>8, <2>1, <3>1 DEF Families, ParentsFirst
  <2>2. CASE resources[w] = None
    <3>1. /\ Len(order') = Len(order) + 1 /\ order'[Len(order) + 1] = w
          /\ \A k \in 1..Len(order) : order'[k] = order[k]
      BY <1>1, <1>8, <2>2
    <3>2. \A k \in 1..Len(order) : resources'[order[k]] = resources[order[k]]
                                  /\ resources[order[k]].parent # w
      BY <1>1, <1>8, <1>9, <2>2, EngineAssumption
    <3>3. ASSUME NEW j \in 1..Len(order'), NEW k \in 1..Len(order'), j < k
          PROVE  resources'[order'[j]].parent # order'[k]
      <4>1. j \in 1..Len(order)
        BY <1>8, <3>1, <3>3
      <4>2. CASE k \in 1..Len(order)
        BY <3>1, <3>2, <3>3, <4>1, <4>2 DEF Families, ParentsFirst
      <4>3. CASE k = Len(order) + 1
        BY <3>1, <3>2, <4>1, <4>3
      <4> QED
        BY <1>8, <3>1, <4>2, <4>3
    <3> QED
      BY <3>3 DEF ParentsFirst
  <2> QED
    BY <2>1, <2>2
<1>11. ASSUME NEW g \in Handler, Running(g)', ParentUrn(handlers'[g].res) # None
       PROVE  resources'[ParentUrn(handlers'[g].res)] # None
  <2>1. g # h /\ handlers'[g] = handlers[g] /\ Running(g)
    BY <1>1, <1>11 DEF Running, Idle
  <2>2. handlers[g].res \in Resource
    BY <2>1 DEF Running, TypeInv, TasksTyped
  <2>3. ParentUrn(handlers[g].res) \in Urn
    BY <1>11, <2>1, <2>2, EngineAssumption DEF ParentUrn
  <2> QED
    BY <1>5, <1>11, <2>1, <2>3 DEF Families
<1>12. ASSUME NEW u \in Urn, resources'[u] # None
       PROVE  /\ \E r \in Resource : UrnOf[r] = u /\ resources'[u].parent = ParentUrn(r)
              /\ resources'[u].parent # None => resources'[resources'[u].parent] # None
  <2>1. CASE u = w
    BY <1>2, <1>3, <1>5, <1>6, <2>1 DEF w, pu, UrnAt
  <2>2. CASE u # w
    BY <1>1, <1>4, <1>5, <1>9, <1>12, <2>2 DEF Families
  <2> QED
    BY <2>1, <2>2
<1> QED
  BY <1>1, <1>4, <1>10, <1>11, <1>12 DEF Families, ParentsFirst

LEMMA TaskFamilies ==
  ASSUME TypeInv, MemoryInv, Families, NEW h \in Handler,
         (\E i \in Id : ProviderCreates(h, i)) \/ ProviderUpdates(h)
           \/ CallFails(h) \/ Drop(h)
  PROVE  Families'
<1>1. UNCHANGED <<checkpoint, phase, prior, order, resources, todo, pending>>
  BY DEF ProviderCreates, ProviderUpdates, CallFails, Drop, volatile, world
<1>2. \A g \in Handler : Running(g)' => Running(g) /\ handlers'[g].res = handlers[g].res
  <2>1. ASSUME NEW i \in Id, ProviderCreates(h, i), NEW g \in Handler, Running(g)'
        PROVE  Running(g) /\ handlers'[g].res = handlers[g].res
    BY <2>1 DEF ProviderCreates, Running, TypeInv, TypeOK, HandlerState
  <2>2. CASE ProviderUpdates(h)
    BY <2>2 DEF ProviderUpdates, Running, TypeInv, TypeOK, HandlerState
  <2>3. CASE handlers' = [handlers EXCEPT ![h] = Idle]
    BY <2>3 DEF Running, TypeInv, TypeOK, Idle
  <2> QED
    BY <2>1, <2>2, <2>3 DEF CallFails, Drop
<1> HIDE DEF Running
<1> QED
  BY <1>1, <1>2 DEF Families, ParentsFirst, ProgramRuns

LEMMA RefreshFamilies ==
  ASSUME TypeInv, MemoryInv, Lists, Families, RefreshEntry
  PROVE  Families'
<1> DEFINE w == todo[1]
<1>1. /\ phase = "refresh" /\ todo # <<>> /\ todo' = Tail(todo)
      /\ UNCHANGED <<checkpoint, phase, prior, pending, handlers>>
  BY DEF RefreshEntry
<1>2. /\ w \in Urn /\ prior[w] \in Entry
      /\ \/ UNCHANGED <<resources, order>>
         \/ \E e \in Entry : /\ e.parent = prior[w].parent
                             /\ resources' = [resources EXCEPT ![w] = e]
                             /\ order' = Append(order, w)
  BY RefreshStep
<1>3. /\ Len(todo') = Len(todo) - 1 /\ Len(todo) \in Nat \ {0}
      /\ 1 \in 1..Len(todo)
      /\ \A k \in 1..Len(todo') : /\ k + 1 \in 1..Len(todo) /\ 1 < k + 1
                                 /\ todo'[k] = todo[k + 1]
  BY <1>1 DEF TypeInv, TypeOK
<1>4. ~ProgramRuns /\ ~ProgramRuns'
      /\ \A h \in Handler : ~Running(h) /\ ~Running(h)'
  BY <1>1 DEF MemoryInv, MemoryMatchesPhase, ProgramRuns, Running
<1>5. resources[w] = None
  BY <1>1, <1>3 DEF Lists
<1>6. /\ order \in Seq(Urn)
      /\ \A k \in 1..Len(order) : order[k] \in Urn /\ order[k] # w
  BY <1>5 DEF TypeInv, TypeOK, WalkTyped, ListInTable
<1>7. ParentsFirst(todo', prior')
  BY <1>1, <1>3 DEF Families, ParentsFirst
<1>8. \A j \in 1..Len(order), k \in 1..Len(todo) :
         resources[order[j]].parent # todo[k]
  BY <1>1 DEF Families
<1>9. \A k \in 1..Len(todo') : prior[w].parent # todo'[k]
  <2>1. ParentsFirst(todo, prior)
    BY DEF Families
  <2>2. \A j, k \in 1..Len(todo) : j < k => prior[todo[j]].parent # todo[k]
    BY <2>1 DEF ParentsFirst
  <2> HIDE DEF w
  <2>3. w = todo[1]
    BY DEF w
  <2> QED
    BY <1>3, <2>2, <2>3
<1>10. CASE UNCHANGED <<resources, order>>
  <2>1. \A j \in 1..Len(order'), k \in 1..Len(todo') :
           resources'[order'[j]].parent # todo'[k]
    BY <1>3, <1>8, <1>10
  <2> QED
    BY <1>1, <1>4, <1>7, <1>10, <2>1 DEF Families, ParentsFirst
<1>11. CASE order' = Append(order, w)
  <2>1. resources'[w].parent = prior[w].parent
        /\ \A v \in Urn : v # w => resources'[v] = resources[v]
    <3>1. order' # order
      BY <1>6, <1>11
    <3> QED
      BY <1>2, <3>1 DEF TypeInv, TypeOK, Table
  <2>2. /\ Len(order') = Len(order) + 1 /\ order'[Len(order) + 1] = w
        /\ \A k \in 1..Len(order) : order'[k] = order[k]
                                   /\ resources'[order[k]] = resources[order[k]]
    BY <1>2, <1>6, <1>11, <2>1
  <2>3. ASSUME NEW j \in 1..Len(order'), NEW k \in 1..Len(order'), j < k
        PROVE  resources'[order'[j]].parent # order'[k]
    <3>1. j \in 1..Len(order)
      BY <1>6, <2>2, <2>3
    <3>2. CASE k \in 1..Len(order)
      BY <2>2, <2>3, <3>1, <3>2 DEF Families, ParentsFirst
    <3>3. CASE k = Len(order) + 1
      BY <1>3, <1>8, <2>2, <3>1, <3>3
    <3> QED
      BY <1>6, <2>2, <3>2, <3>3
  <2>4. ASSUME NEW j \in 1..Len(order'), NEW k \in 1..Len(todo')
        PROVE  resources'[order'[j]].parent # todo'[k]
    <3>1. CASE j \in 1..Len(order)
      BY <1>3, <1>8, <2>2, <3>1
    <3>2. CASE j = Len(order) + 1
      BY <1>9, <2>1, <2>2, <3>2
    <3> QED
      BY <1>6, <2>2, <3>1, <3>2
  <2>5. ParentsFirst(order', resources')
    BY <2>3 DEF ParentsFirst
  <2> QED
    BY <1>1, <1>4, <1>7, <2>4, <2>5 DEF Families, ParentsFirst
<1> QED
  BY <1>2, <1>10, <1>11

THEOREM NextFamilies ==
  OneParentEach /\ TypeInv /\ MemoryInv /\ Lists /\ Families /\ [Next]_vars
    => Families'
<1> SUFFICES ASSUME OneParentEach, TypeInv, MemoryInv, Lists, Families, [Next]_vars
             PROVE  Families'
  OBVIOUS
<1>0. \A t : ParentsFirst(<<>>, t)
  BY DEF ParentsFirst
<1>1. CASE UNCHANGED vars
  BY <1>1 DEF vars, Families, ParentsFirst, ProgramRuns, Running
<1>2. CASE (\E preview \in BOOLEAN : BeginRun(preview)) \/ BeginDestroy \/ BeginRefresh
  BY <1>2, BeginFamilies
<1>3. CASE \E h \in Handler, r \in Resource, in \in Input : Receive(h, r, in)
  BY <1>3, ReceiveFamilies
<1>4. CASE \E h \in Handler : Register(h)
  BY <1>4, RegisterFamilies
<1>5. CASE \E h \in Handler : \/ \E i \in Id : ProviderCreates(h, i)
                             \/ ProviderUpdates(h) \/ CallFails(h) \/ Drop(h)
  BY <1>5, TaskFamilies
<1>6. CASE \/ ProgramSucceeds \/ (\E u \in Urn : DeleteUrn(u))
           \/ (\E i \in Id : OutOfBand(i))
  <2>1. /\ UNCHANGED <<checkpoint, order, prior, resources, pending, todo, handlers>>
        /\ phase' # phase => phase = "program" /\ phase' = "delete"
    BY <1>6 DEF ProgramSucceeds, DeleteUrn, OutOfBand, volatile
  <2>2. ProgramRuns' => ProgramRuns
    BY <2>1 DEF ProgramRuns, Running
  <2> QED
    BY <2>1, <2>2 DEF Families, ParentsFirst, Running
<1>7. CASE DestroyEntry
  <2>1. /\ UNCHANGED <<checkpoint, phase, order, prior, resources, pending, handlers>>
        /\ phase = "destroy" /\ todo # <<>>
        /\ todo' = SubSeq(todo, 1, Len(todo) - 1)
    BY <1>7 DEF DestroyEntry
  <2>2. \A k \in 1..Len(todo') : k \in 1..Len(todo) /\ todo'[k] = todo[k]
    BY <2>1 DEF TypeInv, TypeOK
  <2>3. ParentsFirst(todo', prior')
    BY <2>1, <2>2 DEF Families, ParentsFirst
  <2> QED
    BY <2>1, <2>3 DEF Families, ParentsFirst, ProgramRuns, Running
<1>8. CASE RefreshEntry
  BY <1>8, RefreshFamilies
<1>9. CASE BeginSave
  <2>1. /\ UNCHANGED <<order, prior, resources, todo, handlers>> /\ phase' = "save"
        /\ pending' = [order |-> order, table |-> resources]
        /\ checkpoint'.saved = NoSaved
    BY <1>9 DEF BeginSave, volatile
  <2>2. ProgramRuns' => ProgramRuns
    BY <2>1 DEF ProgramRuns, Running
  <2> QED
    BY <1>0, <2>1, <2>2 DEF Families, ParentsFirst, NoSaved, Running
<1>10. CASE EndPreview \/ EndSave \/ ProgramFails \/ SaveFails \/ Crash
  <2>1. EndRun /\ checkpoint'.saved \in {checkpoint.saved, pending}
    BY <1>10 DEF EndPreview, EndSave, ProgramFails, SaveFails, Crash
  <2>2. /\ order' = <<>> /\ resources' = NoTable /\ pending' = NoSaved
        /\ todo' = <<>> /\ phase' = "idle"
    BY <2>1 DEF EndRun
  <2>3. ~ProgramRuns' /\ \A h \in Handler : ~Running(h)'
    BY <2>1, <2>2, EndRunTypes DEF ProgramRuns, Running
  <2> QED
    BY <1>0, <2>1, <2>2, <2>3 DEF Families, ParentsFirst, NoSaved
<1> QED
  BY <1>1, <1>2, <1>3, <1>4, <1>5, <1>6, <1>7, <1>8, <1>9, <1>10
     DEF Next, EngineStep, HandlerStep

(* However many runs wrote the list, and whatever refresh dropped from it, *)
(* destroy visits children before their parents, provided that statements  *)
(* with the same URN have the same parent.                                 *)
THEOREM SpecDestroyChildrenFirst ==
  ASSUME OneParentEach
  PROVE  Spec => DestroyChildrenFirst
<1>1. TypeInv /\ Families /\ [Next]_vars =>
        [phase = "destroy" /\ todo' # todo
          => \A k \in 1..Len(todo') : prior[todo'[k]].parent # todo[Len(todo)]]_vars
  <2> SUFFICES ASSUME TypeInv, Families, Next, phase = "destroy", todo' # todo,
                      NEW k \in 1..Len(todo')
               PROVE  prior[todo'[k]].parent # todo[Len(todo)]
    OBVIOUS
  <2>1. DestroyEntry
    <3>1. ~BeginDestroy /\ ~BeginRefresh /\ \A preview \in BOOLEAN : ~BeginRun(preview)
      BY DEF BeginDestroy, BeginRefresh, BeginRun
    <3>2. \A h \in Handler, r \in Resource, in \in Input : ~Receive(h, r, in)
      BY DEF Receive
    <3>3. \A h \in Handler : ~HandlerStep(h)
      BY DEF HandlerStep, ProviderCreates, ProviderUpdates, CallFails, Register,
             Drop, volatile
    <3>4. ~RefreshEntry /\ ~BeginSave /\ ~EndSave /\ ~ProgramSucceeds /\ ~EndPreview
          /\ \A u \in Urn : ~DeleteUrn(u)
      BY DEF RefreshEntry, BeginSave, EndSave, ProgramSucceeds, EndPreview,
             DeleteUrn, volatile
    <3>5. \A i \in Id : ~OutOfBand(i)
      BY DEF OutOfBand, volatile
    <3>6. ~ProgramFails /\ ~SaveFails /\ ~Crash
      BY DEF ProgramFails, SaveFails, Crash, EndRun
    <3> QED
      BY <3>1, <3>2, <3>3, <3>4, <3>5, <3>6 DEF Next, EngineStep
  <2>2. todo # <<>> /\ todo' = SubSeq(todo, 1, Len(todo) - 1)
    BY <2>1 DEF DestroyEntry
  <2>3. /\ Len(todo) \in 1..Len(todo) /\ k < Len(todo)
        /\ k \in 1..Len(todo) /\ todo'[k] = todo[k]
    BY <2>2 DEF TypeInv, TypeOK
  <2> QED
    BY <2>3 DEF Families, ParentsFirst
<1>2. Spec => []Families
  BY InitFamilies, NextFamilies, SpecTypeInv, SpecMemoryInv, SpecLists, PTL DEF Spec
<1> QED
  BY <1>1, <1>2, SpecTypeInv, PTL DEF Spec, DestroyChildrenFirst

-----------------------------------------------------------------------------
(* The ledger. Every step of Engine is a step of StackLedger or leaves     *)
(* the ledger unchanged.                                                   *)

(* The ledger's variables, as Engine's instance of StackLedger reads them. *)
Used == {i \in Id : cloud[i] # "unused"}
Live == {i \in Id : cloud[i] = "live"}
Outside == {i \in Id : "outOfBand" \in mishap[i]}
Mapped == <<LedgerTable, Used, Live, NewInHand, Outside>>

HeldNew(i) == \E h \in Handler : /\ handlers[h].pc = "applied"
                                 /\ ~handlers[h].stale
                                 /\ handlers[h].id = i

LEMMA NewInHandIs ==
  ASSUME NEW i
  PROVE  i \in NewInHand <=>
           /\ Has(resources, i) \/ Has(pending.table, i) \/ HeldNew(i)
           /\ ~Has(prior, i)
<1>1. \A t : i \in IdsIn(t) <=> Has(t, i)
  BY DEF IdsIn, Domain, Has, In
<1>2. i \in {handlers[h].id : h \in {g \in Handler :
             handlers[g].pc = "applied" /\ ~handlers[g].stale}} <=> HeldNew(i)
  BY DEF HeldNew
<1> QED
  BY <1>1, <1>2 DEF NewInHand

LEMMA HitInside ==
  ASSUME TypeInv, NEW S, NEW why, why # "outOfBand", Hit(S, why)
  PROVE  Outside' = Outside
BY DEF Hit, Outside, TypeInv, TypeOK

LEMMA LetGoStep ==
  ASSUME UNCHANGED <<LedgerTable, Used, Live, Outside>>, NewInHand' \subseteq NewInHand
  PROVE  [Ledger!Next]_Mapped
<1>1. Ledger!LetGo
  BY DEF Ledger!LetGo, Used, Live, Outside
<1> QED
  BY <1>1 DEF Ledger!Next

(* A step that keeps the file, the provider's objects and prior, and takes *)
(* no new id in hand.                                                      *)
LEMMA QuietStep ==
  ASSUME UNCHANGED <<checkpoint, cloud, prior>>, Outside' = Outside,
         phase' = phase \/ (phase' # "save" /\ phase # "save"),
         \A i : Has(resources', i) \/ Has(pending'.table, i) \/ HeldNew(i)' =>
           Has(resources, i) \/ Has(pending.table, i) \/ HeldNew(i) \/ Has(prior, i)
  PROVE  [Ledger!Next]_Mapped
<1>1. UNCHANGED <<LedgerTable, Used, Live>>
  BY DEF LedgerTable, Used, Live
<1>2. ASSUME NEW i, i \in NewInHand' PROVE i \in NewInHand
  <2>1. /\ Has(resources', i) \/ Has(pending'.table, i) \/ HeldNew(i)'
        /\ ~Has(prior, i)
    <3>1. (i \in NewInHand)' <=>
           /\ Has(resources', i) \/ Has(pending'.table, i) \/ HeldNew(i)'
           /\ ~Has(prior', i)
      <4>1. \A t : i \in IdsIn(t) <=> Has(t, i)
        BY DEF IdsIn, Domain, Has, In
      <4>2. i \in {handlers'[h].id : h \in {g \in Handler :
                  handlers'[g].pc = "applied" /\ ~handlers'[g].stale}} <=> HeldNew(i)'
        BY DEF HeldNew
      <4> QED
        BY <4>1, <4>2 DEF NewInHand
    <3> QED
      BY <1>2, <3>1
  <2> QED
    BY <2>1, NewInHandIs
<1> QED
  BY <1>1, <1>2, LetGoStep

LEMMA BeginLedger ==
  ASSUME TypeInv, MemoryInv,
         (\E preview \in BOOLEAN : BeginRun(preview)) \/ BeginDestroy
           \/ BeginRefresh
  PROVE  [Ledger!Next]_Mapped
<1>1. /\ phase = "idle" /\ phase' # "save"
      /\ UNCHANGED <<checkpoint, cloud, resources, pending, handlers, mishap>>
  BY DEF BeginRun, BeginDestroy, BeginRefresh, world
<1>2. /\ resources = NoTable /\ pending.table = NoTable
      /\ \A h \in Handler : ~Running(h)
  BY <1>1 DEF MemoryInv, MemoryMatchesPhase, NoSaved
<1>3. IdsIn(resources') = {} /\ IdsIn(pending'.table) = {}
  BY <1>1, <1>2 DEF IdsIn, Domain, NoTable
<1>4. {handlers'[h].id : h \in {g \in Handler :
         handlers'[g].pc = "applied" /\ ~handlers'[g].stale}} = {}
  BY <1>1, <1>2 DEF Running
<1>5. NewInHand' = {}
  BY <1>3, <1>4 DEF NewInHand
<1>6. UNCHANGED <<LedgerTable, Used, Live, Outside>>
  BY <1>1 DEF LedgerTable, Used, Live, Outside
<1> QED
  BY <1>5, <1>6, LetGoStep

LEMMA TaskLedger ==
  ASSUME TypeInv, MemoryInv, NEW h \in Handler,
         (\E r \in Resource, in \in Input : Receive(h, r, in))
           \/ ProviderUpdates(h) \/ CallFails(h) \/ Register(h) \/ Drop(h)
  PROVE  [Ledger!Next]_Mapped
<1>1. UNCHANGED <<checkpoint, cloud, prior, phase, pending>>
  BY DEF Receive, ProviderUpdates, CallFails, Register, Drop, volatile, world
<1>2. Outside' = Outside
  <2>1. CASE Register(h)
    BY <2>1 DEF Register, Outside, TypeInv, TypeOK
  <2>2. CASE Drop(h)
    BY <2>2, HitInside DEF Drop
  <2>3. CASE UNCHANGED mishap
    BY <2>3 DEF Outside
  <2> QED
    BY <2>1, <2>2, <2>3 DEF Receive, ProviderUpdates, CallFails
<1>3. ASSUME NEW i, HeldNew(i)' PROVE HeldNew(i) \/ Has(prior, i)
  <2>1. PICK g \in Handler : /\ handlers'[g].pc = "applied" /\ ~handlers'[g].stale
                             /\ handlers'[g].id = i
    BY <1>3 DEF HeldNew
  <2>2. CASE handlers'[g] = handlers[g]
    BY <2>1, <2>2 DEF HeldNew
  <2>3. CASE handlers'[g] # handlers[g]
    <3>1. g = h /\ ProviderUpdates(h)
      <4>1. CASE \E r \in Resource, in \in Input : Receive(h, r, in)
        BY <2>1, <2>3, <4>1 DEF Receive, TypeInv, TypeOK
      <4>2. CASE ProviderUpdates(h)
        BY <2>3, <4>2 DEF ProviderUpdates, TypeInv, TypeOK
      <4>3. CASE handlers' = [handlers EXCEPT ![h] = Idle]
        BY <2>1, <2>3, <4>3 DEF Idle, TypeInv, TypeOK
      <4> QED
        BY <4>1, <4>2, <4>3 DEF CallFails, Register, Drop
    <3>2. /\ Running(h) /\ handlers[h].pc = "call" /\ handlers[h].id = i
          /\ i # None
      BY <2>1, <3>1 DEF ProviderUpdates, Running, TypeInv, TypeOK, HandlerState
    <3>3. handlers[h].id = PriorId(prior[UrnAt(h)]) /\ handlers[h].res \in Resource
      BY <3>2 DEF MemoryInv, IdsFollowPrior, TypeInv, TasksTyped
    <3>4. UrnAt(h) \in Urn /\ In(prior, UrnAt(h), i)
      BY <3>2, <3>3, EngineAssumption DEF PriorId, In, UrnAt
    <3> QED
      BY <3>2, <3>4 DEF Has
  <2> QED
    BY <2>2, <2>3
<1>4. ASSUME NEW i, Has(resources', i)
      PROVE  Has(resources, i) \/ HeldNew(i) \/ Has(prior, i)
  <2>1. CASE UNCHANGED resources
    BY <1>4, <2>1
  <2>2. CASE Register(h)
    <3>1. PICK u \in Urn : In(resources', u, i)
      BY <1>4 DEF Has
    <3>2. CASE u = UrnAt(h)
      <4>1. /\ Running(h) /\ handlers[h].pc \in {"applied", "register"}
            /\ handlers[h].id = i /\ i # None /\ u \in Urn
        BY <1>4, <2>2, <3>1, <3>2, RegisterStep DEF In, Has
      <4>2. CASE handlers[h].pc = "applied"
        BY <4>1, <4>2 DEF HeldNew, Running
      <4>3. CASE handlers[h].pc = "register"
        <5>1. i = PriorId(prior[u])
          BY <3>2, <4>1, <4>3 DEF MemoryInv, IdsFollowPrior
        <5> QED
          BY <4>1, <5>1 DEF PriorId, Has, In
      <4> QED
        BY <4>1, <4>2, <4>3
    <3>3. CASE u # UrnAt(h)
      <4>1. resources'[u] = resources[u]
        BY <2>2, <3>3, RegisterStep
      <4> QED
        BY <1>4, <3>1, <4>1 DEF Has, In
    <3> QED
      BY <3>2, <3>3
  <2> QED
    BY <2>1, <2>2 DEF Receive, ProviderUpdates, CallFails, Drop, volatile
<1> QED
  BY <1>1, <1>2, <1>3, <1>4, QuietStep

(* The provider's answer to a create request makes a new object.           *)
LEMMA CreateLedger ==
  ASSUME TypeInv, Ownership, NEW h \in Handler, NEW n \in Id, ProviderCreates(h, n)
  PROVE  [Ledger!Next]_Mapped
<1>1. /\ cloud[n] = "unused" /\ cloud' = [cloud EXCEPT ![n] = "live"]
      /\ UNCHANGED <<checkpoint, prior, resources, pending, phase, mishap>>
  BY DEF ProviderCreates, volatile
<1>2. /\ n \notin Used /\ Used' = Used \cup {n} /\ Live' = Live \cup {n}
      /\ UNCHANGED <<LedgerTable, Outside>>
  BY <1>1 DEF Used, Live, LedgerTable, Outside, TypeInv, TypeOK
<1>3. ~Has(prior, n)
  BY <1>1 DEF Ownership, Owns, Has
<1>4. /\ handlers[h].pc = "call"
      /\ handlers'[h].pc = "applied" /\ handlers'[h].id = n
      /\ handlers'[h].stale = handlers[h].stale
      /\ \A g \in Handler : g # h => handlers'[g] = handlers[g]
  BY DEF ProviderCreates, TypeInv, TypeOK, HandlerState
<1> DEFINE Held == {handlers[g].id : g \in {k \in Handler :
                      handlers[k].pc = "applied" /\ ~handlers[k].stale}}
<1>5. Held' = Held \cup (IF handlers[h].stale THEN {} ELSE {n})
  BY <1>4
<1>6. n \notin IdsIn(prior)
  BY <1>3 DEF Has, In, IdsIn, Domain
<1>7. NewInHand = (IdsIn(resources) \cup IdsIn(pending.table) \cup Held) \ IdsIn(prior)
  BY DEF NewInHand
<1>8. NewInHand' = (IdsIn(resources) \cup IdsIn(pending.table) \cup Held') \ IdsIn(prior)
  <2>1. IdsIn(resources)' = IdsIn(resources) /\ IdsIn(pending.table)' = IdsIn(pending.table)
        /\ IdsIn(prior)' = IdsIn(prior)
    BY <1>1 DEF IdsIn, Domain
  <2> QED
    BY <2>1 DEF NewInHand
<1> HIDE DEF Held
<1>9. NewInHand' \in {NewInHand, NewInHand \cup {n}}
  BY <1>5, <1>6, <1>7, <1>8
<1>10. Ledger!Create(n)
  BY <1>2, <1>9 DEF Ledger!Create, Used, Live, Outside
<1> QED
  BY <1>10 DEF Ledger!Next

(* Provider::delete is called for objects of the ledger only.              *)
LEMMA DeleteObjectLedger ==
  ASSUME TypeInv, Ownership, NEW u \in Urn, NEW i \in Id,
         In(checkpoint.saved.table, u, i), phase # "save", DeleteObject(i),
         UNCHANGED <<checkpoint, phase, prior, resources, pending, handlers>>
  PROVE  [Ledger!Next]_Mapped
<1>1. UNCHANGED <<LedgerTable, NewInHand>>
  BY DEF LedgerTable, NewInHand, IdsIn, Domain
<1>2. CASE cloud' = [cloud EXCEPT ![i] = "gone"] /\ UNCHANGED mishap
  <2>1. cloud[i] # "unused"
    BY DEF Ownership, Owns
  <2>2. Used' = Used /\ Live' = Live \ {i} /\ Outside' = Outside
    BY <1>2, <2>1 DEF Used, Live, Outside, TypeInv, TypeOK
  <2>3. LedgerTable[u] = i /\ i # None
    BY EngineAssumption DEF LedgerTable, IdTable, In
  <2>4. i \in Ledger!Named(LedgerTable)
    BY <2>3 DEF Ledger!Named
  <2>5. Ledger!Delete(i)
    BY <1>1, <2>2, <2>4 DEF Ledger!Delete, Used, Live, Outside
  <2> QED
    BY <2>5 DEF Ledger!Next
<1>3. CASE Hit({i}, "deleteFailed") /\ UNCHANGED cloud
  <2>1. UNCHANGED <<Used, Live, Outside>>
    BY <1>3, HitInside DEF Used, Live
  <2> QED
    BY <1>1, <2>1, LetGoStep
<1> QED
  BY <1>2, <1>3 DEF DeleteObject

LEMMA LoopLedger ==
  ASSUME TypeInv, MemoryInv, Ownership,
         ProgramSucceeds \/ (\E u \in Urn : DeleteUrn(u)) \/ DestroyEntry
  PROVE  [Ledger!Next]_Mapped
<1>1. /\ phase # "save" /\ phase' # "save"
      /\ UNCHANGED <<checkpoint, prior, resources, pending, handlers>>
  BY DEF ProgramSucceeds, DeleteUrn, DestroyEntry
<1>2. prior = checkpoint.saved.table
  BY DEF ProgramSucceeds, DeleteUrn, DestroyEntry, MemoryInv, MemoryMatchesPhase
<1>3. CASE UNCHANGED <<cloud, mishap>>
  <2>1. Outside' = Outside
    BY <1>3 DEF Outside
  <2>2. \A i : HeldNew(i)' = HeldNew(i)
    BY <1>1 DEF HeldNew
  <2> QED
    BY <1>1, <1>3, <2>1, <2>2, QuietStep
<1>4. ASSUME NEW u \in Urn, DeleteUrn(u), u \notin Component, DeleteObject(prior[u].id)
      PROVE  [Ledger!Next]_Mapped
  <2>1. prior[u] # None
    BY <1>4 DEF DeleteUrn, MemoryInv, MemoryMatchesPhase, Domain
  <2>2. prior[u].id \in Id /\ In(checkpoint.saved.table, u, prior[u].id)
    BY <1>2, <1>4, <2>1 DEF TypeInv, TablesTyped, CustomHasId, In
  <2>3. phase' = phase
    BY <1>4 DEF DeleteUrn
  <2> QED
    BY <1>1, <1>4, <2>2, <2>3, DeleteObjectLedger
<1>5. ASSUME DestroyEntry, todo[Len(todo)] \notin Component,
             DeleteObject(prior[todo[Len(todo)]].id)
      PROVE  [Ledger!Next]_Mapped
  <2> DEFINE u == todo[Len(todo)]
  <2>1. u \in Urn /\ prior[u] # None /\ phase' = phase
    BY <1>5 DEF DestroyEntry, TypeInv, TypeOK, WalkTyped, ListInTable
  <2>2. prior[u].id \in Id /\ In(checkpoint.saved.table, u, prior[u].id)
    BY <1>2, <1>5, <2>1 DEF TypeInv, TablesTyped, CustomHasId, In
  <2> QED
    BY <1>1, <1>5, <2>1, <2>2, DeleteObjectLedger
<1>6. ProgramSucceeds => UNCHANGED <<cloud, mishap>>
  BY DEF ProgramSucceeds, world
<1>7. \A u \in Urn : DeleteUrn(u) =>
         UNCHANGED <<cloud, mishap>> \/ (u \notin Component /\ DeleteObject(prior[u].id))
  BY DEF DeleteUrn
<1>8. DestroyEntry =>
         \/ UNCHANGED <<cloud, mishap>>
         \/ todo[Len(todo)] \notin Component /\ DeleteObject(prior[todo[Len(todo)]].id)
  BY DEF DestroyEntry
<1> QED
  BY <1>3, <1>4, <1>5, <1>6, <1>7, <1>8

LEMMA RefreshLedger ==
  ASSUME TypeInv, MemoryInv, RefreshEntry
  PROVE  [Ledger!Next]_Mapped
<1>1. UNCHANGED <<checkpoint, cloud, prior, phase, pending, handlers, mishap>>
  BY DEF RefreshEntry, world
<1>2. ASSUME NEW i, Has(resources', i) PROVE Has(resources, i) \/ Has(prior, i)
  <2>1. PICK u \in Urn : In(resources', u, i)
    BY <1>2 DEF Has
  <2>2. \/ resources'[u] = resources[u]
        \/ prior[u] # None /\ resources'[u].id = prior[u].id
    BY RefreshStep DEF TypeInv, TypeOK, Table
  <2> QED
    BY <1>2, <2>1, <2>2 DEF Has, In
<1>3. Outside' = Outside /\ \A i : HeldNew(i)' = HeldNew(i)
  BY <1>1 DEF Outside, HeldNew
<1> QED
  BY <1>1, <1>2, <1>3, QuietStep

(* Truncating the file does not change the ledger: the operation still     *)
(* holds what the file said.                                               *)
LEMMA BeginSaveLedger ==
  ASSUME TypeInv, MemoryInv, BeginSave
  PROVE  [Ledger!Next]_Mapped
<1>1. /\ phase \in {"delete", "destroy", "refresh"} /\ phase' = "save"
      /\ pending'.table = resources
      /\ UNCHANGED <<cloud, prior, resources, handlers, mishap>>
  BY DEF BeginSave, ReadyToSave, volatile, world
<1>2. prior = checkpoint.saved.table
  BY <1>1 DEF MemoryInv, MemoryMatchesPhase
<1>3. LedgerTable' = LedgerTable
  BY <1>1, <1>2 DEF LedgerTable
<1>4. UNCHANGED <<Used, Live, Outside>>
  BY <1>1 DEF Used, Live, Outside
<1>5. NewInHand' \subseteq NewInHand
  BY <1>1 DEF NewInHand, IdsIn, Domain
<1> QED
  BY <1>3, <1>4, <1>5, LetGoStep

(* The end of a run leaves nothing in hand.                                *)
LEMMA NothingInHand ==
  ASSUME TypeInv, EndRun
  PROVE  NewInHand' = {}
<1>1. resources' = NoTable /\ pending'.table = NoTable
  BY DEF EndRun, NoSaved
<1>2. IdsIn(resources') = {} /\ IdsIn(pending'.table) = {}
  BY <1>1 DEF IdsIn, Domain, NoTable
<1>3. {handlers'[h].id : h \in {g \in Handler :
         handlers'[g].pc = "applied" /\ ~handlers'[g].stale}} = {}
  BY EndRunTypes
<1> QED
  BY <1>2, <1>3 DEF NewInHand

(* Closing the file commits the new ledger.                                *)
LEMMA EndSaveLedger ==
  ASSUME TypeInv, MemoryInv, Ownership, EndSave
  PROVE  [Ledger!Next]_Mapped
<1> DEFINE new == IdTable(pending.table)
<1>1. /\ phase = "save" /\ phase' = "idle" /\ checkpoint'.saved = pending
      /\ UNCHANGED <<cloud, mishap>>
  BY DEF EndSave, EndRun, world
<1>2. LedgerTable = IdTable(prior) /\ LedgerTable' = new
  BY <1>1 DEF LedgerTable
<1>3. \A u \in Urn : /\ prior[u] \in Entry \cup {None}
                     /\ pending.table[u] \in Entry \cup {None}
  BY DEF TypeInv, TypeOK, Saved, Table
<1>4. new \in Ledger!LedgerOK
  BY <1>3 DEF Ledger!LedgerOK, IdTable, Entry
<1>5. ASSUME NEW u \in Urn, new[u] \notin {None, LedgerTable[u]}
      PROVE  LedgerTable[u] = None /\ new[u] \in NewInHand
  <2>1. /\ pending.table[u] # None /\ new[u] = pending.table[u].id
        /\ new[u] # None /\ new[u] \in Id
    BY <1>3, <1>5 DEF IdTable, Entry
  <2>2. prior[u] = None
    BY <1>1, <1>2, <1>5, <2>1 DEF MemoryInv, IdsFollowPrior, IdTable
  <2>3. Has(pending.table, new[u])
    BY <2>1 DEF Has, In
  <2>4. ~Has(prior, new[u])
    <3> SUFFICES ASSUME NEW v \in Urn, In(prior, v, new[u]) PROVE FALSE
      BY DEF Has
    <3>1. Owns(u, new[u]) /\ Owns(v, new[u])
      BY <2>1 DEF Owns, In
    <3>2. u = v
      BY <2>1, <3>1 DEF Ownership
    <3> QED
      BY <2>2, <3>2 DEF In
  <2> QED
    BY <1>2, <2>2, <2>3, <2>4, NewInHandIs DEF IdTable
<1>6. NewInHand' = {} /\ UNCHANGED <<Used, Live, Outside>>
  BY <1>1, NothingInHand DEF EndSave, Used, Live, Outside
<1> HIDE DEF new
<1>7. Ledger!Commit(new)
  BY <1>2, <1>5, <1>6 DEF Ledger!Commit, Used, Live, Outside
<1> QED
  BY <1>4, <1>7 DEF Ledger!Next

(* A run that ends without a new file lets go of what it created; if it    *)
(* had truncated the file, the ledger is lost.                             *)
LEMMA EndLedger ==
  ASSUME TypeInv, MemoryInv, ProgramFails \/ EndPreview \/ SaveFails \/ Crash
  PROVE  [Ledger!Next]_Mapped
<1>1. EndRun /\ phase' = "idle" /\ UNCHANGED <<checkpoint, cloud>>
  BY DEF ProgramFails, EndPreview, SaveFails, Crash, EndRun, world
<1>2. UNCHANGED <<Used, Live>>
  BY <1>1 DEF Used, Live
<1>3. Outside' = Outside
  <2>1. EndPreview => Outside' = Outside
    BY DEF EndPreview, Outside
  <2> QED
    BY <2>1, HitInside DEF ProgramFails, SaveFails, Crash
<1>4. NewInHand' = {}
  BY <1>1, NothingInHand
<1>5. CASE phase # "save"
  <2>1. LedgerTable' = LedgerTable
    BY <1>1, <1>5 DEF LedgerTable
  <2> QED
    BY <1>2, <1>3, <1>4, <2>1, LetGoStep
<1>6. CASE phase = "save"
  <2>1. checkpoint'.saved.table = NoTable
    BY <1>1, <1>6 DEF MemoryInv, MemoryMatchesPhase, NoSaved
  <2>2. LedgerTable' = Ledger!Empty
    BY <1>1, <2>1 DEF LedgerTable, IdTable, NoTable, Ledger!Empty
  <2>3. Ledger!Lose
    BY <1>2, <1>3, <1>4, <2>2 DEF Ledger!Lose, Used, Live, Outside
  <2> QED
    BY <2>3 DEF Ledger!Next
<1> QED
  BY <1>5, <1>6

LEMMA OutOfBandLedger ==
  ASSUME TypeInv, NEW i \in Id, OutOfBand(i)
  PROVE  [Ledger!Next]_Mapped
<1>1. /\ cloud[i] = "live"
      /\ cloud' = [cloud EXCEPT ![i] = "gone"] \/ UNCHANGED cloud
      /\ Hit({i}, "outOfBand")
      /\ UNCHANGED <<checkpoint, phase, prior, resources, pending, handlers>>
  BY DEF OutOfBand, volatile
<1>2. UNCHANGED <<LedgerTable, NewInHand>>
  BY <1>1 DEF LedgerTable, NewInHand, IdsIn, Domain
<1>3. Outside' = Outside \cup {i}
  BY <1>1 DEF Hit, Outside, TypeInv, TypeOK
<1>4. i \in Live /\ Used' = Used /\ Live' \in {Live, Live \ {i}}
  BY <1>1 DEF Used, Live, TypeInv, TypeOK
<1>5. Ledger!Meddle(i)
  BY <1>2, <1>3, <1>4 DEF Ledger!Meddle, Used, Live, Outside
<1> QED
  BY <1>5 DEF Ledger!Next

LEMMA LedgerStep ==
  ASSUME TypeInv, MemoryInv, Ownership, [Next]_vars
  PROVE  [Ledger!Next]_Mapped
<1>1. CASE UNCHANGED vars
  <2>1. UNCHANGED Mapped
    BY <1>1 DEF vars, Mapped, LedgerTable, Used, Live, NewInHand, Outside,
                IdsIn, Domain
  <2> QED
    BY <2>1
<1>2. CASE (\E preview \in BOOLEAN : BeginRun(preview)) \/ BeginDestroy \/ BeginRefresh
  BY <1>2, BeginLedger
<1>3. CASE \E h \in Handler, r \in Resource, in \in Input : Receive(h, r, in)
  BY <1>3, TaskLedger
<1>4. CASE \E h \in Handler : HandlerStep(h)
  BY <1>4, TaskLedger, CreateLedger DEF HandlerStep
<1>5. CASE EngineStep
  BY <1>5, LoopLedger, EndLedger, RefreshLedger, BeginSaveLedger, EndSaveLedger
     DEF EngineStep
<1>6. CASE ProgramFails \/ SaveFails \/ Crash
  BY <1>6, EndLedger
<1>7. CASE \E i \in Id : OutOfBand(i)
  BY <1>7, OutOfBandLedger
<1> QED
  BY <1>1, <1>2, <1>3, <1>4, <1>5, <1>6, <1>7 DEF Next

LEMMA LedgerInit ==
  ASSUME Init
  PROVE  Ledger!Init
<1>1. /\ phase = "idle" /\ prior = NoTable /\ resources = NoTable
      /\ pending.table = NoTable /\ checkpoint.saved.table = NoTable
      /\ cloud = [i \in Id |-> "unused"] /\ mishap = [i \in Id |-> {}]
      /\ handlers = [h \in Handler |-> Idle]
  BY DEF Init, NoSaved
<1>2. LedgerTable = Ledger!Empty
  BY <1>1 DEF LedgerTable, IdTable, NoTable, Ledger!Empty
<1>3. Used = {} /\ Live = {} /\ Outside = {}
  BY <1>1 DEF Used, Live, Outside
<1>4. NewInHand = {}
  BY <1>1 DEF NewInHand, IdsIn, Domain, NoTable, Idle
<1> QED
  BY <1>2, <1>3, <1>4 DEF Ledger!Init, Used, Live, Outside

(* The engine keeps the ledger's promises in every run, with every fault:  *)
(* it deletes only objects the ledger names, a URN keeps its id as long as *)
(* the ledger has it, a new URN enters with an object created since the    *)
(* last commit, and the ledger changes in one step or is lost to a crash.  *)
THEOREM SpecLedger == Spec => LedgerSpec
<1>1. Init => Ledger!Init
  BY LedgerInit
<1>2. TypeInv /\ MemoryInv /\ Ownership /\ [Next]_vars => [Ledger!Next]_(Ledger!lvars)
  BY LedgerStep DEF Mapped, Used, Live, Outside, Ledger!lvars
<1> QED
  BY <1>1, <1>2, SpecTypeInv, SpecMemoryInv, SpecOwnership, PTL
     DEF Spec, LedgerSpec, Ledger!Spec

-----------------------------------------------------------------------------
(* What keeps an operation going. The guards of EngineStep, with those of  *)
(* the steps it consists of taken together.                                *)
EngineReady ==
  \/ phase = "program" /\ (Quiescent \/ "exitEarly" \in Fault)
  \/ phase \in {"delete", "destroy", "save"}
  \/ /\ phase = "refresh"
     /\ \/ todo = <<>>
        \/ todo[1] \in Component \/ "providerError" \in Fault
        \/ cloud[prior[todo[1]].id] \in {"live", "gone"}

(* The guards of HandlerStep: what the provider can do with a call, and    *)
(* what the task does once it is answered, fails or is dropped.            *)
HandlerReady(h) ==
  LET hs == handlers[h] IN
  \/ hs.pc = "call" /\ hs.id = None /\ \E i \in Id : cloud[i] = "unused"
  \/ hs.pc = "call" /\ hs.id # None /\ cloud[hs.id] \in {"live", "gone"}
  \/ hs.pc = "call" /\ "providerError" \in Fault
  \/ hs.pc \in {"applied", "register"} /\ ~hs.stale
  \/ hs.pc # "idle" /\ (phase # "program" \/ hs.stale)
  \/ hs.pc = "applied" /\ "lostCall" \in Fault

(* While the provider has ids to give, every task can go on, and an        *)
(* operation waits for nothing but its own tasks.                          *)
OperationMoves ==
  (\E i \in Id : cloud[i] = "unused") =>
    /\ \A h \in Handler : handlers[h].pc # "idle" => HandlerReady(h)
    /\ phase # "idle" => EngineReady \/ \E h \in Handler : Running(h)

LEMMA TasksMove ==
  ASSUME TypeInv, Ownership, \E i \in Id : cloud[i] = "unused",
         NEW h \in Handler, handlers[h].pc # "idle"
  PROVE  HandlerReady(h)
<1>1. /\ handlers[h].pc \in {"call", "applied", "register"}
      /\ handlers[h].stale \in BOOLEAN
      /\ handlers[h].id \in Id \cup {None}
      /\ handlers[h].res \in Resource
  BY DEF TypeInv, TypeOK, TasksTyped, HandlerState
<1>2. CASE handlers[h].pc # "call"
  BY <1>1, <1>2 DEF HandlerReady
<1>3. CASE handlers[h].pc = "call" /\ handlers[h].id = None
  BY <1>3 DEF HandlerReady
<1>4. CASE handlers[h].pc = "call" /\ handlers[h].id # None
  <2> DEFINE u == UrnOf[handlers[h].res]
             i == handlers[h].id
  <2>1. u \in Urn /\ i \in Id
    BY <1>1, <1>4, EngineAssumption
  <2>2. Owns(u, i)
    BY <1>4 DEF Owns, HeldFor
  <2> HIDE DEF u
  <2>3. cloud[i] # "unused" /\ cloud[i] \in {"unused", "live", "gone"}
    BY <2>1, <2>2 DEF Ownership, TypeInv, TypeOK
  <2> QED BY <1>4, <2>3 DEF HandlerReady
<1> QED BY <1>2, <1>3, <1>4

LEMMA RefreshMoves ==
  ASSUME TypeInv, Ownership, phase = "refresh"
  PROVE  EngineReady
<1>1. CASE todo = <<>>
  BY <1>1 DEF EngineReady
<1>2. CASE todo # <<>> /\ todo[1] \in Component
  BY <1>2 DEF EngineReady
<1>3. CASE todo # <<>> /\ todo[1] \notin Component
  <2>1. todo \in Seq(Urn) /\ Len(todo) >= 1
    BY <1>3 DEF TypeInv, TypeOK
  <2>2. todo[1] \in Urn \ Component /\ prior[todo[1]] # None
    BY <1>3, <2>1 DEF TypeInv, WalkTyped, ListInTable
  <2> DEFINE i == prior[todo[1]].id
  <2>3. i \in Id
    BY <2>2 DEF TypeInv, TablesTyped, CustomHasId
  <2>4. Owns(todo[1], i)
    BY <2>2 DEF Owns, In
  <2>5. cloud[i] # "unused" /\ cloud[i] \in {"unused", "live", "gone"}
    BY <2>2, <2>3, <2>4 DEF Ownership, TypeInv, TypeOK
  <2> QED BY <2>5 DEF EngineReady
<1> QED BY <1>1, <1>2, <1>3

(* For every program and fault an operation in progress can go on: no loop *)
(* meets an entry it has no step for, and no task is left without an       *)
(* answer that could come. With fairness, OperationEnds.                   *)
THEOREM SpecOperationMoves == Spec => []OperationMoves
<1>1. TypeInv /\ Ownership => OperationMoves
  <2> SUFFICES ASSUME TypeInv, Ownership, \E i \in Id : cloud[i] = "unused"
               PROVE  /\ \A h \in Handler : handlers[h].pc # "idle" => HandlerReady(h)
                      /\ phase # "idle" => EngineReady \/ \E h \in Handler : Running(h)
    BY DEF OperationMoves
  <2>1. phase = "program" => EngineReady \/ \E h \in Handler : Running(h)
    BY DEF EngineReady, Quiescent, Running
  <2>2. phase \in {"idle", "program", "delete", "destroy", "refresh", "save"}
    BY DEF TypeInv, TypeOK
  <2> QED
    BY <2>1, <2>2, TasksMove, RefreshMoves DEF EngineReady
<1> QED
  BY <1>1, SpecTypeInv, SpecOwnership, PTL

-----------------------------------------------------------------------------
(* An operation comes to its end: phases follow one another, and within a  *)
(* phase there is less and less to do.                                     *)
Places == [program |-> 0, delete |-> 1, destroy |-> 1, refresh |-> 1, save |-> 2, idle |-> 3]
Turns == [idle |-> 0, register |-> 1, applied |-> 1, call |-> 2]

Place == Places[phase]
TurnsLeft(h) == Turns[handlers[h].pc]

NotLonger == toDelete' \subseteq toDelete /\ Len(todo') <= Len(todo)
Shorter == phase' = phase /\ NotLonger /\ (toDelete' # toDelete \/ Len(todo') < Len(todo))

(* No step of anybody gives an operation more to do, but for a statement   *)
(* that the program executes for the first time; the engine's steps leave  *)
(* it less, and a task ends after two steps of its own.                    *)
Shrinks ==
  /\ Place' >= Place
  /\ phase' # "idle" => asked \subseteq asked'
  /\ phase' = phase => NotLonger
  /\ EngineStep => Place' > Place \/ Shorter
  /\ \A h \in Handler :
       /\ HandlerStep(h) => TurnsLeft(h)' < TurnsLeft(h)
       /\ \/ TurnsLeft(h)' <= TurnsLeft(h)
          \/ (handlers'[h].res \notin asked /\ handlers'[h].res \in asked')

OperationShrinks == [][phase # "idle" => Shrinks]_vars

LEMMA TaskTurns ==
  ASSUME TypeInv, NEW h \in Handler, HandlerStep(h)
  PROVE  /\ TurnsLeft(h)' < TurnsLeft(h) /\ TurnsLeft(h)' \in 0 .. 2
         /\ \A g \in Handler \ {h} : handlers'[g] = handlers[g]
         /\ UNCHANGED <<phase, asked, toDelete, todo>>
<1>1. /\ handlers \in [Handler -> HandlerState]
      /\ handlers[h].pc \in {"idle", "call", "applied", "register"}
  BY DEF TypeInv, TypeOK, HandlerState
<1>2. /\ \A g \in Handler \ {h} : handlers'[g] = handlers[g]
      /\ UNCHANGED <<phase, asked, toDelete, todo>>
  BY <1>1 DEF HandlerStep, ProviderCreates, ProviderUpdates, CallFails, Register, Drop, volatile
<1>3. CASE (\E i \in Id : ProviderCreates(h, i)) \/ ProviderUpdates(h)
  <2>1. handlers[h].pc = "call" /\ handlers'[h].pc = "applied"
    BY <1>1, <1>3 DEF ProviderCreates, ProviderUpdates, HandlerState
  <2> QED BY <1>2, <2>1 DEF TurnsLeft, Turns
<1>4. CASE CallFails(h) \/ Register(h) \/ Drop(h)
  <2>1. handlers[h].pc # "idle" /\ handlers'[h] = Idle
    BY <1>1, <1>4 DEF CallFails, Register, Drop
  <2>2. handlers'[h].pc = "idle"
    BY <2>1 DEF Idle
  <2> QED BY <1>1, <1>2, <2>1, <2>2 DEF TurnsLeft, Turns
<1> QED BY <1>3, <1>4 DEF HandlerStep

LEMMA LoopShorter ==
  ASSUME TypeInv, EngineStep
  PROVE  Place' > Place \/ Shorter
<1>1. todo \in Seq(Urn)
  BY DEF TypeInv, TypeOK
<1>2. CASE ProgramSucceeds
  BY <1>2 DEF ProgramSucceeds, Place, Places
<1>3. CASE EndPreview \/ EndSave
  BY <1>3 DEF EndPreview, EndSave, EndRun, Place, Places
<1>4. CASE BeginSave
  BY <1>4 DEF BeginSave, ReadyToSave, Place, Places
<1>5. CASE \E u \in Urn : DeleteUrn(u)
  BY <1>1, <1>5 DEF DeleteUrn, Shorter, NotLonger
<1>6. CASE DestroyEntry
  <2>1. Len(todo) \in Nat /\ Len(todo) # 0
    BY <1>1, <1>6 DEF DestroyEntry
  <2>2. todo' = SubSeq(todo, 1, Len(todo) - 1)
    BY <1>6 DEF DestroyEntry
  <2>3. Len(todo') = Len(todo) - 1
    <3>1. CASE Len(todo) = 1
      BY <1>1, <2>2, <3>1
    <3>2. CASE Len(todo) # 1
      <4>1. \A n \in Nat : n = 0 \/ n = 1 \/ n > 1
        OBVIOUS
      <4>2. Len(todo) > 1
        BY <2>1, <3>2, <4>1
      <4> QED BY <1>1, <2>2, <4>2
    <3> QED BY <3>1, <3>2
  <2> QED BY <1>6, <2>1, <2>3 DEF DestroyEntry, Shorter, NotLonger
<1>7. CASE RefreshEntry
  <2>1. Len(todo) \in Nat /\ todo # <<>> /\ todo' = Tail(todo)
    BY <1>1, <1>7 DEF RefreshEntry
  <2>2. Len(todo') = Len(todo) - 1
    BY <1>1, <2>1
  <2> QED BY <1>7, <2>1, <2>2 DEF RefreshEntry, Shorter, NotLonger
<1> QED BY <1>2, <1>3, <1>4, <1>5, <1>6, <1>7 DEF EngineStep

LEMMA EndRunTurns ==
  ASSUME TypeInv, EndRun
  PROVE  Place' = 3 /\ phase' = "idle" /\ \A h \in Handler : TurnsLeft(h)' = TurnsLeft(h)
BY DEF EndRun, TypeInv, TypeOK, HandlerState, Place, Places, TurnsLeft

(* For every program, number of resources and fault: the steps that        *)
(* fairness asks for bring an operation nearer to its end.                 *)
THEOREM SpecOperationShrinks == Spec => OperationShrinks
<1>1. ASSUME TypeInv, Next, phase # "idle" PROVE Shrinks
  <2>1. /\ \A h \in Handler : HandlerStep(h) => TurnsLeft(h)' < TurnsLeft(h)
        /\ EngineStep => Place' > Place \/ Shorter
    BY <1>1, TaskTurns, LoopShorter
  <2>2. /\ phase \in {"program", "delete", "destroy", "refresh", "save"}
        /\ Len(todo) \in Nat /\ Place \in 0 .. 2
        /\ \A h \in Handler : TurnsLeft(h) \in 0 .. 2
    BY <1>1 DEF TypeInv, TypeOK, HandlerState, Place, Places, TurnsLeft, Turns
  <2> DEFINE Rest ==
        /\ Place' >= Place
        /\ phase' # "idle" => asked \subseteq asked'
        /\ phase' = phase => NotLonger
        /\ \A h \in Handler :
             \/ TurnsLeft(h)' <= TurnsLeft(h)
             \/ (handlers'[h].res \notin asked /\ handlers'[h].res \in asked')
  <2> HIDE DEF Rest
  <2>3. ASSUME UNCHANGED <<phase, asked, toDelete, todo, handlers>> PROVE Rest
    <3>1. Place' = Place /\ \A h \in Handler : TurnsLeft(h)' = TurnsLeft(h)
      BY <2>3 DEF Place, TurnsLeft
    <3> QED BY <2>2, <2>3, <3>1 DEF Rest, NotLonger
  <2>4. ASSUME EndRun PROVE Rest
    <3>1. Place' = 3 /\ phase' = "idle" /\ \A h \in Handler : TurnsLeft(h)' = TurnsLeft(h)
      BY <1>1, <2>4, EndRunTurns
    <3> QED BY <1>1, <2>2, <3>1 DEF Rest
  <2>5. ASSUME NEW h \in Handler, HandlerStep(h) PROVE Rest
    <3>1. /\ TurnsLeft(h)' < TurnsLeft(h) /\ UNCHANGED <<phase, asked, toDelete, todo>>
          /\ \A g \in Handler \ {h} : handlers'[g] = handlers[g]
      BY <1>1, <2>5, TaskTurns
    <3>2. \A g \in Handler : g # h => TurnsLeft(g)' = TurnsLeft(g)
      BY <3>1 DEF TurnsLeft
    <3>3. TurnsLeft(h)' <= TurnsLeft(h)
      BY <1>1, <2>2, <2>5, TaskTurns
    <3>4. Place' = Place
      BY <3>1 DEF Place
    <3>5. \A g \in Handler : TurnsLeft(g)' <= TurnsLeft(g)
      BY <2>2, <3>2, <3>3
    <3> QED BY <2>2, <3>1, <3>4, <3>5 DEF Rest, NotLonger
  <2>6. ASSUME NEW h \in Handler, NEW r \in Resource, NEW in \in Input, Receive(h, r, in)
        PROVE  Rest
    <3>1. /\ UNCHANGED <<phase, toDelete, todo>> /\ asked' = asked \cup {r} /\ r \notin asked
          /\ handlers'[h].res = r /\ \A g \in Handler : g # h => handlers'[g] = handlers[g]
      BY <1>1, <2>6 DEF Receive, TypeInv, TypeOK
    <3>2. \A g \in Handler : g # h => TurnsLeft(g)' = TurnsLeft(g)
      BY <3>1 DEF TurnsLeft
    <3>3. Place' = Place
      BY <3>1 DEF Place
    <3>4. \A g \in Handler : g # h => TurnsLeft(g)' <= TurnsLeft(g)
      BY <2>2, <3>2
    <3> QED BY <2>2, <3>1, <3>3, <3>4 DEF Rest, NotLonger
  <2>7. ASSUME EngineStep PROVE Rest
    <3>1. CASE EndPreview \/ EndSave
      BY <2>4, <3>1 DEF EndPreview, EndSave
    <3>2. CASE ~EndPreview /\ ~EndSave
      <4>1. UNCHANGED <<asked, handlers>>
        BY <2>7, <3>2 DEF EngineStep, ProgramSucceeds, DeleteUrn, DestroyEntry, RefreshEntry,
                          BeginSave, volatile
      <4>2. phase' # "idle"
        BY <1>1, <2>7, <3>2 DEF EngineStep, ProgramSucceeds, DeleteUrn, DestroyEntry,
                                RefreshEntry, BeginSave
      <4>3. Place' \in 0 .. 3
        BY <2>2, <2>7, <3>2 DEF EngineStep, ProgramSucceeds, DeleteUrn, DestroyEntry,
                                RefreshEntry, BeginSave, Place, Places
      <4>4. \A h \in Handler : TurnsLeft(h)' = TurnsLeft(h)
        BY <4>1 DEF TurnsLeft
      <4>5. CASE Shorter
        <5>1. Place' = Place /\ NotLonger
          BY <4>5 DEF Shorter, Place
        <5> QED BY <2>2, <4>1, <4>4, <5>1 DEF Rest
      <4>6. CASE Place' > Place
        <5>1. Place' >= Place /\ Place' # Place
          BY <2>2, <4>3, <4>6
        <5>2. phase' # phase
          BY <5>1 DEF Place
        <5> QED BY <2>2, <4>1, <4>4, <5>1, <5>2 DEF Rest
      <4> QED BY <2>1, <2>7, <4>5, <4>6
    <3> QED BY <3>1, <3>2
  <2>8. ASSUME ProgramFails \/ SaveFails \/ Crash PROVE Rest
    BY <2>4, <2>8 DEF ProgramFails, SaveFails, Crash
  <2>9. ASSUME \E i \in Id : OutOfBand(i) PROVE Rest
    BY <2>3, <2>9 DEF OutOfBand, volatile
  <2>10. (\A preview \in BOOLEAN : ~BeginRun(preview)) /\ ~BeginDestroy /\ ~BeginRefresh
    BY <1>1 DEF BeginRun, BeginDestroy, BeginRefresh
  <2>11. Rest
    BY <1>1, <2>5, <2>6, <2>7, <2>8, <2>9, <2>10 DEF Next
  <2> QED BY <2>1, <2>11 DEF Rest, Shrinks
<1>2. TypeInv /\ [Next]_vars => [phase # "idle" => Shrinks]_vars
  BY <1>1
<1> QED
  BY <1>2, SpecTypeInv, PTL DEF Spec, OperationShrinks
=============================================================================
