-------------------------- MODULE EngineLossProofs --------------------------
(***************************************************************************)
(* The engine loses track of an object, records one that is gone or keeps  *)
(* stale inputs of one only by a mishap that its history names.            *)
(***************************************************************************)
EXTENDS EngineProofs

Lives(i) == i \in Id /\ cloud[i] = "live"

-----------------------------------------------------------------------------
(* What every step leaves of the history and of the provider's objects.    *)

LEMMA HitGrows ==
  ASSUME TypeInv, NEW S, NEW why, Hit(S, why)
  PROVE  \A i \in Id : /\ mishap[i] \subseteq mishap'[i]
                       /\ i \in S => why \in mishap'[i]
BY DEF Hit, TypeInv, TypeOK

(* What Register adds to the history of the ids it touches.                *)
LEMMA RegisterMishaps ==
  ASSUME TypeInv, NEW h \in Handler, Register(h), NEW i \in Id
  PROVE  LET w == UrnAt(h) IN
         /\ mishap[i] \subseteq mishap'[i]
         /\ /\ ~dry /\ resources[w] # None /\ resources'[w] # resources[w]
            /\ i \in {resources[w].id, handlers[h].id}
            => "duplicateUrn" \in mishap'[i]
         /\ /\ phase = "save" \/ (phase = "delete" /\ ~dry /\ w \in DeletedUrns)
            /\ i = handlers[h].id
            => "lateRegister" \in mishap'[i]
<1> DEFINE hs == handlers[h]
           w == UrnAt(h)
           parent == ParentOf[hs.res]
           new == [id |-> hs.id, inputs |-> hs.inputs,
                   parent |-> IF parent = None THEN None ELSE UrnOf[parent],
                   outputs |-> IF hs.pc = "applied" THEN "provider" ELSE "program"]
           clash == IF ~dry /\ resources[w] # None /\ resources[w] # new
                    THEN {resources[w].id, hs.id} ELSE {}
           late == IF phase = "save" \/ (phase = "delete" /\ ~dry /\ w \in DeletedUrns)
                   THEN {hs.id} ELSE {}
<1>1. /\ resources' = [resources EXCEPT ![w] = new]
      /\ mishap' = [j \in Id |-> mishap[j]
                      \cup (IF j \in clash THEN {"duplicateUrn"} ELSE {})
                      \cup (IF j \in late THEN {"lateRegister"} ELSE {})]
  BY DEF Register, UrnAt
<1>2. w \in Urn
  BY RegisterStep
<1>3. resources'[w] = new
  BY <1>1, <1>2 DEF TypeInv, TypeOK, Table
<1> HIDE DEF new
<1> QED
  BY <1>1, <1>3

(* Nothing is struck from the history of an object.                        *)
LEMMA MishapGrows ==
  ASSUME TypeInv, [Next]_vars, NEW i \in Id
  PROVE  mishap[i] \subseteq mishap'[i]
<1>1. CASE UNCHANGED mishap
  BY <1>1
<1>2. CASE \E S : \E why : Hit(S, why)
  BY <1>2, HitGrows
<1>3. CASE \E h \in Handler : Register(h)
  BY <1>3, RegisterMishaps
<1>4. \/ UNCHANGED mishap
      \/ \E S : \E why : Hit(S, why)
      \/ \E h \in Handler : Register(h)
  <2>1. CASE \E h \in Handler : HandlerStep(h)
    BY <2>1 DEF HandlerStep, ProviderCreates, ProviderUpdates, CallFails, Drop
  <2>2. CASE EngineStep
    BY <2>2 DEF EngineStep, ProgramSucceeds, DeleteUrn, DeleteObject, EndPreview,
                DestroyEntry, RefreshEntry, BeginSave, EndSave
  <2>3. CASE \/ UNCHANGED vars
             \/ \E preview \in BOOLEAN : BeginRun(preview)
             \/ \E h \in Handler, r \in Resource, in \in Input : Receive(h, r, in)
             \/ ProgramFails \/ BeginDestroy \/ BeginRefresh
             \/ (\E n \in Id : OutOfBand(n)) \/ SaveFails \/ Crash
    BY <2>3 DEF vars, BeginRun, Receive, ProgramFails, BeginDestroy, BeginRefresh,
                OutOfBand, SaveFails, Crash
  <2> QED
    BY <2>1, <2>2, <2>3 DEF Next
<1> QED
  BY <1>1, <1>2, <1>3, <1>4

(* An object that the engine knows does not come back to life.             *)
LEMMA NoResurrection ==
  ASSUME TypeInv, Ownership, [Next]_vars, NEW u \in Urn, NEW i \in Id,
         Owns(u, i), cloud'[i] = "live"
  PROVE  cloud[i] = "live"
<1> HIDE DEF Owns
<1>1. cloud[i] # "unused"
  BY DEF Ownership
<1>2. CASE \E h \in Handler, n \in Id : ProviderCreates(h, n)
  BY <1>1, <1>2 DEF ProviderCreates, TypeInv, TypeOK
<1>3. CASE UNCHANGED cloud
  BY <1>3
<1>4. CASE \E n : cloud' = [cloud EXCEPT ![n] = "gone"]
  BY <1>4 DEF TypeInv, TypeOK
<1>5. \/ \E h \in Handler, n \in Id : ProviderCreates(h, n)
      \/ UNCHANGED cloud
      \/ \E n : cloud' = [cloud EXCEPT ![n] = "gone"]
  <2>1. CASE \E h \in Handler : HandlerStep(h)
    BY <2>1 DEF HandlerStep, ProviderUpdates, CallFails, Register, Drop, world
  <2>2. CASE EngineStep
    BY <2>2 DEF EngineStep, ProgramSucceeds, DeleteUrn, DeleteObject, EndPreview,
                DestroyEntry, RefreshEntry, BeginSave, EndSave, world
  <2>3. CASE \/ UNCHANGED vars
             \/ \E preview \in BOOLEAN : BeginRun(preview)
             \/ \E h \in Handler, r \in Resource, in \in Input : Receive(h, r, in)
             \/ ProgramFails \/ BeginDestroy \/ BeginRefresh
             \/ (\E n \in Id : OutOfBand(n)) \/ SaveFails \/ Crash
    BY <2>3 DEF vars, BeginRun, Receive, ProgramFails, BeginDestroy, BeginRefresh,
                OutOfBand, SaveFails, Crash, world
  <2> QED
    BY <2>1, <2>2, <2>3 DEF Next
<1> QED
  BY <1>2, <1>3, <1>4, <1>5

-----------------------------------------------------------------------------
(* Leaks. NoSilentLeak is not inductive: that the file being closed has    *)
(* every object of the one it replaces depends on what the loops visited.  *)

Excused(i) == mishap[i] \cap LeakCause # {}

(* A task holds an object the provider acted on.                           *)
HeldAny(i) == \E h \in Handler : handlers[h].pc = "applied" /\ handlers[h].id = i

Tracked(i) == \/ Has(checkpoint.saved.table, i)
              \/ Has(prior, i)
              \/ Has(resources, i)
              \/ Has(pending.table, i)
              \/ HeldAny(i)

NothingLost == \A i \in Id : Lives(i) => Tracked(i) \/ Excused(i)

(* The live objects of prior that the rest of the operation passes by.     *)
VisitedAreTracked ==
  \A u \in Urn \ Component : prior[u] # None /\ Lives(prior[u].id) =>
    /\ phase = "delete" /\ ~dry =>
         u \in toDelete \/ resources[u] # None \/ Excused(prior[u].id)
    /\ phase = "destroy" =>
         (\E k \in 1..Len(todo) : todo[k] = u) \/ Excused(prior[u].id)
    /\ phase = "refresh" =>
         (\E k \in 1..Len(todo) : todo[k] = u) \/ resources[u] # None
    /\ phase = "save" =>
         pending.table[u] # None \/ Excused(prior[u].id)

(* A registration that comes after to_checkpoint is excused.               *)
LateIsExcused ==
  phase = "save" =>
    \A u \in Urn : resources[u] # None /\ Lives(resources[u].id) =>
      In(pending.table, u, resources[u].id) \/ Excused(resources[u].id)

LeakInv == NothingLost /\ VisitedAreTracked /\ LateIsExcused

THEOREM InitLeakInv == Init => LeakInv
<1> SUFFICES ASSUME Init PROVE LeakInv
  OBVIOUS
<1>1. \A i \in Id : ~Lives(i)
  BY DEF Init, Lives
<1>2. phase = "idle"
  BY DEF Init
<1> QED
  BY <1>1, <1>2 DEF LeakInv, NothingLost, VisitedAreTracked, LateIsExcused

LEMMA ExcusedStays ==
  ASSUME TypeInv, [Next]_vars, NEW i \in Id, Excused(i)
  PROVE  Excused(i)'
<1>1. mishap[i] \subseteq mishap'[i]
  BY MishapGrows
<1> QED
  BY <1>1 DEF Excused

LEMMA LivedBefore ==
  ASSUME TypeInv, Ownership, [Next]_vars, NEW u \in Urn, NEW i, Lives(i)',
         Owns(u, i)
  PROVE  Lives(i)
BY NoResurrection DEF Lives

(* A step keeps NothingLost if it keeps track of what was live before it.  *)
LEMMA KeepsTrack ==
  ASSUME TypeInv, Ownership, NothingLost, [Next]_vars,
         \A i \in Id : Tracked(i) /\ Lives(i)' => Tracked(i)' \/ Excused(i)',
         \A i \in Id : Lives(i)' => Lives(i) \/ Tracked(i)'
  PROVE  NothingLost'
<1> SUFFICES ASSUME NEW i \in Id, Lives(i)' PROVE Tracked(i)' \/ Excused(i)'
  BY DEF NothingLost
<1> HIDE DEF Tracked, Lives, Excused
<1>1. CASE Excused(i)
  BY <1>1, ExcusedStays
<1>2. CASE ~Excused(i)
  BY <1>2 DEF NothingLost
<1> QED
  BY <1>1, <1>2

(* A step that leaves the memory alone passes no object by.                *)
LEMMA PassedOver ==
  ASSUME VisitedAreTracked, LateIsExcused,
         UNCHANGED <<phase, dry, prior, resources, toDelete, todo, pending>>,
         \A u \in Urn : \A i : Owns(u, i) /\ Lives(i)' => Lives(i),
         \A i : Lives(i) /\ Excused(i) => Excused(i)'
  PROVE  VisitedAreTracked' /\ LateIsExcused'
<1>1. \A u \in Urn : /\ prior[u] # None => Owns(u, prior[u].id)
                     /\ resources[u] # None => Owns(u, resources[u].id)
  BY DEF Owns, In
<1> HIDE DEF Owns
<1>2. \A u \in Urn :
        /\ prior[u] # None /\ Lives(prior[u].id)' =>
             Lives(prior[u].id) /\ (Excused(prior[u].id) => Excused(prior[u].id)')
        /\ resources[u] # None /\ Lives(resources[u].id)' =>
             Lives(resources[u].id)
               /\ (Excused(resources[u].id) => Excused(resources[u].id)')
  BY <1>1 DEF Lives, Excused
<1>3. VisitedAreTracked'
  BY <1>2 DEF VisitedAreTracked, Lives, Excused
<1>4. LateIsExcused'
  BY <1>2 DEF LateIsExcused, In, Lives, Excused
<1> QED
  BY <1>3, <1>4

LEMMA BeginLeak ==
  ASSUME TypeInv, Ownership, MemoryInv, Lists, LeakInv, [Next]_vars,
         (\E preview \in BOOLEAN : BeginRun(preview)) \/ BeginDestroy
           \/ BeginRefresh
  PROVE  LeakInv'
<1>1. /\ phase = "idle" /\ phase' \in {"program", "destroy", "refresh"}
      /\ phase' \in {"destroy", "refresh"} => todo' = checkpoint.saved.order
      /\ prior' = checkpoint.saved.table
      /\ UNCHANGED <<checkpoint, cloud, resources, pending, handlers, mishap>>
  BY DEF BeginRun, BeginDestroy, BeginRefresh, world
<1>2. prior = NoTable
  BY <1>1 DEF MemoryInv, MemoryMatchesPhase
<1>3. \A i : ~Has(prior, i)
  BY <1>2 DEF Has, In, NoTable
<1>4. \A i : Lives(i)' = Lives(i)
  BY <1>1 DEF Lives
<1>5. \A i \in Id : Tracked(i) => Tracked(i)'
  BY <1>1, <1>3 DEF Tracked, HeldAny
<1>6. NothingLost'
  BY <1>4, <1>5, KeepsTrack DEF LeakInv
<1>7. VisitedAreTracked'
  BY <1>1 DEF VisitedAreTracked, Lists, Covers
<1> QED
  BY <1>1, <1>6, <1>7 DEF LeakInv, LateIsExcused

(* A step of a task that leaves the memory alone.                          *)
LEMMA TaskLeak ==
  ASSUME TypeInv, Ownership, MemoryInv, LeakInv, [Next]_vars, NEW h \in Handler,
         \/ \E r \in Resource, in \in Input : Receive(h, r, in)
         \/ \E i \in Id : ProviderCreates(h, i)
         \/ ProviderUpdates(h) \/ CallFails(h) \/ Drop(h)
  PROVE  LeakInv'
<1>1. UNCHANGED <<checkpoint, phase, dry, prior, resources, toDelete, todo, pending>>
  BY DEF Receive, ProviderCreates, ProviderUpdates, CallFails, Drop, volatile, world
<1>2. \A i \in Id : HeldAny(i) => HeldAny(i)' \/ Excused(i)'
  <2>1. CASE Drop(h)
    <3>1. ASSUME NEW i \in Id, HeldAny(i), ~HeldAny(i)' PROVE Excused(i)'
      <4>1. handlers[h].pc = "applied" /\ handlers[h].id = i
        BY <2>1, <3>1 DEF Drop, HeldAny, TypeInv, TypeOK
      <4>2. "abandoned" \in mishap'[i]
        BY <2>1, <4>1, HitGrows DEF Drop
      <4> QED
        BY <4>2 DEF Excused, LeakCause
    <3> QED
      BY <3>1
  <2>2. CASE CallFails(h)
    BY <2>2 DEF CallFails, HeldAny, TypeInv, TypeOK
  <2>3. CASE \E r \in Resource, in \in Input : Receive(h, r, in)
    BY <2>3 DEF Receive, HeldAny, TypeInv, TypeOK
  <2>4. ASSUME NEW n \in Id, ProviderCreates(h, n), NEW i \in Id, HeldAny(i)
        PROVE  HeldAny(i)'
    BY <2>4 DEF ProviderCreates, HeldAny, TypeInv, TypeOK
  <2>5. CASE ProviderUpdates(h)
    BY <2>5 DEF ProviderUpdates, HeldAny, TypeInv, TypeOK
  <2> QED
    BY <2>1, <2>2, <2>3, <2>4, <2>5
<1>3. \A i \in Id : Lives(i)' => Lives(i) \/ HeldAny(i)'
  <2>1. ASSUME NEW n \in Id, ProviderCreates(h, n), NEW i \in Id, Lives(i)'
        PROVE  Lives(i) \/ HeldAny(i)'
    <3>1. handlers'[h].pc = "applied" /\ handlers'[h].id = n
      BY <2>1 DEF ProviderCreates, TypeInv, TypeOK, HandlerState
    <3>2. i # n => cloud'[i] = cloud[i]
      BY <2>1 DEF ProviderCreates, TypeInv, TypeOK
    <3> QED
      BY <2>1, <3>1, <3>2 DEF Lives, HeldAny
  <2>2. CASE UNCHANGED cloud
    BY <2>2 DEF Lives
  <2> QED
    BY <2>1, <2>2 DEF Receive, ProviderUpdates, CallFails, Drop, world
<1>4. \A i : Has(prior', i) = Has(prior, i) /\ Has(resources', i) = Has(resources, i)
  BY <1>1
<1>5. NothingLost'
  <2>1. \A i \in Id : Tracked(i) => Tracked(i)' \/ Excused(i)'
    BY <1>1, <1>2 DEF Tracked
  <2>2. \A i \in Id : Lives(i)' => Lives(i) \/ Tracked(i)'
    BY <1>3 DEF Tracked
  <2> HIDE DEF Tracked
  <2> QED
    BY <2>1, <2>2, KeepsTrack DEF LeakInv
<1>6. \A u \in Urn : \A i : Owns(u, i) /\ Lives(i)' => Lives(i)
  BY LivedBefore
<1>7. \A i : Lives(i) /\ Excused(i) => Excused(i)'
  BY ExcusedStays DEF Lives
<1>8. VisitedAreTracked' /\ LateIsExcused'
  BY <1>1, <1>6, <1>7, PassedOver DEF LeakInv
<1> QED
  BY <1>5, <1>8 DEF LeakInv

LEMMA RegisterLeak ==
  ASSUME TypeInv, Ownership, MemoryInv, LeakInv, [Next]_vars, NEW h \in Handler,
         Register(h)
  PROVE  LeakInv'
<1> DEFINE w == UrnAt(h)
<1>1. /\ w \in Urn /\ handlers[h].pc \in {"applied", "register"}
      /\ resources'[w] # None /\ resources'[w].id = handlers[h].id
      /\ \A u \in Urn : u # w => resources'[u] = resources[u]
      /\ \A g \in Handler : g # h => handlers'[g] = handlers[g]
      /\ UNCHANGED <<checkpoint, cloud, phase, dry, prior, toDelete, todo, pending>>
  BY RegisterStep DEF world
<1>2. \A i \in Id : HeldAny(i) => HeldAny(i)' \/ Has(resources', i)
  <2> SUFFICES ASSUME NEW i \in Id, HeldAny(i), ~HeldAny(i)'
               PROVE  Has(resources', i)
    OBVIOUS
  <2>1. handlers[h].id = i
    BY <1>1 DEF HeldAny
  <2> QED
    BY <1>1, <2>1, EngineAssumption DEF Has, In
<1>3. \A i \in Id : Has(resources, i) =>
         Has(resources', i) \/ Has(prior, i) \/ Excused(i)'
  <2> SUFFICES ASSUME NEW i \in Id, Has(resources, i), ~Has(resources', i)
               PROVE  Has(prior, i) \/ Excused(i)'
    OBVIOUS
  <2>1. resources[w] # None /\ resources[w].id = i /\ resources'[w] # resources[w]
    BY <1>1 DEF Has, In
  <2>2. CASE dry
    <3>1. i = PriorId(prior[w])
      BY <1>1, <2>1, <2>2 DEF MemoryInv, DryCallsNothing, IdsFollowPrior
    <3> QED
      BY <1>1, <3>1, EngineAssumption DEF PriorId, Has, In
  <2>3. CASE ~dry
    <3>1. "duplicateUrn" \in mishap'[i]
      BY <2>1, <2>3, RegisterMishaps
    <3> QED
      BY <3>1 DEF Excused, LeakCause
  <2> QED
    BY <2>2, <2>3
<1>4. NothingLost'
  <2>1. \A i \in Id : Tracked(i) => Tracked(i)' \/ Excused(i)'
    BY <1>1, <1>2, <1>3 DEF Tracked
  <2>2. \A i : Lives(i)' => Lives(i)
    BY <1>1 DEF Lives
  <2> HIDE DEF Tracked
  <2> QED
    BY <2>1, <2>2, KeepsTrack DEF LeakInv
<1>5. \A i \in Id : Excused(i) => Excused(i)'
  BY ExcusedStays
<1>6. VisitedAreTracked'
  BY <1>1, <1>5 DEF LeakInv, VisitedAreTracked, Lives, Excused
<1>7. LateIsExcused'
  <2> SUFFICES ASSUME phase = "save", NEW u \in Urn, resources'[u] # None,
                      resources'[u].id \in Id, cloud[resources'[u].id] = "live"
               PROVE  In(pending.table, u, resources'[u].id)
                        \/ mishap'[resources'[u].id] \cap LeakCause # {}
    BY <1>1 DEF LateIsExcused, In, Excused, Lives
  <2>2. CASE u = w
    <3>1. "lateRegister" \in mishap'[resources'[u].id]
      BY <1>1, <2>2, RegisterMishaps
    <3> QED
      BY <3>1 DEF LeakCause
  <2>3. CASE u # w
    <3>1. In(pending.table, u, resources[u].id) \/ Excused(resources[u].id)
      BY <1>1, <2>3 DEF LeakInv, LateIsExcused, Lives
    <3> QED
      BY <1>1, <1>5, <2>3, <3>1 DEF Excused
  <2> QED
    BY <2>2, <2>3
<1> QED
  BY <1>4, <1>6, <1>7 DEF LeakInv

(* One more object is visited by the delete loop or by destroy's.          *)
LEMMA DeleteObjectExcuses ==
  ASSUME TypeInv, NEW i \in Id, DeleteObject(i), cloud'[i] = "live"
  PROVE  Excused(i)'
<1>1. "deleteFailed" \in mishap'[i]
  BY HitGrows DEF DeleteObject, TypeInv, TypeOK
<1> QED
  BY <1>1 DEF Excused, LeakCause

LEMMA LoopLeak ==
  ASSUME TypeInv, Ownership, MemoryInv, LeakInv, [Next]_vars,
         ProgramSucceeds \/ (\E u \in Urn : DeleteUrn(u)) \/ DestroyEntry
           \/ (\E i \in Id : OutOfBand(i))
  PROVE  LeakInv'
<1>1. UNCHANGED <<checkpoint, dry, prior, resources, pending, handlers>>
  BY DEF ProgramSucceeds, DeleteUrn, DestroyEntry, OutOfBand, volatile
<1>2. \A i : Lives(i)' => Lives(i)
  BY DEF ProgramSucceeds, DeleteUrn, DestroyEntry, OutOfBand, DeleteObject,
         world, Lives, TypeInv, TypeOK
<1>3. NothingLost'
  <2>1. \A i \in Id : Tracked(i) => Tracked(i)'
    BY <1>1 DEF Tracked, HeldAny
  <2> HIDE DEF Tracked
  <2> QED
    BY <1>2, <2>1, KeepsTrack DEF LeakInv
<1>4. \A i : Lives(i) /\ Excused(i) => Excused(i)'
  BY ExcusedStays DEF Lives
<1>5. CASE \E i \in Id : OutOfBand(i)
  <2>1. UNCHANGED <<phase, dry, prior, resources, toDelete, todo, pending>>
    BY <1>5 DEF OutOfBand, volatile
  <2> QED
    BY <1>2, <1>3, <1>4, <2>1, PassedOver DEF LeakInv
<1>6. CASE ProgramSucceeds
  <2>1. /\ phase' = "delete" /\ toDelete' = DeletedUrns /\ phase = "program"
    BY <1>6 DEF ProgramSucceeds
  <2>2. VisitedAreTracked' /\ LateIsExcused'
    BY <1>1, <2>1 DEF VisitedAreTracked, LateIsExcused, DeletedUrns, Domain
  <2> QED
    BY <1>3, <2>2 DEF LeakInv
<1>7. ASSUME NEW w \in Urn, DeleteUrn(w) PROVE LeakInv'
  <2>1. /\ phase = "delete" /\ phase' = "delete" /\ toDelete' = toDelete \ {w}
        /\ w \in toDelete /\ todo' = todo
        /\ w \notin Component /\ ~dry => DeleteObject(prior[w].id)
    BY <1>7 DEF DeleteUrn
  <2>2. w \notin Component => prior[w].id \in Id
    BY <2>1 DEF MemoryInv, MemoryMatchesPhase, Domain, TypeInv, TablesTyped,
                CustomHasId
  <2>3. w \notin Component /\ ~dry /\ Lives(prior[w].id)' => Excused(prior[w].id)'
    BY <1>1, <2>1, <2>2, DeleteObjectExcuses DEF Lives, Excused
  <2>4. ASSUME NEW u \in Urn \ Component, prior[u] # None, Lives(prior[u].id)', ~dry
        PROVE  u \in toDelete' \/ resources[u] # None \/ Excused(prior[u].id)'
    <3>1. Lives(prior[u].id)
      BY <1>1, <1>2, <2>4 DEF Lives
    <3>2. u \in toDelete \/ resources[u] # None \/ Excused(prior[u].id)
      BY <2>1, <2>4, <3>1 DEF LeakInv, VisitedAreTracked
    <3>3. Excused(prior[u].id) => Excused(prior[u].id)'
      BY <1>1, <1>4, <3>1 DEF Excused, Lives
    <3> QED
      BY <2>1, <2>3, <2>4, <3>2, <3>3
  <2>5. VisitedAreTracked'
    BY <1>1, <2>1, <2>4 DEF VisitedAreTracked, Lives, Excused
  <2>6. LateIsExcused'
    BY <2>1 DEF LateIsExcused
  <2> QED
    BY <1>3, <2>5, <2>6 DEF LeakInv
<1>8. CASE DestroyEntry
  <2> DEFINE w == todo[Len(todo)]
  <2>1. /\ phase = "destroy" /\ phase' = "destroy" /\ todo # <<>>
        /\ todo' = SubSeq(todo, 1, Len(todo) - 1)
        /\ w \notin Component => DeleteObject(prior[w].id)
    BY <1>8 DEF DestroyEntry
  <2>2. w \in Urn /\ (w \notin Component => prior[w].id \in Id)
    BY <2>1 DEF TypeInv, TypeOK, WalkTyped, ListInTable, TablesTyped, CustomHasId
  <2>3. w \notin Component /\ cloud'[prior[w].id] = "live" =>
          mishap'[prior[w].id] \cap LeakCause # {}
    BY <2>1, <2>2, DeleteObjectExcuses DEF Excused
  <2>4. \A k \in 1..Len(todo) : /\ todo[k] = w \/ k \in 1..Len(todo')
                                /\ k \in 1..Len(todo') => todo'[k] = todo[k]
    BY <2>1 DEF TypeInv, TypeOK
  <2> HIDE DEF w
  <2>5. ASSUME NEW u \in Urn \ Component, prior[u] # None, Lives(prior[u].id)'
        PROVE  (\E k \in 1..Len(todo') : todo'[k] = u) \/ Excused(prior[u].id)'
    <3>1. Lives(prior[u].id)
      BY <1>1, <1>2, <2>5 DEF Lives
    <3>2. (\E k \in 1..Len(todo) : todo[k] = u) \/ Excused(prior[u].id)
      BY <2>1, <2>5, <3>1 DEF LeakInv, VisitedAreTracked
    <3>3. Excused(prior[u].id) => Excused(prior[u].id)'
      BY <1>1, <1>4, <3>1 DEF Excused, Lives
    <3>4. CASE u = w
      BY <1>1, <2>3, <2>5, <3>4 DEF Lives, Excused
    <3>5. CASE Excused(prior[u].id)
      BY <3>3, <3>5
    <3>6. ASSUME u # w, NEW k \in 1..Len(todo), todo[k] = u
          PROVE  \E j \in 1..Len(todo') : todo'[j] = u
      BY <2>4, <3>6
    <3> QED
      BY <3>2, <3>4, <3>5, <3>6
  <2>6. VisitedAreTracked'
    BY <1>1, <2>1, <2>5 DEF VisitedAreTracked, Lives, Excused
  <2>7. LateIsExcused'
    BY <2>1 DEF LateIsExcused
  <2> QED
    BY <1>3, <2>6, <2>7 DEF LeakInv
<1> QED
  BY <1>5, <1>6, <1>7, <1>8

LEMMA RefreshLeak ==
  ASSUME TypeInv, Ownership, MemoryInv, Lists, LeakInv, [Next]_vars, RefreshEntry
  PROVE  LeakInv'
<1> DEFINE w == todo[1]
<1>1. /\ phase = "refresh" /\ todo # <<>> /\ todo' = Tail(todo)
      /\ UNCHANGED <<checkpoint, cloud, phase, dry, prior, pending, handlers, mishap>>
  BY DEF RefreshEntry, world
<1>2. /\ w \in Urn /\ prior[w] # None
      /\ \/ UNCHANGED resources /\ cloud[prior[w].id] = "gone"
         \/ \E e \in Entry : resources' = [resources EXCEPT ![w] = e]
  BY RefreshStep
<1>3. resources[w] = None
  BY <1>1 DEF Lists, TypeInv, TypeOK
<1>4. /\ \A u \in Urn : resources[u] # None => resources'[u] = resources[u]
      /\ resources'[w] # None \/ cloud[prior[w].id] = "gone"
  BY <1>2, <1>3, EngineAssumption DEF TypeInv, TypeOK, Table
<1>5. NothingLost'
  <2>1. \A i : Has(resources, i) => Has(resources', i)
    BY <1>4 DEF Has, In
  <2>2. \A i \in Id : Tracked(i) => Tracked(i)'
    BY <1>1, <2>1 DEF Tracked, HeldAny
  <2>3. \A i : Lives(i)' => Lives(i)
    BY <1>1 DEF Lives
  <2> HIDE DEF Tracked
  <2> QED
    BY <2>2, <2>3, KeepsTrack DEF LeakInv
<1>6. \A k \in 1..Len(todo) : /\ todo[k] = w \/ k - 1 \in 1..Len(todo')
                              /\ k - 1 \in 1..Len(todo') => todo'[k - 1] = todo[k]
  BY <1>1 DEF TypeInv, TypeOK
<1> HIDE DEF w
<1>7. ASSUME NEW u \in Urn \ Component, prior[u] # None, Lives(prior[u].id)
      PROVE  (\E k \in 1..Len(todo') : todo'[k] = u) \/ resources'[u] # None
  <2>1. (\E k \in 1..Len(todo) : todo[k] = u) \/ resources[u] # None
    BY <1>1, <1>7 DEF LeakInv, VisitedAreTracked
  <2>2. CASE u = w
    BY <1>4, <1>7, <2>2 DEF Lives
  <2>3. CASE resources[u] # None
    BY <1>4, <2>3
  <2>4. ASSUME u # w, NEW k \in 1..Len(todo), todo[k] = u
        PROVE  \E j \in 1..Len(todo') : todo'[j] = u
    BY <1>6, <2>4
  <2> QED
    BY <2>1, <2>2, <2>3, <2>4
<1>8. VisitedAreTracked'
  BY <1>1, <1>7 DEF VisitedAreTracked, Lives
<1>9. LateIsExcused'
  BY <1>1 DEF LateIsExcused
<1> QED
  BY <1>5, <1>8, <1>9 DEF LeakInv

LEMMA BeginSaveLeak ==
  ASSUME TypeInv, Ownership, MemoryInv, LeakInv, [Next]_vars, BeginSave
  PROVE  LeakInv'
<1>1. /\ \/ phase = "delete" /\ toDelete = {} /\ ~dry
         \/ phase \in {"destroy", "refresh"} /\ todo = <<>>
      /\ phase' = "save" /\ pending'.table = resources
      /\ UNCHANGED <<cloud, dry, prior, resources, handlers, mishap>>
  BY DEF BeginSave, ReadyToSave, volatile, world
<1>2. prior = checkpoint.saved.table /\ pending = NoSaved
  BY <1>1 DEF MemoryInv, MemoryMatchesPhase
<1>3. NothingLost'
  <2>1. \A i : ~Has(pending.table, i)
    BY <1>2 DEF Has, In, NoSaved, NoTable
  <2>2. \A i \in Id : Tracked(i) => Tracked(i)'
    BY <1>1, <1>2, <2>1 DEF Tracked, HeldAny
  <2>3. \A i : Lives(i)' => Lives(i)
    BY <1>1 DEF Lives
  <2> HIDE DEF Tracked
  <2> QED
    BY <2>2, <2>3, KeepsTrack DEF LeakInv
<1>4. ASSUME NEW u \in Urn \ Component, prior[u] # None, Lives(prior[u].id)
      PROVE  resources[u] # None \/ Excused(prior[u].id)
  BY <1>1, <1>4 DEF LeakInv, VisitedAreTracked
<1>5. VisitedAreTracked'
  BY <1>1, <1>4 DEF VisitedAreTracked, Lives, Excused
<1>6. LateIsExcused'
  BY <1>1 DEF LateIsExcused, In
<1> QED
  BY <1>3, <1>5, <1>6 DEF LeakInv

(* An object of this run that is not excused when the run ends without     *)
(* notice is in the file as it is.                                         *)
LEMMA UpsetAreExcused ==
  ASSUME TypeInv, NEW why \in LeakCause, Hit(Upset, why), NEW i \in Id, Lives(i),
         Has(prior, i) \/ Has(resources, i) \/ Has(pending.table, i)
  PROVE  Has(checkpoint.saved.table, i) \/ Excused(i)'
<1>1. i \in IdsIn(prior) \cup IdsIn(resources) \cup IdsIn(pending.table)
  BY DEF Has, In, IdsIn, Domain
<1>2. CASE i \in Upset
  BY <1>2, HitGrows DEF Excused
<1>3. CASE i \notin Upset
  <2>1. Settled(i)
    BY <1>1, <1>3 DEF Upset
  <2> QED
    BY <2>1, EngineAssumption DEF Settled, Lives, Has, In, Domain
<1> QED
  BY <1>2, <1>3

LEMMA EndLeak ==
  ASSUME TypeInv, Ownership, MemoryInv, LeakInv, [Next]_vars,
         ProgramFails \/ EndPreview \/ SaveFails \/ EndSave \/ Crash
  PROVE  LeakInv'
<1>1. EndRun /\ phase' = "idle" /\ UNCHANGED cloud
  BY DEF ProgramFails, EndPreview, SaveFails, EndSave, Crash, EndRun, world
<1>2. \A i : HeldAny(i) => HeldAny(i)'
  BY <1>1 DEF EndRun, HeldAny, TypeInv, TypeOK, HandlerState
<1>3. ASSUME NEW i \in Id, Lives(i), Tracked(i)
      PROVE  Has(checkpoint'.saved.table, i) \/ HeldAny(i)' \/ Excused(i)'
  <2>1. CASE HeldAny(i)
    BY <1>2, <2>1
  <2>2. CASE ProgramFails
    <3>1. /\ phase = "program" /\ UNCHANGED checkpoint
          /\ Hit({resources[u].id : u \in {v \in Domain(resources) :
                    resources[v].outputs = "provider"}}, "programFailed")
      BY <2>2 DEF ProgramFails
    <3>2. prior = checkpoint.saved.table /\ pending = NoSaved
      BY <3>1 DEF MemoryInv, MemoryMatchesPhase
    <3>3. ~Has(pending.table, i)
      BY <3>2 DEF Has, In, NoSaved, NoTable
    <3>4. ASSUME NEW u \in Urn, In(resources, u, i)
          PROVE  Has(prior, i) \/ Excused(i)'
      <4>1. CASE resources[u].outputs = "provider"
        <5>1. "programFailed" \in mishap'[i]
          BY <3>1, <3>4, <4>1, HitGrows DEF In, Domain
        <5> QED
          BY <5>1 DEF Excused, LeakCause
      <4>2. CASE resources[u].outputs = "program"
        <5>1. i = PriorId(prior[u])
          BY <3>4, <4>2 DEF In, MemoryInv, IdsFollowPrior
        <5> QED
          BY <5>1, EngineAssumption DEF PriorId, Has, In
      <4> QED
        BY <3>4, <4>1, <4>2 DEF In, TypeInv, TypeOK, Table, Entry
    <3> QED
      BY <1>3, <2>1, <3>1, <3>2, <3>3, <3>4 DEF Tracked, Has
  <2>3. CASE EndPreview
    <3>1. dry /\ phase = "delete" /\ UNCHANGED checkpoint
      BY <2>3 DEF EndPreview
    <3>2. prior = checkpoint.saved.table /\ pending = NoSaved
      BY <3>1 DEF MemoryInv, MemoryMatchesPhase
    <3>3. ~Has(pending.table, i)
      BY <3>2 DEF Has, In, NoSaved, NoTable
    <3>4. ASSUME NEW u \in Urn, In(resources, u, i)
          PROVE  Has(prior, i)
      <4>1. i = PriorId(prior[u])
        BY <3>1, <3>4 DEF In, MemoryInv, IdsFollowPrior, DryCallsNothing
      <4> QED
        BY <4>1, EngineAssumption DEF PriorId, Has, In
    <3> QED
      BY <1>3, <2>1, <3>1, <3>2, <3>3, <3>4 DEF Tracked, Has
  <2>4. CASE SaveFails \/ Crash
    <3>1. UNCHANGED checkpoint /\ \E why \in LeakCause : Hit(Upset, why)
      BY <2>4 DEF SaveFails, Crash, LeakCause
    <3> QED
      BY <1>3, <2>1, <3>1, UpsetAreExcused DEF Tracked
  <2>5. CASE EndSave
    <3>1. phase = "save" /\ checkpoint'.saved = pending /\ mishap' = mishap
      BY <2>5 DEF EndSave
    <3>2. checkpoint.saved = NoSaved
      BY <3>1 DEF MemoryInv, MemoryMatchesPhase
    <3>3. ~Has(checkpoint.saved.table, i)
      BY <3>2 DEF Has, In, NoSaved, NoTable
    <3>4. ASSUME NEW u \in Urn, In(prior, u, i)
          PROVE  Has(pending.table, i) \/ Excused(i)
      <4>1. u \notin Component
        BY <3>4, EngineAssumption DEF In, MemoryInv, ComponentsHaveNoId, NoComponentId
      <4>2. pending.table[u] # None \/ Excused(i)
        BY <1>3, <3>1, <3>4, <4>1 DEF In, LeakInv, VisitedAreTracked
      <4>3. pending.table[u] # None => pending.table[u].id = i
        BY <3>4 DEF In, MemoryInv, IdsFollowPrior
      <4> QED
        BY <4>2, <4>3, EngineAssumption DEF Has, In
    <3>5. ASSUME NEW u \in Urn, In(resources, u, i)
          PROVE  Has(pending.table, i) \/ Excused(i)
      <4>1. In(pending.table, u, i) \/ Excused(i)
        BY <1>3, <3>1, <3>5 DEF In, LeakInv, LateIsExcused
      <4> QED
        BY <4>1, EngineAssumption DEF Has
    <3> QED
      BY <1>3, <2>1, <3>1, <3>3, <3>4, <3>5 DEF Tracked, Has, Excused
  <2> QED
    BY <2>2, <2>3, <2>4, <2>5
<1>4. NothingLost'
  <2>1. \A i : Lives(i)' = Lives(i)
    BY <1>1 DEF Lives
  <2>2. \A i \in Id : Tracked(i) /\ Lives(i)' => Tracked(i)' \/ Excused(i)'
    BY <1>3, <2>1 DEF Tracked
  <2> HIDE DEF Tracked
  <2> QED
    BY <2>1, <2>2, KeepsTrack DEF LeakInv
<1> QED
  BY <1>1, <1>4 DEF LeakInv, VisitedAreTracked, LateIsExcused

THEOREM NextLeakInv ==
  TypeInv /\ Ownership /\ MemoryInv /\ Lists /\ LeakInv /\ [Next]_vars => LeakInv'
<1> SUFFICES ASSUME TypeInv, Ownership, MemoryInv, Lists, LeakInv, [Next]_vars
             PROVE  LeakInv'
  OBVIOUS
<1>1. CASE UNCHANGED vars
  BY <1>1 DEF vars, LeakInv, NothingLost, Tracked, HeldAny, Lives, Excused,
     VisitedAreTracked, LateIsExcused, In
<1>2. CASE (\E preview \in BOOLEAN : BeginRun(preview)) \/ BeginDestroy \/ BeginRefresh
  BY <1>2, BeginLeak
<1>3. CASE \E h \in Handler, r \in Resource, in \in Input : Receive(h, r, in)
  BY <1>3, TaskLeak
<1>4. CASE \E h \in Handler : HandlerStep(h)
  BY <1>4, TaskLeak, RegisterLeak DEF HandlerStep
<1>5. CASE EngineStep
  BY <1>5, LoopLeak, EndLeak, RefreshLeak, BeginSaveLeak DEF EngineStep
<1>6. CASE ProgramFails \/ SaveFails \/ Crash
  BY <1>6, EndLeak
<1>7. CASE \E i \in Id : OutOfBand(i)
  BY <1>7, LoopLeak
<1> QED
  BY <1>1, <1>2, <1>3, <1>4, <1>5, <1>6, <1>7 DEF Next

THEOREM SpecLeakInv == Spec => []LeakInv
<1> QED
  BY InitLeakInv, NextLeakInv, SpecTypeInv, SpecOwnership, SpecMemoryInv,
     SpecLists, PTL DEF Spec

(* An object that lives at the provider is recorded or in hand, unless one *)
(* of the named mishaps befell it, whatever the program registers, however *)
(* its tasks interleave and wherever the operation is cut off.             *)
THEOREM SpecNoSilentLeak == Spec => []NoSilentLeak
<1>1. TypeInv /\ MemoryInv /\ LeakInv => NoSilentLeak
  <2> SUFFICES ASSUME TypeInv, MemoryInv, LeakInv, NEW i \in Id, cloud[i] = "live",
                      i \notin Recorded \cup InHand
               PROVE  mishap[i] \cap LeakCause # {}
    BY DEF NoSilentLeak
  <2>1. \A t : i \in IdsIn(t) <=> Has(t, i)
    BY DEF IdsIn, Domain, Has, In
  <2>2. ~Has(checkpoint.saved.table, i)
    <3>1. CASE checkpoint.status = "valid"
      BY <2>1, <3>1 DEF Recorded
    <3>2. CASE checkpoint.status # "valid"
      BY <3>2 DEF MemoryInv, MemoryMatchesPhase, Has, In, NoSaved, NoTable
    <3> QED
      BY <3>1, <3>2
  <2>3. ~HeldAny(i)
    BY DEF InHand, HeldByHandler, HeldAny
  <2>4. ~Tracked(i)
    BY <2>1, <2>2, <2>3 DEF Tracked, InHand
  <2> QED
    BY <2>4 DEF LeakInv, NothingLost, Lives, Excused
<1> QED
  BY <1>1, SpecTypeInv, SpecMemoryInv, SpecLeakInv, PTL

-----------------------------------------------------------------------------
(* Dangling entries. A table is whole if each object it names lives or was *)
(* struck by a mishap that explains why it does not.                       *)

Struck(i) == mishap[i] \cap DanglingCause # {}
Whole(i) == i \in Id => cloud[i] = "live" \/ Struck(i)
WholeTable(t) == \A u \in Urn : t[u] # None => Whole(t[u].id)

(* The checkpoint is whole except while the engine itself deletes.         *)
RecordWhole ==
  phase \in {"idle", "program", "refresh"} \/ (phase = "delete" /\ dry)
    => WholeTable(checkpoint.saved.table)

MemoryWhole == WholeTable(resources) /\ WholeTable(pending.table)

(* What a task has just created is there.                                  *)
NewWhole ==
  \A h \in Handler : /\ Running(h) /\ handlers[h].pc = "applied"
                     /\ prior[UrnAt(h)] = None
                     => Whole(handlers[h].id)

(* An entry that the delete loop is yet to visit is in the table of this   *)
(* run only if its registration came too late.                             *)
DeletedAreStruck ==
  phase = "delete" /\ ~dry =>
    \A u \in toDelete : resources[u] # None /\ resources[u].id \in Id
                        => Struck(resources[u].id)

DanglingInv == RecordWhole /\ MemoryWhole /\ NewWhole /\ DeletedAreStruck

THEOREM InitDanglingInv == Init => DanglingInv
<1> SUFFICES ASSUME Init PROVE DanglingInv
  OBVIOUS
<1>1. WholeTable(NoTable)
  BY DEF WholeTable, NoTable
<1>2. RecordWhole /\ MemoryWhole
  BY <1>1 DEF Init, RecordWhole, MemoryWhole, NoSaved
<1> QED
  BY <1>2 DEF Init, DanglingInv, NewWhole, DeletedAreStruck, Running, Idle

LEMMA StruckStays ==
  ASSUME TypeInv, [Next]_vars, NEW i \in Id, Struck(i)
  PROVE  Struck(i)'
<1>1. mishap[i] \subseteq mishap'[i]
  BY MishapGrows
<1> QED
  BY <1>1 DEF Struck

(* The engine deletes object i.                                            *)
Deletes(i) == \/ DestroyEntry
              \/ \E u \in Urn : /\ DeleteUrn(u) /\ ~dry /\ u \notin Component
                                /\ i = prior[u].id

(* Only the engine itself and somebody outside take an object away.        *)
LEMMA WholeStays ==
  ASSUME TypeInv, [Next]_vars, NEW i, Whole(i), ~Deletes(i)
  PROVE  Whole(i)'
<1> SUFFICES ASSUME i \in Id, cloud[i] = "live", cloud'[i] # "live"
             PROVE  Struck(i)'
  BY StruckStays DEF Whole
<1>1. ASSUME NEW n \in Id, OutOfBand(n) PROVE Struck(i)'
  <2>1. i = n
    BY <1>1 DEF OutOfBand, TypeInv, TypeOK
  <2>2. "outOfBand" \in mishap'[i]
    BY <1>1, <2>1, HitGrows DEF OutOfBand
  <2> QED
    BY <2>2 DEF Struck, DanglingCause
<1>2. ~DestroyEntry
  BY DEF Deletes
<1>3. ASSUME NEW u \in Urn PROVE ~DeleteUrn(u)
  <2> SUFFICES ASSUME DeleteUrn(u) PROVE FALSE
    OBVIOUS
  <2>1. u \notin Component /\ ~dry /\ i = prior[u].id
    BY DEF DeleteUrn, DeleteObject, TypeInv, TypeOK
  <2> QED
    BY <2>1 DEF Deletes
<1>4. ASSUME NEW h \in Handler, NEW n \in Id PROVE ~ProviderCreates(h, n)
  BY DEF ProviderCreates, TypeInv, TypeOK
<1>5. cloud' # cloud
  OBVIOUS
<1>6. \A h \in Handler : ~HandlerStep(h)
  BY <1>4, <1>5 DEF HandlerStep, ProviderUpdates, CallFails, Register, Drop, world
<1>7. ~EngineStep
  BY <1>2, <1>3, <1>5 DEF EngineStep, ProgramSucceeds, EndPreview, RefreshEntry,
     BeginSave, EndSave, world
<1> QED
  BY <1>1, <1>5, <1>6, <1>7 DEF Next, vars, BeginRun, Receive, ProgramFails,
     BeginDestroy, BeginRefresh, SaveFails, Crash, world

(* A step that deletes nothing and leaves the tables alone.                *)
LEMMA QuietDangling ==
  ASSUME TypeInv, MemoryInv, DanglingInv, [Next]_vars,
         \/ \E preview \in BOOLEAN : BeginRun(preview)
         \/ BeginDestroy \/ BeginRefresh \/ ProgramSucceeds
         \/ \E i \in Id : OutOfBand(i)
         \/ \E h \in Handler :
              \/ \E r \in Resource, in \in Input : Receive(h, r, in)
              \/ \E i \in Id : ProviderCreates(h, i)
              \/ ProviderUpdates(h)
              \/ CallFails(h)
              \/ Drop(h)
  PROVE  DanglingInv'
<1>1. UNCHANGED <<checkpoint, resources, pending>>
  BY DEF BeginRun, BeginDestroy, BeginRefresh, ProgramSucceeds, OutOfBand, Receive,
         ProviderCreates, ProviderUpdates, CallFails, Drop, volatile
<1>2. \A i : Whole(i) => Whole(i)'
  <2>1. \A i : ~Deletes(i)
    <3>1. phase # "delete" \/ toDelete' = toDelete
      BY DEF BeginRun, BeginDestroy, BeginRefresh, ProgramSucceeds, OutOfBand, Receive,
         ProviderCreates, ProviderUpdates, CallFails, Drop, volatile
    <3>2. \A u \in Urn : ~DeleteUrn(u)
      BY <3>1 DEF DeleteUrn
    <3>3. phase # "destroy" \/ todo' = todo
      BY DEF BeginRun, BeginDestroy, BeginRefresh, ProgramSucceeds, OutOfBand, Receive,
         ProviderCreates, ProviderUpdates, CallFails, Drop, volatile
    <3>4. ASSUME DestroyEntry PROVE FALSE
      <4>1. todo # <<>> /\ todo = SubSeq(todo, 1, Len(todo) - 1) /\ todo \in Seq(Urn)
        BY <3>3, <3>4 DEF DestroyEntry, TypeInv, TypeOK
      <4>2. Len(todo) \in Nat /\ Len(todo) # 0
        BY <4>1
      <4>3. Len(SubSeq(todo, 1, Len(todo) - 1)) = Len(todo) - 1
        BY <4>1, <4>2
      <4> QED
        BY <4>1, <4>2, <4>3
    <3> QED
      BY <3>2, <3>4 DEF Deletes
  <2> QED
    BY <2>1, WholeStays
<1>3. MemoryWhole'
  BY <1>1, <1>2 DEF DanglingInv, MemoryWhole, WholeTable, Whole, Struck
<1>4. RecordWhole'
  <2>1. \/ phase' = "delete" /\ ~dry'
        \/ phase' = "destroy"
        \/ phase \in {"idle", "program", "refresh"} \/ (phase = "delete" /\ dry)
        \/ phase' = "save"
    BY DEF BeginRun, BeginDestroy, BeginRefresh, ProgramSucceeds, OutOfBand, Receive,
       ProviderCreates, ProviderUpdates, CallFails, Drop, volatile, TypeInv, TypeOK
  <2> QED
    BY <1>1, <1>2, <2>1 DEF DanglingInv, RecordWhole, WholeTable, Whole, Struck
<1>5. DeletedAreStruck'
  <2>1. \/ phase' # "delete"
        \/ UNCHANGED <<phase, dry, toDelete>>
        \/ toDelete' = DeletedUrns
    BY DEF BeginRun, BeginDestroy, BeginRefresh, ProgramSucceeds, OutOfBand, Receive,
       ProviderCreates, ProviderUpdates, CallFails, Drop, volatile
  <2>2. CASE UNCHANGED <<phase, dry, toDelete>>
    <3>1. \A i \in Id : Struck(i) => Struck(i)'
      BY StruckStays
    <3> QED
      BY <1>1, <2>2, <3>1 DEF DanglingInv, DeletedAreStruck, Struck
  <2> QED
    BY <1>1, <2>1, <2>2 DEF DeletedAreStruck, DeletedUrns
<1>6. NewWhole'
  <2>1. CASE \/ \E preview \in BOOLEAN : BeginRun(preview)
             \/ BeginDestroy \/ BeginRefresh
    <3>1. phase = "idle" /\ UNCHANGED handlers
      BY <2>1 DEF BeginRun, BeginDestroy, BeginRefresh
    <3> QED
      BY <3>1 DEF NewWhole, MemoryInv, MemoryMatchesPhase, Running
  <2>2. ASSUME UNCHANGED prior,
               \A h \in Handler : \/ handlers'[h] = handlers[h]
                                  \/ handlers'[h].pc # "applied"
                                  \/ cloud'[handlers'[h].id] = "live"
        PROVE  NewWhole'
    <3> SUFFICES ASSUME NEW h \in Handler, handlers'[h].pc = "applied",
                        ~handlers'[h].stale, prior[UrnOf[handlers'[h].res]] = None,
                        handlers'[h].id \in Id
                 PROVE  cloud'[handlers'[h].id] = "live"
                          \/ mishap'[handlers'[h].id] \cap DanglingCause # {}
      BY <2>2 DEF NewWhole, Running, UrnAt, Whole, Struck
    <3>1. CASE handlers'[h] = handlers[h]
      <4>1. Whole(handlers[h].id)
        BY <3>1 DEF DanglingInv, NewWhole, Running, UrnAt
      <4> QED
        BY <1>2, <3>1, <4>1 DEF Whole, Struck
    <3> QED
      BY <2>2, <3>1
  <2>3. CASE ProgramSucceeds \/ \E i \in Id : OutOfBand(i)
    BY <2>2, <2>3 DEF ProgramSucceeds, OutOfBand, volatile
  <2>4. ASSUME NEW h \in Handler, NEW r \in Resource, NEW in \in Input, Receive(h, r, in)
        PROVE  NewWhole'
    <3>1. UNCHANGED prior /\ handlers'[h].pc # "applied"
          /\ \A g \in Handler : g # h => handlers'[g] = handlers[g]
      BY <2>4 DEF Receive, TypeInv, TypeOK
    <3> QED
      BY <2>2, <3>1
  <2>5. ASSUME NEW h \in Handler, NEW i \in Id, ProviderCreates(h, i)
        PROVE  NewWhole'
    <3>1. UNCHANGED prior /\ handlers'[h].id = i /\ cloud'[i] = "live"
          /\ \A g \in Handler : g # h => handlers'[g] = handlers[g]
      BY <2>5 DEF ProviderCreates, volatile, TypeInv, TypeOK, HandlerState
    <3> QED
      BY <2>2, <3>1
  <2>6. ASSUME NEW h \in Handler, ProviderUpdates(h)
        PROVE  NewWhole'
    <3>1. UNCHANGED <<prior, cloud>> /\ handlers'[h].id = handlers[h].id
          /\ cloud[handlers[h].id] = "live"
          /\ \A g \in Handler : g # h => handlers'[g] = handlers[g]
      BY <2>6 DEF ProviderUpdates, volatile, TypeInv, TypeOK, HandlerState
    <3> QED
      BY <2>2, <3>1
  <2>7. ASSUME NEW h \in Handler, CallFails(h) \/ Drop(h)
        PROVE  NewWhole'
    <3>1. UNCHANGED prior /\ handlers'[h].pc # "applied"
          /\ \A g \in Handler : g # h => handlers'[g] = handlers[g]
      BY <2>7 DEF CallFails, Drop, volatile, TypeInv, TypeOK, Idle
    <3> QED
      BY <2>2, <3>1
  <2> QED
    BY <2>1, <2>3, <2>4, <2>5, <2>6, <2>7
<1> QED
  BY <1>3, <1>4, <1>5, <1>6 DEF DanglingInv

LEMMA RegisterDangling ==
  ASSUME TypeInv, Ownership, MemoryInv, DanglingInv, [Next]_vars,
         NEW h \in Handler, Register(h), NEW i, i = handlers[h].id
  PROVE  DanglingInv'
<1> DEFINE w == UrnAt(h)
<1>1. /\ Running(h) /\ handlers[h].pc \in {"applied", "register"} /\ w \in Urn
      /\ resources'[w].id = i
      /\ \A u \in Urn : u # w => resources'[u] = resources[u]
      /\ handlers'[h] = Idle
      /\ \A g \in Handler : g # h => handlers'[g] = handlers[g]
      /\ UNCHANGED <<checkpoint, cloud, phase, dry, prior, toDelete, pending>>
  BY RegisterStep DEF world
<1>2. \A n : Whole(n) => Whole(n)'
  BY <1>1, StruckStays DEF Whole
<1>3. /\ prior[w] # None => i = prior[w].id
      /\ handlers[h].pc = "register" => i = PriorId(prior[w])
      /\ phase \in {"program", "delete", "refresh", "save"}
  BY <1>1 DEF MemoryInv, MemoryMatchesPhase, IdsFollowPrior, TypeInv, TypeOK
<1>4. ASSUME i \in Id,
             phase = "save" \/ (phase = "delete" /\ ~dry /\ w \in DeletedUrns)
      PROVE  Struck(i)'
  <2>1. "lateRegister" \in mishap'[i]
    BY <1>4, RegisterMishaps
  <2> QED
    BY <2>1 DEF Struck, DanglingCause
<1> HIDE DEF w
<1>5. i \in Id => cloud[i] = "live" \/ Struck(i)'
  <2> SUFFICES ASSUME i \in Id PROVE cloud[i] = "live" \/ Struck(i)'
    OBVIOUS
  <2>1. CASE prior[w] = None
    <3>1. i # None
      BY EngineAssumption
    <3>2. handlers[h].pc = "applied"
      BY <1>1, <1>3, <2>1, <3>1 DEF PriorId
    <3>3. Whole(i)
      BY <1>1, <2>1, <3>2 DEF DanglingInv, NewWhole, w
    <3> QED
      BY <1>1, <1>2, <3>3 DEF Whole
  <2>2. CASE prior[w] # None
    <3>1. CASE phase = "save" \/ (phase = "delete" /\ ~dry /\ w \in DeletedUrns)
      BY <1>4, <3>1
    <3>2. CASE phase = "delete" /\ ~dry /\ w \notin DeletedUrns
      <4>1. resources[w] # None
        BY <1>1, <2>2, <3>2 DEF DeletedUrns, Domain
      <4>2. resources[w].id = i
        BY <1>1, <1>3, <2>2, <4>1 DEF MemoryInv, IdsFollowPrior
      <4>3. Whole(i)
        BY <1>1, <4>1, <4>2 DEF DanglingInv, MemoryWhole, WholeTable
      <4> QED
        BY <1>1, <1>2, <4>3 DEF Whole
    <3>3. CASE phase \in {"program", "refresh"} \/ (phase = "delete" /\ dry)
      <4>1. prior = checkpoint.saved.table
        BY <3>3 DEF MemoryInv, MemoryMatchesPhase
      <4>2. Whole(i)
        BY <1>1, <1>3, <2>2, <3>3, <4>1 DEF DanglingInv, RecordWhole, WholeTable
      <4> QED
        BY <1>1, <1>2, <4>2 DEF Whole
    <3> QED
      BY <1>3, <3>1, <3>2, <3>3
  <2> QED
    BY <2>1, <2>2
<1>6. MemoryWhole'
  <2>1. WholeTable(resources)'
    BY <1>1, <1>2, <1>5 DEF DanglingInv, MemoryWhole, WholeTable, Whole, Struck
  <2>2. WholeTable(pending.table)'
    BY <1>1, <1>2 DEF DanglingInv, MemoryWhole, WholeTable, Whole, Struck
  <2> QED
    BY <2>1, <2>2 DEF MemoryWhole
<1>7. RecordWhole'
  BY <1>1, <1>2 DEF DanglingInv, RecordWhole, WholeTable, Whole, Struck
<1>8. NewWhole'
  BY <1>1, <1>2 DEF DanglingInv, NewWhole, Running, UrnAt, Idle, Whole, Struck
<1>9. DeletedAreStruck'
  <2> SUFFICES ASSUME phase = "delete", ~dry, NEW u \in toDelete,
                      resources'[u] # None, resources'[u].id \in Id
               PROVE  mishap'[resources'[u].id] \cap DanglingCause # {}
    BY <1>1 DEF DeletedAreStruck, Struck
  <2>1. u \in Urn /\ prior[u] # None
    BY DEF MemoryInv, MemoryMatchesPhase, Domain
  <2>2. \A n \in Id : Struck(n) => Struck(n)'
    BY StruckStays
  <2>3. CASE u # w
    BY <1>1, <2>1, <2>2, <2>3 DEF DanglingInv, DeletedAreStruck, Struck
  <2>4. CASE u = w /\ resources[w] = None
    BY <1>1, <1>4, <2>1, <2>4 DEF DeletedUrns, Domain, Struck
  <2>5. CASE u = w /\ resources[w] # None
    <3>1. resources[w].id = i
      BY <1>1, <1>3, <2>1, <2>5 DEF MemoryInv, IdsFollowPrior
    <3> QED
      BY <1>1, <2>2, <2>5, <3>1 DEF DanglingInv, DeletedAreStruck, Struck
  <2> QED
    BY <2>3, <2>4, <2>5
<1> QED
  BY <1>6, <1>7, <1>8, <1>9 DEF DanglingInv

(* The delete loop of up. What it takes away belongs to an entry that this *)
(* run has not registered, or has registered too late.                     *)
LEMMA DeleteDangling ==
  ASSUME TypeInv, Ownership, MemoryInv, DanglingInv, [Next]_vars,
         NEW w \in Urn, DeleteUrn(w)
  PROVE  DanglingInv'
<1>1. /\ phase = "delete" /\ w \in toDelete /\ toDelete' = toDelete \ {w}
      /\ UNCHANGED <<checkpoint, phase, dry, prior, resources, pending, handlers>>
  BY DEF DeleteUrn
<1>2. prior[w] # None /\ pending = NoSaved
  BY <1>1 DEF MemoryInv, MemoryMatchesPhase, Domain
<1>3. \A i \in Id : Struck(i) => Struck(i)'
  BY StruckStays
<1>4. CASE dry \/ w \in Component
  <2>1. UNCHANGED <<cloud, mishap>>
    BY <1>4 DEF DeleteUrn
  <2> QED
    BY <1>1, <2>1 DEF DanglingInv, RecordWhole, MemoryWhole, WholeTable, Whole, Struck,
       NewWhole, DeletedAreStruck, Running, UrnAt
<1>5. CASE ~dry /\ w \notin Component
  <2>1. \A i \in Id : i # prior[w].id /\ Whole(i) => Whole(i)'
    BY <1>3, <1>5 DEF DeleteUrn, DeleteObject, Hit, Whole, TypeInv, TypeOK
  <2>2. ASSUME NEW u \in Urn, resources[u] # None, resources[u].id \in Id
        PROVE  Whole(resources[u].id)'
    <3>1. CASE resources[u].id # prior[w].id
      BY <1>1, <2>1, <2>2, <3>1 DEF DanglingInv, MemoryWhole, WholeTable, Whole, Struck
    <3>2. CASE resources[u].id = prior[w].id
      <4>1. u = w
        BY <1>2, <2>2, <3>2 DEF Ownership, Owns, In
      <4>2. Struck(resources[u].id)
        BY <1>1, <1>5, <2>2, <4>1 DEF DanglingInv, DeletedAreStruck
      <4> QED
        BY <1>1, <1>3, <2>2, <4>2 DEF Whole, Struck
    <3> QED
      BY <3>1, <3>2
  <2>3. MemoryWhole'
    BY <1>1, <1>2, <2>2 DEF MemoryWhole, WholeTable, Whole, NoSaved, NoTable
  <2>4. NewWhole'
    <3> SUFFICES ASSUME NEW h \in Handler, Running(h), handlers[h].pc = "applied",
                        prior[UrnAt(h)] = None
                 PROVE  Whole(handlers[h].id)'
      BY <1>1 DEF NewWhole, Running, UrnAt, Whole
    <3>1. handlers[h].id \in Id /\ UrnAt(h) \in Urn
      BY EngineAssumption DEF TypeInv, TasksTyped, UrnAt
    <3>2. handlers[h].id # prior[w].id
      <4>1. Owns(UrnAt(h), handlers[h].id)
        BY DEF Owns, HeldFor, UrnAt
      <4>2. Owns(w, prior[w].id)
        BY <1>2 DEF Owns, In
      <4>3. UrnAt(h) # w
        BY <1>2
      <4> HIDE DEF Owns
      <4> QED
        BY <3>1, <4>1, <4>2, <4>3 DEF Ownership
    <3>3. Whole(handlers[h].id)
      BY DEF DanglingInv, NewWhole
    <3> QED
      BY <1>1, <2>1, <3>1, <3>2, <3>3 DEF Whole, Struck
  <2>5. RecordWhole' /\ DeletedAreStruck'
    BY <1>1, <1>3, <1>5 DEF DanglingInv, RecordWhole, DeletedAreStruck, Struck
  <2> QED
    BY <2>3, <2>4, <2>5 DEF DanglingInv
<1> QED
  BY <1>4, <1>5

LEMMA WalkDangling ==
  ASSUME TypeInv, MemoryInv, DanglingInv, [Next]_vars,
         DestroyEntry \/ RefreshEntry \/ BeginSave
  PROVE  DanglingInv'
<1>1. CASE DestroyEntry
  <2>1. /\ phase = "destroy"
        /\ UNCHANGED <<phase, prior, resources, pending, handlers>>
    BY <1>1 DEF DestroyEntry
  <2>2. /\ resources = NoTable /\ pending = NoSaved
        /\ \A h \in Handler : ~Running(h)
    BY <2>1 DEF MemoryInv, MemoryMatchesPhase
  <2>3. MemoryWhole'
    BY <2>1, <2>2 DEF MemoryWhole, WholeTable, NoSaved, NoTable
  <2>4. NewWhole'
    BY <2>1, <2>2 DEF NewWhole, Running
  <2> QED
    BY <2>1, <2>3, <2>4 DEF DanglingInv, RecordWhole, DeletedAreStruck
<1>2. CASE RefreshEntry
  <2>1. /\ phase = "refresh"
        /\ UNCHANGED <<checkpoint, cloud, mishap, phase, prior, pending, handlers>>
    BY <1>2 DEF RefreshEntry, world
  <2>2. prior = checkpoint.saved.table /\ \A h \in Handler : ~Running(h)
    BY <2>1 DEF MemoryInv, MemoryMatchesPhase
  <2>3. \A u \in Urn : \/ resources'[u] = resources[u]
                       \/ /\ prior[u] # None
                          /\ resources'[u].id = prior[u].id
    BY <1>2, RefreshStep DEF TypeInv, TypeOK, Table
  <2>4. MemoryWhole'
    BY <2>1, <2>2, <2>3 DEF DanglingInv, RecordWhole, MemoryWhole, WholeTable, Whole,
       Struck
  <2>5. NewWhole'
    BY <2>1, <2>2 DEF NewWhole, Running
  <2>6. RecordWhole'
    BY <2>1 DEF DanglingInv, RecordWhole, WholeTable, Whole, Struck
  <2> QED
    BY <2>1, <2>4, <2>5, <2>6 DEF DanglingInv, DeletedAreStruck
<1>3. CASE BeginSave
  <2>1. /\ phase' = "save" /\ pending'.table = resources
        /\ UNCHANGED <<cloud, mishap, prior, resources, handlers>>
    BY <1>3 DEF BeginSave, volatile, world
  <2>2. MemoryWhole' /\ NewWhole'
    BY <2>1 DEF DanglingInv, MemoryWhole, WholeTable, NewWhole, Running, UrnAt, Whole,
       Struck
  <2> QED
    BY <2>1, <2>2 DEF DanglingInv, RecordWhole, DeletedAreStruck
<1> QED
  BY <1>1, <1>2, <1>3

LEMMA EndDangling ==
  ASSUME TypeInv, MemoryInv, DanglingInv, [Next]_vars,
         ProgramFails \/ EndPreview \/ SaveFails \/ EndSave \/ Crash
  PROVE  DanglingInv'
<1>1. /\ phase' = "idle" /\ resources' = NoTable /\ pending' = NoSaved
      /\ UNCHANGED cloud
  BY DEF ProgramFails, EndPreview, SaveFails, EndSave, Crash, EndRun, world
<1>2. (\A h \in Handler : ~Running(h))'
  BY EndRunTypes DEF ProgramFails, EndPreview, SaveFails, EndSave, Crash, Running
<1>3. \A i : Whole(i) => Whole(i)'
  BY <1>1, StruckStays DEF Whole
<1>4. MemoryWhole' /\ NewWhole' /\ DeletedAreStruck'
  BY <1>1, <1>2 DEF MemoryWhole, WholeTable, NoSaved, NoTable, NewWhole,
     DeletedAreStruck
<1>5. CASE EndSave
  <2>1. checkpoint'.saved = pending
    BY <1>5 DEF EndSave
  <2>2. RecordWhole'
    BY <1>3, <2>1 DEF DanglingInv, MemoryWhole, RecordWhole, WholeTable, Whole, Struck
  <2> QED
    BY <1>4, <2>2 DEF DanglingInv
<1>6. CASE UNCHANGED checkpoint
           /\ (phase \in {"idle", "program", "refresh"} \/ (phase = "delete" /\ dry))
  <2>1. RecordWhole'
    BY <1>3, <1>6 DEF DanglingInv, RecordWhole, WholeTable, Whole, Struck
  <2> QED
    BY <1>4, <2>1 DEF DanglingInv
<1>7. CASE phase = "save" /\ (SaveFails \/ Crash)
  <2>1. UNCHANGED checkpoint /\ checkpoint.saved = NoSaved
    BY <1>7 DEF SaveFails, Crash, MemoryInv, MemoryMatchesPhase
  <2>2. RecordWhole'
    BY <2>1 DEF RecordWhole, WholeTable, NoSaved, NoTable
  <2> QED
    BY <1>4, <2>2 DEF DanglingInv
<1>8. CASE phase \in {"delete", "destroy"} /\ (SaveFails \/ Crash)
  <2>1. UNCHANGED checkpoint /\ \E why \in DanglingCause : Hit(Upset, why)
    BY <1>8 DEF SaveFails, Crash, DanglingCause
  <2>2. prior = checkpoint.saved.table
    BY <1>8 DEF MemoryInv, MemoryMatchesPhase
  <2>3. ASSUME NEW u \in Urn, NEW i \in Id, prior[u] # None, prior[u].id = i,
               cloud[i] # "live"
        PROVE  Struck(i)'
    <3>1. i \in IdsIn(prior)
      BY <2>3, EngineAssumption DEF IdsIn, Domain
    <3>2. ~Settled(i)
      BY <2>2, <2>3, <3>1 DEF Settled
    <3>3. i \in Upset
      BY <3>1, <3>2 DEF Upset
    <3>4. \E why \in DanglingCause : why \in mishap'[i]
      BY <2>1, <3>3, HitGrows
    <3> QED
      BY <3>4 DEF Struck
  <2>4. RecordWhole'
    BY <1>1, <2>1, <2>2, <2>3 DEF RecordWhole, WholeTable, Whole, Struck
  <2> QED
    BY <1>4, <2>4 DEF DanglingInv
<1>9. \/ EndSave
      \/ /\ UNCHANGED checkpoint
         /\ phase \in {"idle", "program", "refresh"} \/ (phase = "delete" /\ dry)
      \/ phase = "save" /\ (SaveFails \/ Crash)
      \/ phase \in {"delete", "destroy"} /\ (SaveFails \/ Crash)
  BY DEF ProgramFails, EndPreview, SaveFails, Crash, TypeInv, TypeOK
<1> QED
  BY <1>5, <1>6, <1>7, <1>8, <1>9

THEOREM NextDanglingInv ==
  TypeInv /\ Ownership /\ MemoryInv /\ DanglingInv /\ [Next]_vars => DanglingInv'
<1> SUFFICES ASSUME TypeInv, Ownership, MemoryInv, DanglingInv, [Next]_vars
             PROVE  DanglingInv'
  OBVIOUS
<1>1. CASE UNCHANGED vars
  BY <1>1 DEF vars, DanglingInv, RecordWhole, MemoryWhole, WholeTable, Whole, Struck,
     NewWhole, DeletedAreStruck, Running, UrnAt
<1>2. CASE (\E preview \in BOOLEAN : BeginRun(preview)) \/ BeginDestroy \/ BeginRefresh
           \/ ProgramSucceeds \/ (\E i \in Id : OutOfBand(i))
  BY <1>2, QuietDangling
<1>3. CASE \E h \in Handler, r \in Resource, in \in Input : Receive(h, r, in)
  BY <1>3, QuietDangling
<1>4. CASE \E h \in Handler : HandlerStep(h)
  BY <1>4, QuietDangling, RegisterDangling DEF HandlerStep
<1>5. CASE (\E u \in Urn : DeleteUrn(u)) \/ DestroyEntry \/ RefreshEntry \/ BeginSave
  BY <1>5, DeleteDangling, WalkDangling
<1>6. CASE ProgramFails \/ EndPreview \/ SaveFails \/ EndSave \/ Crash
  BY <1>6, EndDangling
<1> QED
  BY <1>1, <1>2, <1>3, <1>4, <1>5, <1>6 DEF Next, EngineStep

THEOREM SpecDanglingInv == Spec => []DanglingInv
<1> QED
  BY InitDanglingInv, NextDanglingInv, SpecTypeInv, SpecOwnership, SpecMemoryInv,
     PTL DEF Spec

(* Between two operations an entry of the checkpoint whose object is gone  *)
(* was hit from outside, by a crash or a failed save, or by a registration *)
(* that came after the delete loop had listed its URN: no failure of the   *)
(* provider, of the program or of a connection leaves a dangling entry.    *)
THEOREM SpecNoSilentDangling == Spec => []NoSilentDangling
<1>1. TypeInv /\ DanglingInv => NoSilentDangling
  <2> SUFFICES ASSUME TypeInv, DanglingInv, phase = "idle", NEW i \in Recorded,
                      cloud[i] # "live"
               PROVE  mishap[i] \cap DanglingCause # {}
    BY DEF NoSilentDangling
  <2>1. PICK u \in Urn : checkpoint.saved.table[u] # None
                         /\ checkpoint.saved.table[u].id = i /\ i # None
    BY DEF Recorded, IdsIn, Domain
  <2>2. i \in Id
    BY <2>1 DEF TypeInv, TypeOK, Saved, Table, Entry
  <2> QED
    BY <2>1, <2>2 DEF DanglingInv, RecordWhole, WholeTable, Whole, Struck
<1> QED
  BY <1>1, SpecTypeInv, SpecDanglingInv, PTL

-----------------------------------------------------------------------------
(* Drift. The recorded inputs of an object are those the provider was last *)
(* given, or a task that gave others still holds it, or a mishap tells.    *)

Drifted(i) == mishap[i] \cap DriftCause # {}
Faithful(i, in) == props[i] = in \/ HeldAny(i) \/ Drifted(i)
FaithfulTable(t) ==
  \A u \in Urn \ Component : t[u] # None => Faithful(t[u].id, t[u].inputs)

RecordFaithful ==
  phase \in {"idle", "destroy", "refresh"} => FaithfulTable(checkpoint.saved.table)

(* While the program runs the checkpoint is overtaken by what the run has  *)
(* had the provider do.                                                    *)
PriorFaithful ==
  phase \in {"program", "delete"} =>
    \A u \in Urn \ Component : prior[u] # None =>
      \/ Faithful(prior[u].id, prior[u].inputs)
      \/ resources[u] # None /\ resources[u].outputs = "provider"

MemoryFaithful == /\ ~dry => FaithfulTable(resources)
                  /\ FaithfulTable(pending.table)

(* Task h is the one that gave object i the inputs it has.                 *)
Gave(h, i) == /\ handlers[h].pc = "applied"
              /\ handlers[h].id = i
              /\ handlers[h].inputs = props[i]

(* Of the tasks that hold an object, one that is yet to register gave it   *)
(* its inputs, or the last to have registered did.                         *)
LatestKnown ==
  \A h \in Handler : Running(h) /\ handlers[h].pc = "applied" =>
    LET i == handlers[h].id
        u == UrnAt(h)
    IN \/ Drifted(i)
       \/ \E g \in Handler : Gave(g, i)
       \/ In(resources, u, i) /\ resources[u].inputs = props[i]

(* A registration that calls no provider repeats the inputs of prior.      *)
SameIsSame ==
  \A h \in Handler :
    Running(h) /\ handlers[h].pc = "register" /\ ~dry /\ UrnAt(h) \notin Component
      => /\ prior[UrnAt(h)] # None
         /\ handlers[h].inputs = prior[UrnAt(h)].inputs

DriftInv == /\ RecordFaithful
            /\ PriorFaithful
            /\ MemoryFaithful
            /\ LatestKnown
            /\ SameIsSame

THEOREM InitDriftInv == Init => DriftInv
<1> SUFFICES ASSUME Init PROVE DriftInv
  OBVIOUS
<1>1. FaithfulTable(NoTable)
  BY DEF FaithfulTable, NoTable
<1>2. RecordFaithful /\ PriorFaithful /\ MemoryFaithful
  BY <1>1 DEF Init, RecordFaithful, PriorFaithful, MemoryFaithful, NoSaved
<1>3. LatestKnown /\ SameIsSame
  BY DEF Init, LatestKnown, SameIsSame, Running, Idle
<1> QED
  BY <1>2, <1>3 DEF DriftInv

LEMMA DriftedStays ==
  ASSUME TypeInv, [Next]_vars, NEW i \in Id, Drifted(i)
  PROVE  Drifted(i)'
<1>1. mishap[i] \subseteq mishap'[i]
  BY MishapGrows
<1> QED
  BY <1>1 DEF Drifted

(* Every step but Register.                                                *)
NoRegister ==
  \/ \E preview \in BOOLEAN : BeginRun(preview)
  \/ \E h \in Handler, r \in Resource, in \in Input : Receive(h, r, in)
  \/ \E h \in Handler, i \in Id : ProviderCreates(h, i)
  \/ \E h \in Handler : ProviderUpdates(h) \/ CallFails(h) \/ Drop(h)
  \/ EngineStep
  \/ ProgramFails
  \/ BeginDestroy
  \/ BeginRefresh
  \/ \E i \in Id : OutOfBand(i)
  \/ SaveFails
  \/ Crash

(* A task lets go of its object by abandoning it only, the inputs of an    *)
(* object change from outside or by a task that holds it from then on, and *)
(* a task that comes to hold one gave it its inputs.                       *)
Handover ==
  /\ \A g \in Handler : handlers[g].pc = "applied" =>
       \/ /\ handlers'[g].pc = "applied"
          /\ handlers'[g].id = handlers[g].id
          /\ handlers'[g].inputs = handlers[g].inputs
       \/ "abandoned" \in mishap'[handlers[g].id]
  /\ \A i \in Id : \/ props'[i] = props[i]
                   \/ "outOfBand" \in mishap'[i]
                   \/ \E g \in Handler : Gave(g, i)'
  /\ \A g \in Handler : handlers'[g].pc = "applied" =>
       \/ /\ handlers[g].pc = "applied"
          /\ handlers[g].id = handlers'[g].id
          /\ handlers[g].res = handlers'[g].res
          /\ handlers[g].stale => handlers'[g].stale
       \/ handlers'[g].inputs = props'[handlers'[g].id]

LEMMA ProvisionStep ==
  ASSUME TypeInv, NoRegister
  PROVE  Handover
<1>1. CASE UNCHANGED <<handlers, props>>
  BY <1>1 DEF Handover
<1>2. CASE EndRun /\ UNCHANGED props
  BY <1>2 DEF EndRun, Handover, TypeInv, TypeOK, HandlerState
<1>3. ASSUME NEW h \in Handler, NEW i \in Id, ProviderCreates(h, i)
      PROVE  Handover
  <2>1. /\ handlers[h].pc = "call" /\ handlers'[h].pc = "applied"
        /\ handlers'[h].id = i /\ handlers'[h].inputs = handlers[h].inputs
        /\ props'[i] = handlers[h].inputs
        /\ \A n \in Id : n # i => props'[n] = props[n]
        /\ \A g \in Handler : g # h => handlers'[g] = handlers[g]
    BY <1>3 DEF ProviderCreates, TypeInv, TypeOK, HandlerState
  <2>2. Gave(h, i)'
    BY <2>1 DEF Gave
  <2> QED
    BY <2>1, <2>2 DEF Handover
<1>4. ASSUME NEW h \in Handler, NEW i, i = handlers[h].id, ProviderUpdates(h)
      PROVE  Handover
  <2>1. /\ handlers[h].pc = "call" /\ handlers'[h].pc = "applied"
        /\ handlers'[h].id = i /\ handlers'[h].inputs = handlers[h].inputs
        /\ i \in Id /\ props'[i] = handlers[h].inputs
        /\ \A n \in Id : n # i => props'[n] = props[n]
        /\ \A g \in Handler : g # h => handlers'[g] = handlers[g]
    BY <1>4 DEF ProviderUpdates, TypeInv, TypeOK, HandlerState
  <2>2. Gave(h, i)'
    BY <2>1 DEF Gave
  <2> QED
    BY <2>1, <2>2 DEF Handover
<1>5. ASSUME NEW h \in Handler, CallFails(h)
      PROVE  Handover
  <2>1. /\ handlers[h].pc = "call" /\ handlers'[h].pc = "idle" /\ props' = props
        /\ \A g \in Handler : g # h => handlers'[g] = handlers[g]
    BY <1>5 DEF CallFails, world, Idle, TypeInv, TypeOK
  <2> QED
    BY <2>1 DEF Handover
<1>6. ASSUME NEW h \in Handler, Drop(h)
      PROVE  Handover
  <2>1. /\ handlers'[h].pc = "idle" /\ props' = props
        /\ \A g \in Handler : g # h => handlers'[g] = handlers[g]
    BY <1>6 DEF Drop, world, Idle, TypeInv, TypeOK
  <2>2. ASSUME handlers[h].pc = "applied"
        PROVE  "abandoned" \in mishap'[handlers[h].id]
    <3>1. handlers[h].id \in Id
      BY <2>2 DEF TypeInv, TasksTyped
    <3> QED
      BY <1>6, <2>2, <3>1, HitGrows DEF Drop
  <2> QED
    BY <2>1, <2>2 DEF Handover
<1>7. ASSUME NEW h \in Handler, NEW r \in Resource, NEW in \in Input, Receive(h, r, in)
      PROVE  Handover
  <2>1. /\ handlers[h].pc = "idle" /\ handlers'[h].pc # "applied" /\ props' = props
        /\ \A g \in Handler : g # h => handlers'[g] = handlers[g]
    BY <1>7 DEF Receive, world, TypeInv, TypeOK
  <2> QED
    BY <2>1 DEF Handover
<1>8. ASSUME NEW n \in Id, OutOfBand(n)
      PROVE  Handover
  <2>1. /\ "outOfBand" \in mishap'[n] /\ UNCHANGED handlers
        /\ \A i \in Id : i # n => props'[i] = props[i]
    BY <1>8, HitGrows DEF OutOfBand, TypeInv, TypeOK
  <2> QED
    BY <2>1 DEF Handover
<1>9. CASE EngineStep \/ ProgramFails \/ BeginDestroy \/ BeginRefresh
             \/ SaveFails \/ Crash \/ (\E preview \in BOOLEAN : BeginRun(preview))
  BY <1>1, <1>2, <1>9
     DEF EngineStep, ProgramSucceeds, DeleteUrn, EndPreview, DestroyEntry, RefreshEntry,
         BeginSave, EndSave, ProgramFails, BeginDestroy, BeginRefresh, SaveFails, Crash,
         BeginRun, world
<1> QED
  BY <1>3, <1>4, <1>5, <1>6, <1>7, <1>8, <1>9 DEF NoRegister

LEMMA FaithfulStays ==
  ASSUME TypeInv, [Next]_vars, Handover, NEW i \in Id, NEW in, Faithful(i, in)
  PROVE  Faithful(i, in)'
<1>1. CASE Drifted(i)
  BY <1>1, DriftedStays DEF Faithful
<1>2. CASE HeldAny(i)
  <2>1. HeldAny(i)' \/ "abandoned" \in mishap'[i]
    BY <1>2 DEF Handover, HeldAny
  <2> QED
    BY <2>1 DEF Faithful, Drifted, DriftCause
<1>3. CASE props[i] = in
  <2>1. props'[i] = props[i] \/ "outOfBand" \in mishap'[i] \/ HeldAny(i)'
    BY DEF Handover, Gave, HeldAny
  <2> QED
    BY <1>3, <2>1 DEF Faithful, Drifted, DriftCause
<1> QED
  BY <1>1, <1>2, <1>3 DEF Faithful

(* If no registration is lost, the latest stays known.                     *)
LEMMA LatestStays ==
  ASSUME TypeInv, [Next]_vars, Handover, LatestKnown, UNCHANGED resources
  PROVE  LatestKnown'
<1> SUFFICES ASSUME NEW h \in Handler, handlers'[h].pc = "applied",
                    ~handlers'[h].stale, NEW i, i = handlers'[h].id,
                    NEW u, u = UrnOf[handlers'[h].res]
             PROVE  \/ Drifted(i)'
                    \/ \E g \in Handler : Gave(g, i)'
                    \/ In(resources', u, i) /\ resources'[u].inputs = props'[i]
  BY DEF LatestKnown, Running, UrnAt, Gave, Drifted
<1>1. CASE handlers'[h].inputs = props'[i]
  BY <1>1 DEF Gave
<1>2. CASE handlers'[h].inputs # props'[i]
  <2>1. handlers[h].pc = "applied" /\ handlers[h].id = i /\ ~handlers[h].stale
        /\ UrnOf[handlers[h].res] = u
    BY <1>2 DEF Handover
  <2>2. i \in Id
    BY <2>1 DEF TypeInv, TasksTyped
  <2>3. \/ Drifted(i)
        \/ \E g \in Handler : Gave(g, i)
        \/ In(resources, u, i) /\ resources[u].inputs = props[i]
    BY <2>1 DEF LatestKnown, Running, UrnAt
  <2>4. CASE Drifted(i)
    BY <2>2, <2>4, DriftedStays
  <2>5. CASE props'[i] # props[i]
    <3>1. "outOfBand" \in mishap'[i] \/ \E g \in Handler : Gave(g, i)'
      BY <2>2, <2>5 DEF Handover
    <3> QED
      BY <3>1 DEF Drifted, DriftCause
  <2>6. ASSUME NEW g \in Handler, Gave(g, i), props'[i] = props[i]
        PROVE  Drifted(i)' \/ Gave(g, i)'
    <3>1. \/ /\ handlers'[g].pc = "applied"
             /\ handlers'[g].id = handlers[g].id
             /\ handlers'[g].inputs = handlers[g].inputs
          \/ "abandoned" \in mishap'[i]
      BY <2>6 DEF Handover, Gave
    <3> QED
      BY <2>6, <3>1 DEF Gave, Drifted, DriftCause
  <2>7. CASE In(resources, u, i) /\ resources[u].inputs = props[i]
             /\ props'[i] = props[i]
    BY <2>7
  <2> QED
    BY <2>3, <2>4, <2>5, <2>6, <2>7
<1> QED
  BY <1>1, <1>2

LEMMA QuietDrift ==
  ASSUME TypeInv, MemoryInv, DriftInv, [Next]_vars, Handover,
         \/ \E preview \in BOOLEAN : BeginRun(preview)
         \/ \E h \in Handler, r \in Resource, in \in Input : Receive(h, r, in)
         \/ \E h \in Handler, i \in Id : ProviderCreates(h, i)
         \/ \E h \in Handler : ProviderUpdates(h) \/ CallFails(h) \/ Drop(h)
         \/ BeginDestroy \/ BeginRefresh \/ ProgramSucceeds \/ DestroyEntry
         \/ \E u \in Urn : DeleteUrn(u)
         \/ \E i \in Id : OutOfBand(i)
  PROVE  DriftInv'
<1>1. /\ UNCHANGED <<checkpoint, resources, pending>>
      /\ \/ UNCHANGED <<phase, dry, prior>>
         \/ phase = "program" /\ phase' = "delete" /\ UNCHANGED <<dry, prior>>
         \/ phase = "idle" /\ prior' = checkpoint.saved.table /\ UNCHANGED handlers
  BY DEF BeginRun, BeginDestroy, BeginRefresh, ProgramSucceeds, DestroyEntry, DeleteUrn,
         OutOfBand, Receive, ProviderCreates, ProviderUpdates, CallFails, Drop, volatile
<1>2. phase = "idle" => resources = NoTable /\ \A h \in Handler : ~Running(h)
  BY DEF MemoryInv, MemoryMatchesPhase
<1>3. \A i \in Id : \A in : Faithful(i, in) => Faithful(i, in)'
  BY FaithfulStays
<1>4. \A i \in Id : \A in : Faithful(i, in) =>
        (props'[i] = in \/ HeldAny(i)' \/ Drifted(i)')
  BY <1>3 DEF Faithful
<1>5. RecordFaithful'
  <2>1. phase' \in {"idle", "destroy", "refresh"} =>
          phase \in {"idle", "destroy", "refresh"}
    BY <1>1
  <2> QED
    BY <1>1, <1>4, <2>1 DEF DriftInv, RecordFaithful, FaithfulTable, Faithful, HeldAny,
       Drifted, TypeInv, TablesTyped, CustomHasId
<1>6. PriorFaithful'
  <2> SUFFICES ASSUME phase' \in {"program", "delete"},
                      NEW u \in Urn \ Component, prior'[u] # None, NEW i, i = prior'[u].id,
                      NEW in, in = prior'[u].inputs
               PROVE  \/ props'[i] = in \/ HeldAny(i)' \/ Drifted(i)'
                      \/ resources[u] # None /\ resources[u].outputs = "provider"
    BY <1>1 DEF PriorFaithful, Faithful, HeldAny, Drifted
  <2>1. \/ Faithful(i, in) /\ i \in Id
        \/ resources[u] # None /\ resources[u].outputs = "provider"
    BY <1>1 DEF DriftInv, RecordFaithful, PriorFaithful, FaithfulTable, TypeInv,
                TablesTyped, CustomHasId
  <2> QED
    BY <1>4, <2>1
<1>7. MemoryFaithful'
  <2>1. FaithfulTable(pending.table)'
    BY <1>1, <1>4 DEF DriftInv, MemoryFaithful, FaithfulTable, Faithful, HeldAny,
       Drifted, TypeInv, TablesTyped, CustomHasId
  <2>2. CASE phase = "idle"
    BY <1>1, <1>2, <2>1, <2>2 DEF MemoryFaithful, FaithfulTable, NoTable
  <2>3. CASE UNCHANGED dry
    BY <1>1, <1>4, <2>1, <2>3 DEF DriftInv, MemoryFaithful, FaithfulTable, Faithful,
       HeldAny, Drifted, TypeInv, TablesTyped, CustomHasId
  <2> QED
    BY <1>1, <2>2, <2>3
<1>8. LatestKnown'
  BY <1>1, LatestStays DEF DriftInv
<1>9. SameIsSame'
  <2>1. CASE phase = "idle" /\ UNCHANGED handlers
    BY <1>2, <2>1 DEF SameIsSame, Running
  <2>2. ASSUME UNCHANGED <<dry, prior>>,
               \A h \in Handler : handlers'[h] = handlers[h] \/ handlers'[h].pc # "register"
        PROVE  SameIsSame'
    BY <2>2 DEF DriftInv, SameIsSame, Running, UrnAt
  <2>3. ASSUME NEW h \in Handler, NEW r \in Resource, NEW in \in Input, Receive(h, r, in)
        PROVE  SameIsSame'
    <3>1. /\ UNCHANGED <<dry, prior>>
          /\ handlers'[h].res = r /\ handlers'[h].inputs = in
          /\ \A g \in Handler : g # h => handlers'[g] = handlers[g]
      BY <2>3 DEF Receive, TypeInv, TypeOK
    <3>2. ASSUME handlers'[h].pc = "register", ~dry, UrnOf[r] \notin Component
          PROVE  prior[UrnOf[r]] # None /\ in = prior[UrnOf[r]].inputs
      <4>1. ~CallsProvider(UrnOf[r], DiffResource(prior[UrnOf[r]], in))
        BY <2>3, <3>2 DEF Receive, GetPriorResource, TypeInv, TypeOK
      <4> QED
        BY <3>2, <4>1 DEF CallsProvider, DiffResource
    <3> QED
      BY <3>1, <3>2 DEF DriftInv, SameIsSame, Running, UrnAt
  <2>4. CASE ProgramSucceeds \/ DestroyEntry \/ (\E u \in Urn : DeleteUrn(u))
             \/ (\E i \in Id : OutOfBand(i))
    BY <2>2, <2>4 DEF ProgramSucceeds, DestroyEntry, DeleteUrn, OutOfBand, volatile
  <2>5. ASSUME NEW h \in Handler, \/ \E i \in Id : ProviderCreates(h, i)
                                  \/ ProviderUpdates(h) \/ CallFails(h) \/ Drop(h)
        PROVE  SameIsSame'
    <3>1. /\ UNCHANGED <<dry, prior>> /\ handlers'[h].pc # "register"
          /\ \A g \in Handler : g # h => handlers'[g] = handlers[g]
      BY <2>5 DEF ProviderCreates, ProviderUpdates, CallFails, Drop, volatile, Idle,
                  TypeInv, TypeOK, HandlerState
    <3> QED
      BY <2>2, <3>1
  <2> QED
    BY <2>1, <2>3, <2>4, <2>5 DEF BeginRun, BeginDestroy, BeginRefresh
<1> QED
  BY <1>5, <1>6, <1>7, <1>8, <1>9 DEF DriftInv

(* A registration writes the inputs its task was given. They are the       *)
(* object's unless another task overtook it, which leaves its trace.       *)
LEMMA RegisterDrift ==
  ASSUME TypeInv, Ownership, MemoryInv, DriftInv, [Next]_vars,
         NEW h \in Handler, Register(h),
         NEW w, w = UrnAt(h), NEW i, i = handlers[h].id
  PROVE  DriftInv'
<1>1. /\ Running(h) /\ handlers[h].pc \in {"applied", "register"} /\ w \in Urn
      /\ resources'[w] # None /\ resources'[w].id = i
      /\ resources'[w].inputs = handlers[h].inputs
      /\ resources'[w].outputs =
           IF handlers[h].pc = "applied" THEN "provider" ELSE "program"
      /\ \A u \in Urn : u # w => resources'[u] = resources[u]
      /\ handlers'[h] = Idle
      /\ \A g \in Handler : g # h => handlers'[g] = handlers[g]
      /\ UNCHANGED <<checkpoint, cloud, props, phase, dry, prior, pending>>
  BY RegisterStep DEF world
<1>2. phase \in {"program", "delete", "save"}
  BY <1>1 DEF MemoryInv, MemoryMatchesPhase, TypeInv, TypeOK
<1>3. \A n \in Id : Drifted(n) => Drifted(n)'
  BY DriftedStays
<1>4. ASSUME NEW n \in {resources[w].id, i}, n \in Id, ~dry, resources[w] # None,
             resources'[w] # resources[w]
      PROVE  Drifted(n)'
  <2>1. "duplicateUrn" \in mishap'[n]
    BY <1>4, RegisterMishaps
  <2> QED
    BY <2>1 DEF Drifted, DriftCause
<1>5. ASSUME phase = "save", i \in Id
      PROVE  Drifted(i)'
  <2>1. "lateRegister" \in mishap'[i]
    BY <1>5, RegisterMishaps
  <2> QED
    BY <2>1 DEF Drifted, DriftCause
<1>6. \A n \in Id : \A in : Faithful(n, in) /\ (n # i \/ handlers[h].pc = "register")
        => props[n] = in \/ HeldAny(n)' \/ Drifted(n)'
  <2>1. \A n \in Id : HeldAny(n) /\ (n # i \/ handlers[h].pc = "register") => HeldAny(n)'
    BY <1>1 DEF HeldAny
  <2> QED
    BY <1>3, <2>1 DEF Faithful
<1>7. \A u \in Urn : \A n \in Id : u # w /\ Owns(u, n) => n # i
  <2>1. Owns(w, i)
    BY <1>1 DEF Owns, HeldFor, UrnAt, Running
  <2> HIDE DEF Owns
  <2> QED
    BY <1>1, <2>1 DEF Ownership
<1>8. prior[w] # None => i = prior[w].id
  BY <1>1 DEF MemoryInv, IdsFollowPrior
<1>9. ASSUME w \notin Component, ~dry
      PROVE  /\ i \in Id
             /\ props[i] = handlers[h].inputs \/ HeldAny(i)' \/ Drifted(i)'
  <2>1. i \in Id
    BY <1>1, <1>9 DEF TypeInv, TasksTyped, TablesTyped, UrnAt, Running
  <2>2. CASE handlers[h].pc = "applied"
    <3>1. \/ Drifted(i)
          \/ \E g \in Handler : Gave(g, i)
          \/ In(resources, w, i) /\ resources[w].inputs = props[i]
      BY <1>1, <2>2 DEF DriftInv, LatestKnown
    <3>2. ASSUME NEW g \in Handler, Gave(g, i)
          PROVE  props[i] = handlers[h].inputs \/ HeldAny(i)'
      BY <1>1, <3>2 DEF Gave, HeldAny
    <3>3. CASE In(resources, w, i) /\ resources[w].inputs = props[i]
      BY <1>1, <1>4, <1>9, <2>1, <3>3 DEF In
    <3> QED
      BY <1>3, <2>1, <3>1, <3>2, <3>3
  <2>3. CASE handlers[h].pc = "register"
    <3>1. prior[w] # None /\ handlers[h].inputs = prior[w].inputs
      BY <1>1, <1>9, <2>3 DEF DriftInv, SameIsSame
    <3>2. CASE phase = "save"
      BY <1>5, <2>1, <3>2
    <3>3. CASE Faithful(i, handlers[h].inputs)
      BY <1>6, <2>1, <2>3, <3>3
    <3>4. CASE resources[w] # None /\ resources[w].outputs = "provider"
      <4>1. resources'[w] # resources[w]
        BY <1>1, <2>3, <3>4
      <4> QED
        BY <1>4, <1>9, <2>1, <3>4, <4>1
    <3> QED
      BY <1>1, <1>2, <1>8, <1>9, <3>1, <3>2, <3>3, <3>4 DEF DriftInv, PriorFaithful
  <2> QED
    BY <1>1, <2>1, <2>2, <2>3
<1>10. MemoryFaithful'
  <2>1. ASSUME NEW u \in Urn \ Component, resources'[u] # None, ~dry,
               NEW n, n = resources'[u].id, NEW in, in = resources'[u].inputs
        PROVE  props[n] = in \/ HeldAny(n)' \/ Drifted(n)'
    <3>1. CASE u = w
      BY <1>1, <1>9, <2>1, <3>1
    <3>2. CASE u # w
      <4>1. /\ n \in Id /\ Faithful(n, in) /\ Owns(u, n)
        BY <1>1, <2>1, <3>2 DEF DriftInv, MemoryFaithful, FaithfulTable, TypeInv,
           TablesTyped, CustomHasId, Owns, In
      <4> HIDE DEF Owns
      <4> QED
        BY <1>6, <1>7, <3>2, <4>1
    <3> QED
      BY <3>1, <3>2
  <2>2. ASSUME NEW u \in Urn \ Component, pending.table[u] # None,
               NEW n, n = pending.table[u].id, NEW in, in = pending.table[u].inputs
        PROVE  props[n] = in \/ HeldAny(n)' \/ Drifted(n)'
    <3>1. phase = "save"
      BY <2>2 DEF MemoryInv, MemoryMatchesPhase, NoSaved, NoTable
    <3>2. n \in Id /\ Faithful(n, in)
      BY <2>2 DEF DriftInv, MemoryFaithful, FaithfulTable, TypeInv, TablesTyped,
                  CustomHasId
    <3> QED
      BY <1>5, <1>6, <3>1, <3>2
  <2> QED
    BY <1>1, <2>1, <2>2 DEF MemoryFaithful, FaithfulTable, Faithful, HeldAny, Drifted
<1>11. PriorFaithful'
  <2> SUFFICES ASSUME phase \in {"program", "delete"}, NEW u \in Urn \ Component,
                      prior[u] # None, NEW n, n = prior[u].id,
                      NEW in, in = prior[u].inputs
               PROVE  \/ props[n] = in \/ HeldAny(n)' \/ Drifted(n)'
                      \/ resources'[u] # None /\ resources'[u].outputs = "provider"
    BY <1>1 DEF PriorFaithful, Faithful, HeldAny, Drifted
  <2>1. n \in Id /\ Owns(u, n)
    BY DEF TypeInv, TablesTyped, CustomHasId, Owns, In
  <2> HIDE DEF Owns
  <2>2. \/ Faithful(n, in)
        \/ resources[u] # None /\ resources[u].outputs = "provider"
    BY DEF DriftInv, PriorFaithful
  <2>3. CASE u # w
    BY <1>1, <1>6, <1>7, <2>1, <2>2, <2>3
  <2>4. CASE u = w /\ handlers[h].pc = "applied"
    BY <1>1, <2>4
  <2>5. CASE u = w /\ handlers[h].pc = "register"
    <3>1. ASSUME resources[w] # None, resources[w].outputs = "provider"
          PROVE  Drifted(n)'
      <4>1. ~dry
        BY <1>1, <3>1 DEF MemoryInv, DryCallsNothing
      <4>2. resources'[w] # resources[w]
        BY <1>1, <2>5, <3>1
      <4> QED
        BY <1>4, <1>8, <2>1, <2>5, <3>1, <4>1, <4>2
    <3> QED
      BY <1>6, <2>1, <2>2, <2>5, <3>1
  <2> QED
    BY <1>1, <2>3, <2>4, <2>5
<1>12. LatestKnown'
  <2> SUFFICES ASSUME NEW g \in Handler, handlers'[g].pc = "applied",
                      ~handlers'[g].stale, NEW n, n = handlers'[g].id,
                      NEW v, v = UrnOf[handlers'[g].res]
               PROVE  \/ Drifted(n)'
                      \/ \E k \in Handler : Gave(k, n)'
                      \/ In(resources', v, n) /\ resources'[v].inputs = props'[n]
    BY DEF LatestKnown, Running, UrnAt, Gave, Drifted
  <2>1. g # h /\ handlers'[g] = handlers[g]
    BY <1>1 DEF Idle
  <2>2. Running(g) /\ n \in Id /\ v \in Urn /\ Owns(v, n) /\ v = UrnAt(g)
    BY <2>1, EngineAssumption DEF Running, UrnAt, TypeInv, TasksTyped, Owns, HeldFor
  <2> HIDE DEF Owns
  <2>3. ~dry
    BY <2>1, <2>2 DEF MemoryInv, DryCallsNothing
  <2>4. \/ Drifted(n)
        \/ \E k \in Handler : Gave(k, n)
        \/ In(resources, v, n) /\ resources[v].inputs = props[n]
    BY <2>1, <2>2 DEF DriftInv, LatestKnown
  <2>5. ASSUME NEW k \in Handler, Gave(k, n), k # h
        PROVE  Gave(k, n)'
    BY <1>1, <2>5 DEF Gave
  <2>6. CASE Gave(h, n)
    <3>1. n = i /\ v = w
      BY <1>7, <2>2, <2>6 DEF Gave
    <3> QED
      BY <1>1, <2>6, <3>1 DEF Gave, In
  <2>7. CASE In(resources, v, n) /\ resources[v].inputs = props[n]
    BY <1>1, <1>4, <2>2, <2>3, <2>7 DEF In
  <2> QED
    BY <1>3, <2>2, <2>4, <2>5, <2>6, <2>7
<1>13. RecordFaithful' /\ SameIsSame'
  BY <1>1, <1>2 DEF DriftInv, RecordFaithful, SameIsSame, Running, UrnAt, Idle
<1> QED
  BY <1>10, <1>11, <1>12, <1>13 DEF DriftInv

LEMMA RefreshDrift ==
  ASSUME TypeInv, MemoryInv, DriftInv, RefreshEntry
  PROVE  DriftInv'
<1>1. /\ phase = "refresh"
      /\ UNCHANGED <<checkpoint, props, phase, dry, prior, pending, handlers, mishap>>
  BY DEF RefreshEntry, world
<1>2. prior = checkpoint.saved.table /\ \A h \in Handler : ~Running(h)
  BY <1>1 DEF MemoryInv, MemoryMatchesPhase
<1>3. \A u \in Urn : \/ resources'[u] = resources[u]
                     \/ /\ prior[u] # None /\ resources'[u].id = prior[u].id
                        /\ resources'[u].inputs \in {prior[u].inputs, props[prior[u].id]}
  BY RefreshStep DEF TypeInv, TypeOK, Table
<1>4. MemoryFaithful'
  BY <1>1, <1>2, <1>3 DEF DriftInv, MemoryFaithful, RecordFaithful, FaithfulTable,
     Faithful, HeldAny, Drifted
<1>5. LatestKnown' /\ SameIsSame'
  BY <1>1, <1>2 DEF LatestKnown, SameIsSame, Running
<1>6. RecordFaithful' /\ PriorFaithful'
  BY <1>1 DEF DriftInv, RecordFaithful, PriorFaithful, FaithfulTable, Faithful, HeldAny,
     Drifted
<1> QED
  BY <1>4, <1>5, <1>6 DEF DriftInv

LEMMA BeginSaveDrift ==
  ASSUME TypeInv, DriftInv, BeginSave
  PROVE  DriftInv'
<1>1. /\ phase' = "save" /\ pending'.table = resources /\ ~dry
      /\ UNCHANGED <<props, dry, prior, resources, handlers, mishap>>
  BY DEF BeginSave, ReadyToSave, volatile, world, TypeInv, DryTyped
<1>2. MemoryFaithful'
  BY <1>1 DEF DriftInv, MemoryFaithful, FaithfulTable, Faithful, HeldAny, Drifted
<1>3. LatestKnown' /\ SameIsSame'
  BY <1>1 DEF DriftInv, LatestKnown, SameIsSame, Running, UrnAt, Gave, Drifted, In
<1> QED
  BY <1>1, <1>2, <1>3 DEF DriftInv, RecordFaithful, PriorFaithful

LEMMA EndDrift ==
  ASSUME TypeInv, Ownership, MemoryInv, DriftInv, [Next]_vars, Handover,
         ProgramFails \/ EndPreview \/ SaveFails \/ EndSave \/ Crash
  PROVE  DriftInv'
<1>1. /\ EndRun /\ phase' = "idle" /\ resources' = NoTable /\ pending' = NoSaved
      /\ checkpoint' = checkpoint \/ EndSave
  BY DEF ProgramFails, EndPreview, SaveFails, EndSave, Crash, EndRun
<1>2. (\A h \in Handler : ~Running(h))'
  BY <1>1, EndRunTypes DEF Running
<1>3. PriorFaithful' /\ MemoryFaithful' /\ LatestKnown' /\ SameIsSame'
  BY <1>1, <1>2 DEF PriorFaithful, MemoryFaithful, FaithfulTable, NoSaved, NoTable,
     LatestKnown, SameIsSame
<1>4. \A i \in Id : \A in : Faithful(i, in) =>
        (props'[i] = in \/ HeldAny(i)' \/ Drifted(i)')
  BY FaithfulStays DEF Faithful
<1>5. ASSUME NEW t, FaithfulTable(t), CustomHasId(t),
             NEW u \in Urn \ Component, t[u] # None,
             NEW i, i = t[u].id, NEW in, in = t[u].inputs
      PROVE  props'[i] = in \/ HeldAny(i)' \/ Drifted(i)'
  BY <1>4, <1>5 DEF FaithfulTable, CustomHasId
<1>6. ASSUME NEW u \in Urn \ Component, checkpoint'.saved.table[u] # None,
             NEW i, i = checkpoint'.saved.table[u].id,
             NEW in, in = checkpoint'.saved.table[u].inputs
      PROVE  props'[i] = in \/ HeldAny(i)' \/ Drifted(i)'
  <2>1. CASE EndSave
    <3>1. checkpoint'.saved = pending
      BY <2>1 DEF EndSave
    <3> QED
      BY <1>5, <1>6, <3>1 DEF DriftInv, MemoryFaithful, TypeInv, TablesTyped
  <2>2. CASE phase = "save" /\ ~EndSave
    BY <1>1, <1>6, <2>2 DEF MemoryInv, MemoryMatchesPhase, NoSaved, NoTable
  <2>3. CASE phase \in {"idle", "destroy", "refresh"} /\ ~EndSave
    BY <1>1, <1>5, <1>6, <2>3 DEF DriftInv, RecordFaithful, TypeInv, TablesTyped
  <2>4. CASE phase \in {"program", "delete"} /\ ~EndSave
    <3>1. /\ checkpoint' = checkpoint /\ prior = checkpoint.saved.table
          /\ prior[u] # None /\ i = prior[u].id /\ in = prior[u].inputs /\ i \in Id
      BY <1>1, <1>6, <2>4 DEF MemoryInv, MemoryMatchesPhase, TypeInv, TablesTyped,
                              CustomHasId
    <3>2. CASE EndPreview
      <4>1. ~(resources[u] # None /\ resources[u].outputs = "provider")
        BY <3>2 DEF EndPreview, MemoryInv, DryCallsNothing
      <4> QED
        BY <1>4, <2>4, <3>1, <4>1 DEF DriftInv, PriorFaithful
    <3>3. CASE ProgramFails
      <4>1. ASSUME resources[u] # None, resources[u].outputs = "provider"
            PROVE  Drifted(i)'
        <5>1. resources[u].id = i
          BY <3>1, <4>1 DEF MemoryInv, IdsFollowPrior
        <5>2. "programFailed" \in mishap'[i]
          BY <3>1, <3>3, <4>1, <5>1, HitGrows DEF ProgramFails, Domain
        <5> QED
          BY <5>2 DEF Drifted, DriftCause
      <4> QED
        BY <1>4, <2>4, <3>1, <4>1 DEF DriftInv, PriorFaithful
    <3>4. CASE SaveFails \/ Crash
      <4>1. \E why \in DriftCause : Hit(Upset, why)
        BY <3>4 DEF SaveFails, Crash, DriftCause
      <4>2. i \in IdsIn(prior)
        BY <3>1, EngineAssumption DEF IdsIn, Domain
      <4>3. CASE i \in Upset
        BY <3>1, <4>1, <4>3, HitGrows DEF Drifted
      <4>4. CASE i \notin Upset
        <5>1. Settled(i)
          BY <4>2, <4>4 DEF Upset
        <5>2. PICK v \in Urn : prior[v] # None /\ prior[v].id = i
                               /\ prior[v].inputs = props[i]
          BY <3>1, <4>2, <5>1 DEF Settled, Domain
        <5>3. u = v
          BY <3>1, <5>2 DEF Ownership, Owns, In
        <5>4. UNCHANGED props
          BY <3>4 DEF SaveFails, Crash, world
        <5> QED
          BY <3>1, <5>2, <5>3, <5>4
      <4> QED
        BY <4>3, <4>4
    <3> QED
      BY <2>4, <3>2, <3>3, <3>4
  <2> QED
    BY <2>1, <2>2, <2>3, <2>4 DEF TypeInv, TypeOK
<1>7. RecordFaithful'
  BY <1>6 DEF RecordFaithful, FaithfulTable, Faithful, HeldAny, Drifted
<1> QED
  BY <1>3, <1>7 DEF DriftInv

THEOREM NextDriftInv ==
  TypeInv /\ Ownership /\ MemoryInv /\ DriftInv /\ [Next]_vars => DriftInv'
<1> SUFFICES ASSUME TypeInv, Ownership, MemoryInv, DriftInv, [Next]_vars
             PROVE  DriftInv'
  OBVIOUS
<1>1. CASE UNCHANGED vars
  BY <1>1 DEF vars, DriftInv, RecordFaithful, PriorFaithful, MemoryFaithful,
     FaithfulTable, Faithful, HeldAny, Drifted, LatestKnown, SameIsSame, Running, UrnAt,
     Gave, In
<1>2. CASE \E h \in Handler : Register(h)
  BY <1>2, RegisterDrift
<1>3. CASE NoRegister
  <2>1. Handover
    BY <1>3, ProvisionStep
  <2> QED
    BY <1>3, <2>1, QuietDrift, RefreshDrift, BeginSaveDrift, EndDrift
       DEF NoRegister, EngineStep
<1> QED
  BY <1>1, <1>2, <1>3 DEF Next, HandlerStep, NoRegister

THEOREM SpecDriftInv == Spec => []DriftInv
<1> QED
  BY InitDriftInv, NextDriftInv, SpecTypeInv, SpecOwnership, SpecMemoryInv, PTL DEF Spec

(* Between two operations the inputs the checkpoint records for an object  *)
(* are those the provider was last given for it, unless a task still holds *)
(* the object or one of the named mishaps separated them: the interleaving *)
(* of tasks alone, however many ask for the same URN, never does.          *)
THEOREM SpecNoSilentDrift == Spec => []NoSilentDrift
<1>1. DriftInv => NoSilentDrift
  <2>1. \A i : HeldAny(i) => i \in HeldByHandler
    BY DEF HeldAny, HeldByHandler
  <2> QED
    BY <2>1 DEF DriftInv, RecordFaithful, FaithfulTable, Faithful, Drifted,
       NoSilentDrift, Domain
<1> QED
  BY <1>1, SpecDriftInv, PTL

-----------------------------------------------------------------------------
(* Exactness. Without faults, and with a URN for each statement, nothing   *)
(* befalls an object, so that the three properties leave no excuse.        *)

NoFaults == Fault = {}
UrnForEach == \A r, s \in Resource : UrnOf[r] = UrnOf[s] => r = s

Untroubled ==
  /\ \A i \in Id : mishap[i] = {}
  /\ \A h \in Handler : handlers[h].pc # "idle" =>
       /\ phase = "program"
       /\ ~handlers[h].stale
       /\ handlers[h].res \in asked
       /\ resources[UrnAt(h)] = None
  /\ \A g, h \in Handler : handlers[g].pc # "idle" /\ handlers[h].pc # "idle"
                           /\ handlers[g].res = handlers[h].res => g = h
  /\ phase = "program" => \A u \in Urn : resources[u] # None =>
       \E r \in asked : UrnOf[r] = u

THEOREM InitUntroubled == Init => Untroubled
BY DEF Init, Untroubled, Idle, NoTable

LEMMA TaskUntroubled ==
  ASSUME NoFaults, UrnForEach, TypeInv, MemoryInv, Untroubled, NEW h \in Handler,
         \/ \E r \in Resource, in \in Input : Receive(h, r, in)
         \/ \E i \in Id : ProviderCreates(h, i)
         \/ ProviderUpdates(h) \/ CallFails(h) \/ Drop(h)
  PROVE  Untroubled'
<1>1. ASSUME NEW r \in Resource, NEW in \in Input, Receive(h, r, in)
      PROVE  Untroubled'
  <2>1. /\ phase = "program" /\ handlers[h].pc = "idle" /\ r \notin asked
        /\ asked' = asked \cup {r} /\ UNCHANGED <<phase, resources, mishap>>
        /\ handlers'[h].res = r /\ ~handlers'[h].stale
        /\ \A g \in Handler : g # h => handlers'[g] = handlers[g]
    BY <1>1 DEF Receive, TypeInv, TypeOK
  <2>2. UrnOf[r] \in Urn
    BY EngineAssumption
  <2>3. resources[UrnOf[r]] = None
    BY <2>1, <2>2 DEF Untroubled, UrnForEach, TypeInv, TypeOK
  <2> QED
    BY <2>1, <2>3 DEF Untroubled, UrnAt
<1>2. ASSUME \/ \E i \in Id : ProviderCreates(h, i)
             \/ ProviderUpdates(h) \/ CallFails(h)
      PROVE  Untroubled'
  <2>1. /\ UNCHANGED <<phase, asked, resources, mishap>> /\ handlers[h].pc # "idle"
        /\ handlers'[h].pc # "idle" => /\ handlers'[h].res = handlers[h].res
                                       /\ handlers'[h].stale = handlers[h].stale
        /\ \A g \in Handler : g # h => handlers'[g] = handlers[g]
    BY <1>2 DEF ProviderCreates, ProviderUpdates, CallFails, Idle, volatile, TypeInv,
       TypeOK, HandlerState
  <2> QED
    BY <2>1 DEF Untroubled, UrnAt
<1>3. ~Drop(h)
  BY DEF Drop, NoFaults, Untroubled
<1> QED
  BY <1>1, <1>2, <1>3

LEMMA RegisterUntroubled ==
  ASSUME UrnForEach, TypeInv, Untroubled, NEW h \in Handler, Register(h)
  PROVE  Untroubled'
<1> DEFINE w == UrnAt(h)
<1>1. /\ Running(h) /\ w \in Urn
      /\ \A u \in Urn : u # w => resources'[u] = resources[u]
      /\ handlers'[h] = Idle
      /\ \A g \in Handler : g # h => handlers'[g] = handlers[g]
      /\ UNCHANGED <<phase, asked>>
  BY RegisterStep
<1>2. phase = "program" /\ resources[w] = None /\ handlers[h].res \in asked
  BY <1>1 DEF Untroubled, Running
<1>3. mishap' = [i \in Id |-> mishap[i] \cup {} \cup {}]
  BY <1>2 DEF Register, UrnAt
<1>4. \A i \in Id : mishap'[i] = {}
  BY <1>3 DEF Untroubled
<1>5. ASSUME NEW g \in Handler, g # h, handlers[g].pc # "idle"
      PROVE  UrnAt(g) \in Urn /\ UrnAt(g) # w
  <2>1. handlers[g].res # handlers[h].res
    BY <1>1, <1>5 DEF Untroubled, Running
  <2>2. handlers[g].res \in Resource /\ handlers[h].res \in Resource
    BY <1>1, <1>5 DEF TypeInv, TasksTyped, Running
  <2> QED
    BY <2>1, <2>2, EngineAssumption DEF UrnForEach, UrnAt
<1>6. \A u \in Urn : resources'[u] # None => \E r \in asked : UrnOf[r] = u
  BY <1>1, <1>2 DEF Untroubled, UrnAt
<1>7. \A g \in Handler : handlers'[g].pc # "idle" =>
        /\ g # h /\ handlers'[g] = handlers[g]
        /\ resources'[UrnOf[handlers[g].res]] = resources[UrnOf[handlers[g].res]]
  BY <1>1, <1>5 DEF Idle, UrnAt
<1> QED
  BY <1>1, <1>2, <1>4, <1>6, <1>7 DEF Untroubled, UrnAt

LEMMA EngineUntroubled ==
  ASSUME NoFaults, TypeInv, MemoryInv, Untroubled, [Next]_vars,
         \/ EngineStep \/ BeginDestroy \/ BeginRefresh
         \/ \E preview \in BOOLEAN : BeginRun(preview)
  PROVE  Untroubled'
<1>1. CASE (\E preview \in BOOLEAN : BeginRun(preview)) \/ BeginDestroy \/ BeginRefresh
  <2>1. phase = "idle" /\ UNCHANGED <<handlers, resources, mishap>>
    BY <1>1 DEF BeginRun, BeginDestroy, BeginRefresh
  <2>2. resources = NoTable
    BY <2>1 DEF MemoryInv, MemoryMatchesPhase
  <2> QED
    BY <2>1, <2>2 DEF Untroubled, NoTable
<1>2. CASE ProgramSucceeds
  <2>1. /\ phase' = "delete" /\ Quiescent /\ UNCHANGED <<handlers, mishap>>
    BY <1>2 DEF ProgramSucceeds, NoFaults
  <2>2. \A h \in Handler : handlers[h].pc = "idle"
    BY <2>1 DEF Quiescent, Untroubled
  <2> QED
    BY <2>1, <2>2 DEF Untroubled
<1>3. ASSUME phase # "program", phase' # "program", UNCHANGED <<handlers, mishap>>
      PROVE  Untroubled'
  BY <1>3 DEF Untroubled
<1>4. CASE (\E u \in Urn : DeleteUrn(u)) \/ DestroyEntry \/ RefreshEntry \/ BeginSave
  <2>1. phase # "program" /\ phase' # "program" /\ UNCHANGED handlers
    BY <1>4 DEF DeleteUrn, DestroyEntry, RefreshEntry, BeginSave, ReadyToSave
  <2>2. UNCHANGED mishap
    BY <1>4 DEF DeleteUrn, DestroyEntry, DeleteObject, RefreshEntry, BeginSave, NoFaults
  <2> QED
    BY <1>3, <2>1, <2>2
<1>5. CASE EndPreview \/ EndSave
  <2>1. EndRun /\ UNCHANGED mishap /\ phase # "program"
    BY <1>5 DEF EndPreview, EndSave
  <2>2. \A h \in Handler : handlers'[h].pc = "idle"
    BY <2>1 DEF EndRun, Untroubled, TypeInv, TypeOK, HandlerState
  <2> QED
    BY <2>1, <2>2 DEF Untroubled, EndRun
<1> QED
  BY <1>1, <1>2, <1>4, <1>5 DEF EngineStep

THEOREM NextUntroubled ==
  NoFaults /\ UrnForEach /\ TypeInv /\ MemoryInv /\ Untroubled /\ [Next]_vars
    => Untroubled'
<1> SUFFICES ASSUME NoFaults, UrnForEach, TypeInv, MemoryInv, Untroubled, [Next]_vars
             PROVE  Untroubled'
  OBVIOUS
<1>1. CASE UNCHANGED vars
  BY <1>1 DEF vars, Untroubled, UrnAt
<1>2. CASE \E h \in Handler : \/ \E r \in Resource, in \in Input : Receive(h, r, in)
                             \/ HandlerStep(h)
  BY <1>2, TaskUntroubled, RegisterUntroubled DEF HandlerStep
<1>3. CASE \/ EngineStep \/ BeginDestroy \/ BeginRefresh
           \/ \E preview \in BOOLEAN : BeginRun(preview)
  BY <1>3, EngineUntroubled
<1>4. ~ProgramFails /\ ~SaveFails /\ ~Crash /\ \A i \in Id : ~OutOfBand(i)
  BY DEF ProgramFails, SaveFails, Crash, OutOfBand, NoFaults
<1> QED
  BY <1>1, <1>2, <1>3, <1>4 DEF Next

(* Without faults, and with a URN for each statement, the checkpoint lists *)
(* after every operation the live objects, all of them, with the inputs    *)
(* they have, however many tasks ran at the same time.                     *)
THEOREM SpecCheckpointExact ==
  ASSUME NoFaults, UrnForEach
  PROVE  Spec => []CheckpointExact
<1>1. Spec => []Untroubled
  BY InitUntroubled, NextUntroubled, SpecTypeInv, SpecMemoryInv, PTL DEF Spec
<1>2. /\ TypeInv /\ MemoryInv /\ LeakInv /\ DanglingInv /\ DriftInv /\ Untroubled
      => CheckpointExact
  <2> SUFFICES ASSUME TypeInv, MemoryInv, LeakInv, DanglingInv, DriftInv, Untroubled,
                      phase = "idle", NEW i \in Id
               PROVE  Settled(i)
    BY DEF CheckpointExact
  <2> DEFINE t == checkpoint.saved.table
  <2>1. ~Excused(i) /\ ~Struck(i) /\ ~Drifted(i) /\ ~HeldAny(i) /\ i # None
    BY EngineAssumption DEF Untroubled, Excused, Struck, Drifted, HeldAny
  <2>2. CASE cloud[i] = "live"
    <3>1. prior = NoTable /\ resources = NoTable /\ pending = NoSaved
      BY DEF MemoryInv, MemoryMatchesPhase
    <3>2. Has(t, i)
      BY <2>1, <2>2, <3>1 DEF LeakInv, NothingLost, Tracked, Lives, Has, In, NoSaved,
                              NoTable
    <3>3. PICK u \in Urn : t[u] # None /\ t[u].id = i
      BY <3>2 DEF Has, In
    <3>4. u \notin Component
      BY <2>1, <3>3 DEF MemoryInv, ComponentsHaveNoId, NoComponentId
    <3>5. props[i] = t[u].inputs
      BY <2>1, <3>3, <3>4 DEF DriftInv, RecordFaithful, FaithfulTable, Faithful
    <3> QED
      BY <2>2, <3>3, <3>5 DEF Settled, Domain
  <2>3. CASE cloud[i] # "live"
    <3>1. ASSUME NEW u \in Urn, t[u] # None, t[u].id = i
          PROVE  FALSE
      BY <2>1, <2>3, <3>1 DEF DanglingInv, RecordWhole, WholeTable, Whole
    <3> QED
      BY <2>3, <3>1 DEF Settled, IdsIn, Domain
  <2> QED
    BY <2>2, <2>3
<1> QED
  BY <1>1, <1>2, SpecTypeInv, SpecMemoryInv, SpecLeakInv, SpecDanglingInv, SpecDriftInv,
     PTL
=============================================================================
