-------------------------- MODULE ProvidersProofs --------------------------
(***************************************************************************)
(* Theorems about Providers for every set of packages, handlers and        *)
(* process handles and for any faults.                                     *)
(***************************************************************************)
EXTENDS Providers, TLAPS

(* Whoever launches holds the mutex, for a package that has no provider,   *)
(* and its child is not configured.                                        *)
LaunchHoldsMutex ==
  \A c \in Caller : caller[c].pc \in {"starting", "launching"} =>
    /\ holder = c
    /\ map[caller[c].pkg] = None
    /\ caller[c].pc = "launching" /\ proc[caller[c].child] # None =>
         proc[caller[c].child].pkg = caller[c].pkg /\ ~proc[caller[c].child].up

(* The orchestrator asks for providers in its loops only, and is back from *)
(* get_provider before it shuts them down.                                 *)
EngineInLoop == phase # "deleting" => caller[Engine].pc = "idle"

PInv == TypeOK /\ NoStrayProcess /\ LaunchHoldsMutex /\ EngineInLoop

-----------------------------------------------------------------------------
LEMMA CallerShapes ==
  ASSUME TypeOK, NEW c \in Caller
  PROVE  /\ caller[c].pc \in {"idle", "waiting", "starting", "launching", "using"}
         /\ caller[c].pc # "idle" => caller[c].pkg \in Package
         /\ caller[c].pc = "launching" => caller[c].child \in Proc
         /\ caller[c].asked \in Address /\ caller[c].addr \in Address
<1>1. caller[c] \in CallerState
  BY DEF TypeOK
<1>2. 0 \in Address
  BY ProvidersAssumption DEF Address
<1> QED
  BY <1>1, <1>2 DEF CallerState, Resting

(* A caller takes another step, which no other caller and no process sees. *)
LEMMA MovePreserves ==
  ASSUME PInv, NEW c \in Caller, NEW new \in CallerState,
         caller' = [caller EXCEPT ![c] = new],
         UNCHANGED <<map, addr, proc, phase, listening, runs>>,
         caller[c].pc \in {"idle", "waiting", "using"},
         \/ new.pc \in {"idle", "waiting", "using"} /\ holder' = holder
         \/ /\ new.pc = "starting" /\ holder = None /\ holder' = c
            /\ map[new.pkg] = None,
         new.pc = "idle" \/ c \in Task \/ phase = "deleting"
  PROVE  PInv'
<1>1. \A d \in Caller : caller'[d] = IF d = c THEN new ELSE caller[d]
  BY DEF PInv, TypeOK
<1>2. None \notin Caller
  BY ProvidersAssumption
<1>3. TypeOK'
  BY <1>1, <1>2 DEF PInv, TypeOK
<1>4. NoStrayProcess'
  BY <1>1, <1>2 DEF PInv, NoStrayProcess, Living
<1>5. LaunchHoldsMutex'
  BY <1>1, <1>2 DEF PInv, LaunchHoldsMutex
<1>6. EngineInLoop'
  BY <1>1, ProvidersAssumption DEF PInv, EngineInLoop, Caller
<1> QED
  BY <1>3, <1>4, <1>5, <1>6 DEF PInv

THEOREM InitPInv == Init => PInv
<1> SUFFICES ASSUME Init PROVE PInv
  OBVIOUS
<1>1. TypeOK
  BY ProvidersAssumption DEF Init, TypeOK, CallerState, Resting, Address, Phase
<1> QED
  BY <1>1, ProvidersAssumption
     DEF Init, PInv, NoStrayProcess, LaunchHoldsMutex, EngineInLoop, Resting, Caller, Living

LEMMA AskPreserves ==
  ASSUME PInv, NEW c \in Caller, NEW p \in Package, Ask(c, p)
  PROVE  PInv'
<1> DEFINE new == [Resting EXCEPT !.pc = "waiting", !.pkg = p, !.asked = runs]
<1>1. new \in CallerState /\ new.pc = "waiting"
  BY DEF PInv, TypeOK, CallerState, Resting
<1>2. c \in Task \/ phase = "deleting"
  BY DEF Ask, Caller
<1> HIDE DEF new
<1>3. caller' = [caller EXCEPT ![c] = new]
  BY DEF Ask, new
<1> QED
  BY <1>1, <1>2, <1>3, MovePreserves DEF Ask

(* Who is not at rest is a handler or the orchestrator in its loop.        *)
LEMMA AtWork ==
  ASSUME PInv, NEW c \in Caller, caller[c].pc # "idle"
  PROVE  c \in Task \/ phase = "deleting"
BY DEF PInv, EngineInLoop, Caller

LEMMA TakePreserves ==
  ASSUME PInv, NEW c \in Caller, TakeCached(c)
  PROVE  PInv'
<1> DEFINE p == caller[c].pkg
           new == [Resting EXCEPT !.pc = "using", !.pkg = p]
<1>1. p \in Package
  BY CallerShapes DEF TakeCached, PInv
<1>2. new \in CallerState /\ new.pc = "using"
  BY <1>1 DEF CallerState, Resting
<1> HIDE DEF new
<1>3. caller' = [caller EXCEPT ![c] = new]
  BY DEF TakeCached, Using, new
<1> QED
  BY <1>2, <1>3, AtWork, MovePreserves DEF TakeCached

LEMMA ReadPreserves ==
  ASSUME PInv, NEW c \in Caller, ReadAddress(c)
  PROVE  PInv'
<1> DEFINE old == caller[c]
           new == [old EXCEPT !.pc = "starting", !.addr = addr]
<1>1. old \in [pc : {"waiting"}, pkg : Package, child : {None}, asked : Address, addr : {0}]
  <2>1. old \in CallerState /\ old.pc = "waiting"
    BY DEF PInv, TypeOK, ReadAddress
  <2> QED
    BY <2>1 DEF CallerState, Resting
<1>2. new \in [pc : {"starting"}, pkg : Package, child : {None}, asked : Address, addr : Address]
      /\ new.pc = "starting" /\ new.pkg = old.pkg
  BY <1>1 DEF PInv, TypeOK
<1>3. caller' = [caller EXCEPT ![c] = new]
  BY DEF ReadAddress
<1>4. old.pc = "waiting" /\ map[old.pkg] = None /\ holder = None /\ holder' = c
      /\ UNCHANGED <<map, addr, proc, phase, listening, runs>>
  BY DEF ReadAddress, Cached
<1>5. c \in Task \/ phase = "deleting"
  BY <1>4, AtWork
<1> HIDE DEF old, new
<1>6. new \in CallerState
  BY <1>2 DEF CallerState
<1>7. caller[c].pc = "waiting"
  BY <1>4 DEF old
<1> QED
  BY <1>2, <1>3, <1>4, <1>5, <1>6, <1>7, MovePreserves

LEMMA LaunchPreserves ==
  ASSUME PInv, NEW c \in Caller, NEW q \in Proc, Launch(c, q)
  PROVE  PInv'
<1> DEFINE p == caller[c].pkg
           new == [Resting EXCEPT !.pc = "launching", !.child = q, !.pkg = p]
           child == [pkg |-> p, up |-> FALSE, addr |-> caller[c].addr,
                     late |-> Leftover(c)]
<1>1. /\ p \in Package /\ proc[q] = None /\ caller[c].pc = "starting"
      /\ holder = c /\ map[p] = None /\ caller[c].addr \in Address
  BY CallerShapes DEF Launch, Unused, PInv, LaunchHoldsMutex
<1>2. new \in CallerState /\ new.pc = "launching" /\ new.pkg = p /\ new.child = q
  BY <1>1 DEF CallerState, Resting
<1>3. child \in Process /\ child.pkg = p /\ ~child.up
  <2>1. Leftover(c) \in BOOLEAN
    BY DEF Leftover
  <2> QED
    BY <1>1, <2>1 DEF Process
<1>4. child # None
  BY <1>3, ProvidersAssumption
<1>5. /\ caller' = [caller EXCEPT ![c] = new] /\ proc' = [proc EXCEPT ![q] = child]
      /\ UNCHANGED <<map, holder, addr, phase, listening, runs>>
  BY DEF Launch
<1>6. c \in Task \/ phase = "deleting"
  BY <1>1, AtWork
<1> HIDE DEF new, child, p
<1>7. /\ \A d \in Caller : caller'[d] = IF d = c THEN new ELSE caller[d]
      /\ \A r \in Proc : proc'[r] = IF r = q THEN child ELSE proc[r]
  BY <1>5 DEF PInv, TypeOK
<1>8. TypeOK'
  BY <1>1, <1>2, <1>3, <1>5, <1>7 DEF PInv, TypeOK
<1>9. NoStrayProcess'
  BY <1>1, <1>2, <1>3, <1>5, <1>7 DEF PInv, NoStrayProcess, Living
<1>10. \A d \in Caller \ {c} : caller[d].pc \notin {"starting", "launching"}
  BY <1>1 DEF PInv, LaunchHoldsMutex
<1>11. LaunchHoldsMutex'
  BY <1>1, <1>2, <1>3, <1>5, <1>7, <1>10 DEF LaunchHoldsMutex
<1>12. EngineInLoop'
  BY <1>5, <1>6, <1>7, ProvidersAssumption DEF PInv, EngineInLoop, Caller
<1> QED
  BY <1>8, <1>9, <1>11, <1>12 DEF PInv

LEMMA LaunchedPreserves ==
  ASSUME PInv, NEW c \in Caller, Launched(c)
  PROVE  PInv'
<1> DEFINE p == caller[c].pkg
           q == caller[c].child
           new == [Resting EXCEPT !.pc = "using", !.pkg = p]
           child == [proc[q] EXCEPT !.up = TRUE]
<1>1. p \in Package /\ q \in Proc /\ caller[c].pc = "launching" /\ proc[q] # None
  BY CallerShapes DEF Launched, PInv
<1>2. holder = c /\ map[p] = None /\ proc[q].pkg = p /\ ~proc[q].up
  BY <1>1 DEF PInv, LaunchHoldsMutex
<1>3. new \in CallerState /\ new.pc = "using"
  BY <1>1 DEF CallerState, Resting
<1>4. child \in Process /\ child.pkg = p /\ child.up
  <2>1. proc[q] \in Process
    BY <1>1 DEF PInv, TypeOK
  <2> QED
    BY <1>2, <2>1 DEF Process
<1>5. /\ caller' = [caller EXCEPT ![c] = new] /\ proc' = [proc EXCEPT ![q] = child]
      /\ map' = [map EXCEPT ![p] = q] /\ holder' = None
      /\ UNCHANGED <<addr, phase, listening, runs>>
  BY DEF Launched, Using
<1>6. c \in Task \/ phase = "deleting"
  BY <1>1, AtWork
<1>7. child # None /\ q # None
  BY <1>1, <1>4, ProvidersAssumption
<1> HIDE DEF new, child, p, q
<1>8. /\ \A d \in Caller : caller'[d] = IF d = c THEN new ELSE caller[d]
      /\ \A r \in Proc : proc'[r] = IF r = q THEN child ELSE proc[r]
      /\ \A k \in Package : map'[k] = IF k = p THEN q ELSE map[k]
  BY <1>5 DEF PInv, TypeOK
<1>9. \A d \in Caller \ {c} : caller[d].pc \notin {"starting", "launching"}
  BY <1>2 DEF PInv, LaunchHoldsMutex
<1>10. TypeOK'
  BY <1>1, <1>3, <1>4, <1>5, <1>8, <1>9 DEF PInv, TypeOK
<1>11. \A r \in Proc : proc[r] # None => proc[r].pkg \in Package
  BY DEF PInv, TypeOK, Process
<1>12. NoStrayProcess'
  <2>1. caller[c].child = q
    BY DEF q
  <2>2. \A r \in Proc \ {q} : proc[r] # None => proc[r].up /\ proc[r].pkg # p
    BY <1>1, <1>2, <2>1, ProvidersAssumption DEF PInv, NoStrayProcess, Living
  <2> QED
    BY <1>1, <1>2, <1>4, <1>7, <1>8, <1>11, <2>2 DEF PInv, NoStrayProcess, Living
<1>13. LaunchHoldsMutex'
  BY <1>3, <1>8, <1>9 DEF LaunchHoldsMutex
<1>14. EngineInLoop'
  BY <1>5, <1>6, <1>8, ProvidersAssumption DEF PInv, EngineInLoop, Caller
<1> QED
  BY <1>10, <1>12, <1>13, <1>14 DEF PInv

(* A caller comes to rest; if it had the mutex it gives it back, and if it *)
(* was launching its child dies with it.                                   *)
LEMMA RestPreserves ==
  ASSUME PInv, NEW c \in Caller,
         caller' = [caller EXCEPT ![c] = Resting],
         UNCHANGED <<map, addr, phase, listening, runs>>,
         proc' = WithoutChild(c),
         IF caller[c].pc \in {"starting", "launching"} THEN holder' = None
                                                       ELSE holder' = holder
  PROVE  PInv'
<1>1. Resting \in CallerState /\ Resting.pc = "idle"
  BY DEF CallerState, Resting
<1>2. \A d \in Caller : caller'[d] = IF d = c THEN Resting ELSE caller[d]
  BY DEF PInv, TypeOK
<1>3. /\ caller[c].pc \in {"starting", "launching"} => holder = c
      /\ \A d \in Caller \ {c} : caller[d].pc \in {"starting", "launching"} => holder = d
  BY DEF PInv, LaunchHoldsMutex
<1>4. \A r \in Proc : proc'[r] = IF caller[c].pc = "launching" /\ r = caller[c].child
                                THEN None ELSE proc[r]
  BY DEF PInv, TypeOK, WithoutChild
<1>5. proc' \in [Proc -> Process \cup {None}] /\ holder' \in Caller \cup {None}
  BY CallerShapes DEF PInv, TypeOK, WithoutChild
<1>6. TypeOK'
  BY <1>1, <1>2, <1>3, <1>5 DEF PInv, TypeOK
<1>7. NoStrayProcess'
  BY <1>1, <1>2, <1>3, <1>4 DEF PInv, NoStrayProcess, Living
<1>8. LaunchHoldsMutex'
  <2>1. \A d \in Caller : caller[d].pc = "launching" => caller[d].child \in Proc
    BY CallerShapes DEF PInv
  <2> QED
    BY <1>1, <1>2, <1>3, <1>4, <2>1, ProvidersAssumption DEF PInv, LaunchHoldsMutex
<1>9. EngineInLoop'
  BY <1>1, <1>2 DEF PInv, EngineInLoop, Caller
<1> QED
  BY <1>6, <1>7, <1>8, <1>9 DEF PInv

(* A process dies.                                                         *)
LEMMA DeathPreserves ==
  ASSUME PInv, NEW q \in Proc, proc' = [proc EXCEPT ![q] = None],
         UNCHANGED <<map, holder, addr, caller, phase, listening, runs>>
  PROVE  PInv'
<1>1. TypeOK'
  BY DEF PInv, TypeOK
<1>2. \A r \in Proc : proc'[r] = IF r = q THEN None ELSE proc[r]
  BY DEF PInv, TypeOK
<1>3. NoStrayProcess'
  BY <1>2 DEF PInv, NoStrayProcess, Living
<1>4. LaunchHoldsMutex'
  BY <1>2, CallerShapes DEF PInv, LaunchHoldsMutex
<1> QED
  BY <1>1, <1>3, <1>4 DEF PInv, EngineInLoop

LEMMA OperationPreserves ==
  ASSUME PInv, Operation
  PROVE  PInv'
<1>1. UNCHANGED <<map, holder, proc, caller>>
  BY DEF Operation, BeginProgram, StartServers, SpawnProgram, StartFails, BeginLoop,
         EndProgram, EndLoop, Return
<1>2. phase' \in Phase /\ addr' \in Address /\ listening' \subseteq Address
      /\ runs' \in Address
  <2>1. phase \in Phase /\ addr \in Address /\ listening \subseteq Address /\ runs \in Address
    BY DEF PInv, TypeOK
  <2>2. CASE Begins /\ UNCHANGED <<addr, listening>> /\ phase' \in {"loading", "deleting", "idle"}
    <3>1. runs' \in Address
      BY <2>1, <2>2, ProvidersAssumption DEF Begins, Address
    <3> QED
      BY <2>1, <2>2, <3>1 DEF Phase
  <2>3. CASE StartServers
    BY <2>1, <2>3 DEF StartServers, Phase
  <2>4. CASE SpawnProgram \/ StartFails \/ EndProgram \/ EndLoop \/ Return
    BY <2>1, <2>4 DEF SpawnProgram, StartFails, EndProgram, EndLoop, Return, Phase
  <2> QED
    BY <2>2, <2>3, <2>4 DEF Operation, BeginProgram, BeginLoop
<1>3. TypeOK'
  BY <1>1, <1>2 DEF PInv, TypeOK
<1>4. NoStrayProcess' /\ LaunchHoldsMutex'
  BY <1>1 DEF PInv, NoStrayProcess, LaunchHoldsMutex, Living
<1>5. EngineInLoop'
  BY <1>1 DEF Operation, Begins, BeginProgram, StartServers, SpawnProgram, StartFails,
              BeginLoop, EndProgram, EndLoop, Return, PInv, EngineInLoop
<1> QED
  BY <1>3, <1>4, <1>5 DEF PInv

(* When shutdown_all has killed the providers of the map nothing runs.     *)
LEMMA AllDead ==
  ASSUME PInv, EndShutdown
  PROVE  \A q \in Proc : proc[q] = None
<1>1. holder = Engine /\ caller[Engine].pc = "idle" /\ AllKilled
  BY DEF EndShutdown, PInv, EngineInLoop
<1>2. ASSUME NEW q \in Proc, proc[q] # None PROVE FALSE
  <2>1. proc[q].pkg \in Package
    BY <1>2 DEF PInv, TypeOK, Process
  <2>2. CASE proc[q].up
    BY <1>1, <1>2, <2>1, <2>2, ProvidersAssumption
       DEF PInv, NoStrayProcess, Living, AllKilled
  <2>3. CASE ~proc[q].up
    BY <1>1, <1>2, <2>3 DEF PInv, NoStrayProcess, Living
  <2> QED
    BY <2>2, <2>3
<1> QED
  BY <1>2

LEMMA ShutdownPreserves ==
  ASSUME PInv, BeginShutdown \/ EndShutdown
  PROVE  PInv'
<1>0. \A c \in Caller : caller[c].pc \notin {"starting", "launching"}
  BY ProvidersAssumption
     DEF BeginShutdown, EndShutdown, PInv, LaunchHoldsMutex, EngineInLoop
<1>1. TypeOK'
  BY <1>0 DEF BeginShutdown, EndShutdown, PInv, TypeOK, Caller, Phase
<1>2. EngineInLoop'
  BY DEF BeginShutdown, EndShutdown, PInv, EngineInLoop
<1>3. LaunchHoldsMutex'
  BY <1>0 DEF BeginShutdown, EndShutdown, LaunchHoldsMutex
<1>4. CASE BeginShutdown
  <2>1. holder \notin Caller
    BY <1>4, ProvidersAssumption DEF BeginShutdown
  <2>2. NoStrayProcess'
    BY <1>4, <2>1 DEF BeginShutdown, PInv, NoStrayProcess, Living
  <2> QED
    BY <1>1, <1>2, <1>3, <2>2 DEF PInv
<1>5. CASE EndShutdown
  <2>1. NoStrayProcess'
    BY <1>5, AllDead DEF EndShutdown, NoStrayProcess, Living
  <2> QED
    BY <1>1, <1>2, <1>3, <2>1 DEF PInv
<1> QED
  BY <1>4, <1>5

THEOREM NextPInv == PInv /\ [Next]_vars => PInv'
<1> SUFFICES ASSUME PInv, [Next]_vars PROVE PInv'
  OBVIOUS
<1>1. CASE UNCHANGED vars
  BY <1>1 DEF vars, PInv, TypeOK, NoStrayProcess, LaunchHoldsMutex, EngineInLoop, Living
<1>2. ASSUME NEW c \in Caller, NEW p \in Package, Ask(c, p) PROVE PInv'
  BY <1>2, AskPreserves
<1>3. ASSUME NEW c \in Caller, CallerStep(c) PROVE PInv'
  <2>1. CASE LaunchFails(c)
    BY <2>1, RestPreserves DEF LaunchFails, GivesUp
  <2>2. CASE Finish(c)
    BY <2>2, RestPreserves DEF Finish, WithoutChild
  <2> QED
    BY <1>3, <2>1, <2>2, TakePreserves, ReadPreserves, LaunchPreserves, LaunchedPreserves
       DEF CallerStep
<1>4. ASSUME NEW t \in Task, DropTask(t) PROVE PInv'
  BY <1>4, RestPreserves DEF DropTask, Caller
<1>5. ASSUME NEW q \in Proc, PluginDies(q) PROVE PInv'
  BY <1>5, DeathPreserves DEF PluginDies
<1>6. ASSUME Shutdown PROVE PInv'
  <2>1. ASSUME NEW p \in Package, Kill(p) PROVE PInv'
    <3>1. map[p] \in Proc
      BY <2>1 DEF Kill, PInv, TypeOK
    <3> QED
      BY <2>1, <3>1, DeathPreserves DEF Kill
  <2> QED
    BY <1>6, <2>1, ShutdownPreserves DEF Shutdown
<1> QED
  BY <1>1, <1>2, <1>3, <1>4, <1>5, <1>6, OperationPreserves DEF Next

THEOREM SpecPInv == Spec => []PInv
<1> QED
  BY InitPInv, NextPInv, PTL DEF Spec

(* No process escapes shutdown_all, whatever fails and whoever is dropped. *)
THEOREM SpecNoStrayProcess == Spec => []NoStrayProcess
<1>1. PInv => NoStrayProcess
  BY DEF PInv
<1> QED
  BY <1>1, SpecPInv, PTL

(* A package never has two processes at once.                              *)
THEOREM SpecOneProcessPerPackage == Spec => []OneProcessPerPackage
<1>1. PInv => OneProcessPerPackage
  <2> SUFFICES ASSUME PInv, NEW q \in Proc, NEW r \in Proc,
                      proc[q] # None, proc[r] # None, proc[q].pkg = proc[r].pkg
               PROVE  q = r
    BY DEF OneProcessPerPackage, Living
  <2>1. ASSUME NEW j \in Proc, NEW k \in Proc, proc[j] # None, proc[k] # None,
               proc[j].pkg = proc[k].pkg, proc[j].up
        PROVE  j = k
    <3>1. map[proc[j].pkg] = j /\ j # None
      BY <2>1, ProvidersAssumption DEF PInv, NoStrayProcess, Living
    <3>2. CASE proc[k].up
      BY <2>1, <3>1, <3>2 DEF PInv, NoStrayProcess, Living
    <3>3. CASE ~proc[k].up
      <4>1. /\ holder \in Caller /\ caller[holder].pc = "launching"
            /\ caller[holder].child = k
        BY <2>1, <3>3 DEF PInv, NoStrayProcess, Living
      <4>2. /\ map[caller[holder].pkg] = None
            /\ proc[k].pkg = caller[holder].pkg
        BY <2>1, <4>1 DEF PInv, LaunchHoldsMutex
      <4> QED
        BY <2>1, <3>1, <4>2
    <3> QED
      BY <3>2, <3>3
  <2>2. CASE ~proc[q].up /\ ~proc[r].up
    BY <2>2 DEF PInv, NoStrayProcess, Living
  <2> QED
    BY <2>1, <2>2
<1> QED
  BY <1>1, SpecPInv, PTL

(* shutdown_all ends with every plugin dead, whoever launches meanwhile.   *)
THEOREM SpecShutdownLeavesNothing == Spec => ShutdownLeavesNothing
<1>1. PInv /\ [Next]_vars =>
        [phase' # phase /\ phase \in {"stopping", "closing"} =>
           \A q \in Proc : proc'[q] = None]_vars
  <2> SUFFICES ASSUME PInv, Next, phase' # phase, phase \in {"stopping", "closing"}
               PROVE  \A q \in Proc : proc'[q] = None
    OBVIOUS
  <2>1. EndShutdown
    BY DEF Next, Ask, CallerStep, TakeCached, ReadAddress, Launch, Launched, LaunchFails,
       Finish, DropTask, PluginDies, Operation, Begins, BeginProgram, StartServers,
       SpawnProgram, StartFails, BeginLoop, EndProgram, EndLoop, Return,
       Shutdown, BeginShutdown, Kill
  <2> QED
    BY <2>1, AllDead DEF EndShutdown
<1> QED
  BY <1>1, SpecPInv, PTL DEF Spec, ShutdownLeavesNothing

(* The map, the mutex, processes and callers keep their shape.             *)
THEOREM SpecTypeOK == Spec => []TypeOK
<1>1. PInv => TypeOK
  BY DEF PInv
<1> QED
  BY <1>1, SpecPInv, PTL

-----------------------------------------------------------------------------
(* The manager learns the address before the program of the run can ask,   *)
(* what a handler has read is not older than its run, and between programs *)
(* only left-over handlers launch.                                         *)
NotYet == {"idle", "loading", "starting", "returning"}

RInv ==
  /\ phase \in {"starting", "program"} => addr = runs /\ runs \in listening
  /\ \A c \in Caller : caller[c].asked <= runs
  /\ phase \in {"loading", "starting"} =>
       \A c \in Task : caller[c].pc \in {"waiting", "starting"} => caller[c].asked # runs
  /\ phase = "program" =>
       \A c \in Task : caller[c].pc = "starting" /\ caller[c].asked = runs
                         => caller[c].addr = runs
  /\ OnlyLatePluginsSurvive
  /\ OwnPluginsConnect

LEMMA InitRInv == Init => RInv
<1> SUFFICES ASSUME Init PROVE RInv
  OBVIOUS
<1>1. Living = {} /\ \A c \in Caller : caller[c] = Resting
  BY DEF Init, Living
<1>2. Resting.asked <= 0
  BY DEF Resting
<1> QED
  BY <1>1, <1>2 DEF Init, RInv, OnlyLatePluginsSurvive, OwnPluginsConnect

(* Steps that start no process and begin no operation.                     *)
LEMMA QuietKeepsRInv ==
  ASSUME PInv, RInv, UNCHANGED <<addr, phase, listening, runs>>,
         \A q \in Proc : proc'[q] # None =>
           proc[q] # None /\ proc'[q].late = proc[q].late /\ proc'[q].addr = proc[q].addr,
         \A c \in Caller :
           \/ caller'[c] = caller[c]
           \/ caller'[c].asked = 0 /\ caller'[c].pc \notin {"waiting", "starting"}
           \/ /\ caller'[c].asked = runs /\ caller'[c].pc = "waiting"
              /\ phase \in {"program", "deleting"}
           \/ /\ caller'[c].asked = caller[c].asked /\ caller[c].pc = "waiting"
              /\ caller'[c].pc = "starting" /\ caller'[c].addr = addr
  PROVE  RInv'
<1>0. runs \in Nat /\ 0 <= runs
  BY ProvidersAssumption DEF PInv, TypeOK, Address
<1>1. Task \subseteq Caller
  BY DEF Caller
<1>2. \A c \in Caller : caller'[c].asked <= runs
  BY <1>0 DEF RInv
<1>3. phase \in {"loading", "starting"} =>
        \A c \in Task : caller'[c].pc \in {"waiting", "starting"} => caller'[c].asked # runs
  BY <1>1 DEF RInv
<1>4. phase = "program" =>
        \A c \in Task : caller'[c].pc = "starting" /\ caller'[c].asked = runs
                          => caller'[c].addr = runs
  BY <1>1 DEF RInv
<1>5. OnlyLatePluginsSurvive' /\ OwnPluginsConnect'
  BY DEF RInv, OnlyLatePluginsSurvive, OwnPluginsConnect, Living
<1> QED
  BY <1>2, <1>3, <1>4, <1>5 DEF RInv

LEMMA LaunchKeepsRInv ==
  ASSUME PInv, RInv, NEW c \in Caller, NEW q \in Proc, Launch(c, q)
  PROVE  RInv'
<1> DEFINE new == [Resting EXCEPT !.pc = "launching", !.child = q, !.pkg = caller[c].pkg]
           child == [pkg |-> caller[c].pkg, up |-> FALSE, addr |-> caller[c].addr,
                     late |-> Leftover(c)]
<1>0. runs \in Nat /\ 0 <= runs
  BY ProvidersAssumption DEF PInv, TypeOK, Address
<1>1. new.asked = 0 /\ new.pc = "launching"
  BY DEF Resting
<1>2. child.late = Leftover(c) /\ child.addr = caller[c].addr
  OBVIOUS
<1>3. /\ caller' = [caller EXCEPT ![c] = new] /\ proc' = [proc EXCEPT ![q] = child]
      /\ UNCHANGED <<addr, phase, listening, runs>> /\ caller[c].pc = "starting"
  BY DEF Launch
<1> HIDE DEF new, child
<1>4. /\ \A d \in Caller : caller'[d] = IF d = c THEN new ELSE caller[d]
      /\ \A r \in Proc : proc'[r] = IF r = q THEN child ELSE proc[r]
  BY <1>3 DEF PInv, TypeOK
<1>5. c \in Task \/ phase = "deleting"
  BY <1>3, AtWork
<1>6. phase \in NotYet => Leftover(c)
  BY <1>5 DEF Leftover, NotYet
<1>7. phase = "program" /\ ~Leftover(c) => caller[c].addr = runs /\ runs \in listening
  BY <1>3, <1>5 DEF Leftover, RInv
<1>8. OnlyLatePluginsSurvive'
  BY <1>2, <1>3, <1>4, <1>6 DEF RInv, OnlyLatePluginsSurvive, Living, NotYet
<1>9. OwnPluginsConnect'
  BY <1>2, <1>3, <1>4, <1>7 DEF RInv, OwnPluginsConnect, Living
<1>10. Task \subseteq Caller
  BY DEF Caller
<1> QED
  BY <1>0, <1>1, <1>3, <1>4, <1>8, <1>9, <1>10 DEF RInv

LEMMA OperationKeepsRInv ==
  ASSUME PInv, RInv, Operation
  PROVE  RInv'
<1>0. /\ runs \in Nat /\ Task \subseteq Caller
      /\ \A c \in Caller : caller[c].asked \in Nat
  BY CallerShapes, ProvidersAssumption DEF PInv, TypeOK, Address, Caller
<1>1. UNCHANGED <<proc, caller>>
  BY DEF Operation, BeginProgram, StartServers, SpawnProgram, StartFails, BeginLoop,
         EndProgram, EndLoop, Return
<1>2. CASE Begins /\ UNCHANGED <<addr, listening>> /\ phase' \in {"loading", "deleting", "idle"}
  <2>1. \A c \in Caller : caller[c].asked <= runs' /\ caller[c].asked # runs'
    BY <1>0, <1>2 DEF Begins, RInv
  <2>2. OnlyLatePluginsSurvive' /\ OwnPluginsConnect'
    BY <1>1, <1>2 DEF Begins, RInv, OnlyLatePluginsSurvive, OwnPluginsConnect, Living
  <2> QED
    BY <1>0, <1>1, <1>2, <2>1, <2>2 DEF RInv
<1>3. CASE StartServers
  <2>1. OnlyLatePluginsSurvive' /\ OwnPluginsConnect'
    BY <1>1, <1>3 DEF StartServers, RInv, OnlyLatePluginsSurvive, OwnPluginsConnect, Living
  <2> QED
    BY <1>1, <1>3, <2>1 DEF StartServers, RInv
<1>4. CASE SpawnProgram
  <2>1. OnlyLatePluginsSurvive' /\ OwnPluginsConnect'
    BY <1>1, <1>4 DEF SpawnProgram, RInv, OnlyLatePluginsSurvive, OwnPluginsConnect, Living
  <2> QED
    BY <1>1, <1>4, <2>1 DEF SpawnProgram, RInv
<1>5. CASE StartFails \/ EndProgram \/ EndLoop \/ Return
  <2>1. /\ runs' = runs /\ phase' \in {"idle", "stopping", "closing"}
        /\ phase' = "idle" => phase \in NotYet
    BY <1>5 DEF StartFails, EndProgram, EndLoop, Return, NotYet
  <2>2. OnlyLatePluginsSurvive' /\ OwnPluginsConnect'
    BY <1>1, <2>1 DEF RInv, OnlyLatePluginsSurvive, OwnPluginsConnect, Living, NotYet
  <2> QED
    BY <1>1, <2>1, <2>2 DEF RInv
<1> QED
  BY <1>2, <1>3, <1>4, <1>5 DEF Operation, BeginProgram, BeginLoop, Begins

LEMMA NextRInv == PInv /\ RInv /\ [Next]_vars => RInv'
<1> SUFFICES ASSUME PInv, RInv, [Next]_vars PROVE RInv'
  OBVIOUS
<1>0. /\ caller \in [Caller -> CallerState] /\ proc \in [Proc -> Process \cup {None}]
      /\ map \in [Package -> Proc \cup {None}]
  BY DEF PInv, TypeOK
<1>1. CASE UNCHANGED vars
  BY <1>1, QuietKeepsRInv DEF vars
<1>2. ASSUME NEW c \in Caller, NEW p \in Package, Ask(c, p) PROVE RInv'
  <2>1. \A d \in Caller : IF d = c THEN caller'[d].asked = runs /\ caller'[d].pc = "waiting"
                          ELSE caller'[d] = caller[d]
    BY <1>0, <1>2 DEF Ask, Resting
  <2> QED
    BY <1>2, <2>1, QuietKeepsRInv DEF Ask
<1>3. ASSUME NEW c \in Caller, CallerStep(c) \/ (c \in Task /\ DropTask(c)) PROVE RInv'
  <2>1. CASE TakeCached(c) \/ Finish(c)
    <3>1. \A d \in Caller : IF d = c THEN caller'[d].asked = 0
                                          /\ caller'[d].pc \notin {"waiting", "starting"}
                            ELSE caller'[d] = caller[d]
      <4>1. CASE TakeCached(c)
        BY <1>0, <4>1 DEF TakeCached, Using, Resting
      <4>2. CASE Finish(c)
        BY <1>0, <4>2 DEF Finish, Resting
      <4> QED
        BY <2>1, <4>1, <4>2
    <3> QED
      BY <2>1, <3>1, QuietKeepsRInv DEF TakeCached, Finish
  <2>2. CASE ReadAddress(c)
    <3> DEFINE old == caller[c]
    <3>1. old \in [pc : {"waiting"}, pkg : Package, child : {None}, asked : Address,
                   addr : {0}]
      <4>1. old \in CallerState /\ old.pc = "waiting"
        BY <1>0, <2>2 DEF ReadAddress
      <4> QED
        BY <4>1 DEF CallerState, Resting
    <3>2. caller' = [caller EXCEPT ![c] = [old EXCEPT !.pc = "starting", !.addr = addr]]
      BY <2>2 DEF ReadAddress
    <3>3. caller'[c] = [old EXCEPT !.pc = "starting", !.addr = addr]
          /\ \A d \in Caller \ {c} : caller'[d] = caller[d]
      BY <1>0, <3>2
    <3>4. /\ caller'[c].asked = old.asked /\ old.pc = "waiting"
          /\ caller'[c].pc = "starting" /\ caller'[c].addr = addr
      BY <3>1, <3>3
    <3> QED
      BY <2>2, <3>3, <3>4, QuietKeepsRInv DEF ReadAddress
  <2>3. CASE \E q \in Proc : Launch(c, q)
    BY <2>3, LaunchKeepsRInv
  <2>4. CASE Launched(c)
    <3> DEFINE q == caller[c].child
    <3>1. q \in Proc /\ proc[q] \in Process
      BY <1>0, <2>4, CallerShapes DEF Launched, PInv
    <3>2. proc' = [proc EXCEPT ![q] = [proc[q] EXCEPT !.up = TRUE]]
      BY <2>4 DEF Launched
    <3>3. \A r \in Proc : proc'[r] # None =>
            proc[r] # None /\ proc'[r].late = proc[r].late /\ proc'[r].addr = proc[r].addr
      <4>1. [proc[q] EXCEPT !.up = TRUE].late = proc[q].late
            /\ [proc[q] EXCEPT !.up = TRUE].addr = proc[q].addr
        BY <3>1 DEF Process
      <4>2. proc[q] # None
        BY <3>1, ProvidersAssumption
      <4> QED
        BY <1>0, <3>1, <3>2, <4>1, <4>2
    <3>4. \A d \in Caller : IF d = c THEN caller'[d].asked = 0
                                          /\ caller'[d].pc \notin {"waiting", "starting"}
                            ELSE caller'[d] = caller[d]
      BY <1>0, <2>4 DEF Launched, Using, Resting
    <3> QED
      BY <2>4, <3>3, <3>4, QuietKeepsRInv DEF Launched
  <2>5. CASE LaunchFails(c) \/ DropTask(c)
    <3>1. \A d \in Caller : IF d = c THEN caller'[d].asked = 0
                                          /\ caller'[d].pc \notin {"waiting", "starting"}
                            ELSE caller'[d] = caller[d]
      BY <1>0, <2>5 DEF LaunchFails, DropTask, Resting
    <3>2. \A r \in Proc : proc'[r] \in {None, proc[r]}
      BY <1>0, <2>5 DEF LaunchFails, DropTask, WithoutChild
    <3> QED
      BY <2>5, <3>1, <3>2, QuietKeepsRInv DEF LaunchFails, DropTask
  <2> QED
    BY <1>3, <2>1, <2>2, <2>3, <2>4, <2>5 DEF CallerStep
<1>4. ASSUME NEW q \in Proc, PluginDies(q) PROVE RInv'
  <2>1. \A r \in Proc : proc'[r] \in {None, proc[r]}
    BY <1>0, <1>4 DEF PluginDies
  <2> QED
    BY <1>4, <2>1, QuietKeepsRInv DEF PluginDies
<1>5. ASSUME Shutdown PROVE RInv'
  <2>1. CASE BeginShutdown
    BY <2>1, QuietKeepsRInv DEF BeginShutdown
  <2>2. ASSUME NEW p \in Package, Kill(p) PROVE RInv'
    <3>1. \A r \in Proc : proc'[r] \in {None, proc[r]}
      BY <1>0, <2>2 DEF Kill
    <3> QED
      BY <2>2, <3>1, QuietKeepsRInv DEF Kill
  <2>3. CASE EndShutdown
    <3>1. \A q \in Proc : proc'[q] = None
      BY <2>3, AllDead DEF EndShutdown
    <3>2. phase' \in {"deleting", "returning"}
          /\ UNCHANGED <<addr, proc, caller, listening, runs>>
      BY <2>3 DEF EndShutdown
    <3>3. OnlyLatePluginsSurvive' /\ OwnPluginsConnect'
      BY <3>1, <3>2 DEF OnlyLatePluginsSurvive, OwnPluginsConnect, Living
    <3> QED
      BY <3>2, <3>3 DEF RInv
  <2> QED
    BY <1>5, <2>1, <2>2, <2>3 DEF Shutdown
<1> QED
  BY <1>1, <1>2, <1>3, <1>4, <1>5, OperationKeepsRInv DEF Next, Caller

THEOREM SpecRInv == Spec => []RInv
<1> QED
  BY InitRInv, NextRInv, SpecPInv, PTL DEF Spec

(* Whichever way an operation returns, what outlives it was launched by a  *)
(* handler left over from an ended program, after the last shutdown.       *)
THEOREM SpecOnlyLatePluginsSurvive == Spec => []OnlyLatePluginsSurvive
<1>1. RInv => OnlyLatePluginsSurvive
  BY DEF RInv
<1> QED
  BY <1>1, SpecRInv, PTL

(* What the running program's own handlers launch gets the address of its  *)
(* run, although reading it and spawning the plugin are two steps.         *)
THEOREM SpecOwnPluginsConnect == Spec => []OwnPluginsConnect
<1>1. RInv => OwnPluginsConnect
  BY DEF RInv
<1> QED
  BY <1>1, SpecRInv, PTL

-----------------------------------------------------------------------------
(* Who may hold the mutex, and how it is given back.                       *)
ShuttingDown == holder = Engine /\ phase \in {"stopping", "closing"}

Launching == \E c \in Caller : holder = c /\ caller[c].pc \in {"starting", "launching"}

(* The mutex is held only by a caller that launches a process, which ends  *)
(* in Launched or LaunchFails, or by shutdown_all, which ends in           *)
(* EndShutdown: no error path and no dropped handler leaves it locked.     *)
MutexIsReturned == holder # None => Launching \/ ShuttingDown

LEMMA CallersKeepMutex ==
  ASSUME PInv, MutexIsReturned, NEW c \in Caller,
         CallerStep(c) \/ (c \in Task /\ DropTask(c))
  PROVE  MutexIsReturned'
<1>1. caller \in [Caller -> CallerState]
  BY DEF PInv, TypeOK
<1>2. CASE ReadAddress(c)
  <2>1. caller' = [caller EXCEPT ![c] = [caller[c] EXCEPT !.pc = "starting", !.addr = addr]]
    BY <1>2 DEF ReadAddress
  <2>2. caller[c] \in [pc : {"waiting"}, pkg : Package, child : {None}, asked : Address,
                       addr : {0}]
    <3>1. caller[c] \in CallerState /\ caller[c].pc = "waiting"
      BY <1>1, <1>2 DEF ReadAddress
    <3> QED
      BY <3>1 DEF CallerState, Resting
  <2>3. caller'[c].pc = "starting"
    BY <1>1, <2>1, <2>2
  <2> QED
    BY <1>2, <2>3 DEF ReadAddress, MutexIsReturned, Launching
<1>3. CASE \E q \in Proc : Launch(c, q)
  <2>1. holder = c /\ holder' = holder
    BY <1>3 DEF Launch, PInv, LaunchHoldsMutex
  <2>2. caller'[c].pc = "launching"
    BY <1>1, <1>3 DEF Launch, Resting
  <2> QED BY <2>1, <2>2 DEF MutexIsReturned, Launching
<1>4. CASE holder' = None
  BY <1>4 DEF MutexIsReturned
<1>5. CASE TakeCached(c) \/ Finish(c)
           \/ (DropTask(c) /\ caller[c].pc \notin {"starting", "launching"})
  <2>1. /\ UNCHANGED <<holder, phase>> /\ caller[c].pc \notin {"starting", "launching"}
        /\ \A d \in Caller : d # c => caller'[d] = caller[d]
    BY <1>1, <1>5 DEF TakeCached, Using, Finish, DropTask
  <2> QED BY <2>1 DEF MutexIsReturned, Launching, ShuttingDown
<1> QED
  BY <1>2, <1>3, <1>4, <1>5 DEF CallerStep, Launched, LaunchFails, DropTask

LEMMA MutexStaysReturned == PInv /\ MutexIsReturned /\ [Next]_vars => MutexIsReturned'
<1> SUFFICES ASSUME PInv, MutexIsReturned, [Next]_vars PROVE MutexIsReturned'
  OBVIOUS
<1>1. CASE UNCHANGED <<holder, phase, caller>>
  BY <1>1 DEF MutexIsReturned, Launching, ShuttingDown
<1>2. CASE \E c \in Caller : CallerStep(c) \/ (c \in Task /\ DropTask(c))
  BY <1>2, CallersKeepMutex
<1>3. ASSUME NEW c \in Caller, NEW p \in Package, Ask(c, p) PROVE MutexIsReturned'
  <2>1. /\ UNCHANGED <<holder, phase>> /\ caller[c].pc \notin {"starting", "launching"}
        /\ \A d \in Caller : d # c => caller'[d] = caller[d]
    BY <1>3 DEF Ask, PInv, TypeOK
  <2> QED BY <2>1 DEF MutexIsReturned, Launching, ShuttingDown
<1>4. CASE Operation
  <2>1. UNCHANGED <<holder, caller>> /\ ~ShuttingDown
    BY <1>4 DEF Operation, Begins, BeginProgram, StartServers, SpawnProgram, StartFails,
                BeginLoop, EndProgram, EndLoop, Return, ShuttingDown
  <2> QED BY <2>1 DEF MutexIsReturned, Launching
<1>5. CASE Shutdown
  BY <1>5 DEF Shutdown, BeginShutdown, EndShutdown, Kill, MutexIsReturned, Launching,
              ShuttingDown
<1> QED
  BY <1>1, <1>2, <1>3, <1>4, <1>5 DEF Next, vars, PluginDies, Caller

(* Whatever fails and whoever is dropped, a caller that waits for the      *)
(* mutex waits for a launch or a shutdown that is going on: with the       *)
(* fairness of tokio's mutex, CallersAreServed.                            *)
THEOREM SpecMutexIsReturned == Spec => []MutexIsReturned
<1>1. Init => MutexIsReturned
  BY DEF Init, MutexIsReturned
<1> QED
  BY <1>1, SpecPInv, MutexStaysReturned, PTL DEF Spec

(* While shutdown_all kills, the map stays and no process starts: there    *)
(* are as many kills as there were processes, and then it is done.         *)
ShutdownDrains ==
  [][ShuttingDown /\ ShuttingDown' =>
       /\ map' = map /\ Living' \subseteq Living
       /\ (\E p \in Package : Kill(p)) => Living' # Living]_vars

(* A launch and a shutdown exclude each other, in every interleaving.      *)
THEOREM SpecShutdownDrains == Spec => ShutdownDrains
<1>1. ASSUME PInv, Next, ShuttingDown, ShuttingDown'
      PROVE  /\ map' = map /\ Living' \subseteq Living
             /\ (\E p \in Package : Kill(p)) => Living' # Living
  <2>1. /\ map \in [Package -> Proc \cup {None}]
        /\ proc \in [Proc -> Process \cup {None}]
        /\ holder = Engine /\ Engine # None /\ holder' = Engine
    BY <1>1, ProvidersAssumption DEF PInv, TypeOK, ShuttingDown, Caller
  <2>2. \A c \in Caller : caller[c].pc \notin {"starting", "launching"}
    BY <1>1 DEF PInv, LaunchHoldsMutex, EngineInLoop, ShuttingDown
  <2>3. map' = map /\ \A q \in Proc : proc'[q] \in {proc[q], None}
    <3>1. ASSUME NEW c \in Caller, CallerStep(c) PROVE UNCHANGED <<map, proc>>
      BY <2>1, <2>2, <3>1
         DEF CallerStep, TakeCached, ReadAddress, Launch, Launched, LaunchFails, GivesUp, Finish
    <3>2. ASSUME NEW t \in Task, DropTask(t) PROVE UNCHANGED <<map, proc>>
      BY <2>2, <3>2 DEF DropTask, WithoutChild, Caller
    <3>3. ASSUME NEW q \in Proc, PluginDies(q)
          PROVE  map' = map /\ \A r \in Proc : proc'[r] \in {proc[r], None}
      BY <2>1, <3>3 DEF PluginDies
    <3>4. ASSUME NEW p \in Package, Kill(p)
          PROVE  map' = map /\ \A r \in Proc : proc'[r] \in {proc[r], None}
      BY <2>1, <3>4 DEF Kill
    <3>5. ~EndShutdown
      BY <2>1 DEF EndShutdown
    <3>6. CASE Operation
      BY <3>6 DEF Operation, BeginProgram, StartServers, SpawnProgram, StartFails,
                  BeginLoop, EndProgram, EndLoop, Return
    <3> QED
      BY <1>1, <3>1, <3>2, <3>3, <3>4, <3>5, <3>6 DEF Next, Ask, Shutdown, BeginShutdown
  <2>4. Living' \subseteq Living
    BY <2>3 DEF Living
  <2>5. ASSUME NEW p \in Package, Kill(p) PROVE Living' # Living
    <3>1. map[p] \in Proc /\ proc[map[p]] # None /\ proc'[map[p]] = None
      BY <2>1, <2>5 DEF Kill
    <3> QED BY <3>1 DEF Living
  <2> QED BY <2>3, <2>4, <2>5
<1>2. PInv /\ [Next]_vars =>
        [ShuttingDown /\ ShuttingDown' =>
           /\ map' = map /\ Living' \subseteq Living
           /\ (\E p \in Package : Kill(p)) => Living' # Living]_vars
  BY <1>1
<1> QED
  BY <1>2, SpecPInv, PTL DEF Spec, ShutdownDrains
=============================================================================
