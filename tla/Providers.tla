----------------------------- MODULE Providers -----------------------------
(***************************************************************************)
(* Provider plugins: ProviderManager and GrpcProvider (provider.rs) as the *)
(* orchestrator and the monitor's handlers use them. The manager's map is  *)
(* behind one async mutex that get_provider holds across the launch of a   *)
(* process and shutdown_all across the killing of every process.           *)
(***************************************************************************)
EXTENDS Naturals

CONSTANTS
  Package,  \* provider packages
  Proc,     \* handles of child processes, reused when nothing refers to them
  Task,     \* handlers of the monitor: register, read, invoke, call
  Engine,   \* the orchestrator itself, in its loops over resources
  None,
  Fault,    \* subset of {"launchFails", "pluginDies", "programFails",
            \*            "startFails"}
  MaxRuns   \* bound on the operations started

Caller == Task \cup {Engine}
Address == 0..MaxRuns  \* the run whose Engine server it is the port of, 0 = ""

Process == [pkg : Package, up : BOOLEAN, addr : Address,
            late : BOOLEAN]  \* observation: who launched it, and when

ASSUME ProvidersAssumption ==
  /\ Engine \notin Task
  /\ None \notin Package \cup Proc \cup Caller \cup Process
  /\ MaxRuns \in Nat

VARIABLES
  map,       \* ProviderManager.inner: [Package -> Proc \cup {None}]
  holder,    \* the caller that holds inner's mutex
  addr,      \* ProviderManager.engine_addr
  proc,      \* [Proc -> the package it serves, whether it is configured and
             \*          the address it was given; None for a dead one]
  caller,    \* [Caller -> what it does with which package]
  phase,     \* where the orchestrator stands
  listening, \* the runs whose Engine server listens
  runs       \* operations started (bound)

vars == <<map, holder, addr, proc, caller, phase, listening, runs>>

Resting == [pc |-> "idle", pkg |-> None, child |-> None, asked |-> 0, addr |-> 0]

(* asked is the run in which the caller was started (observation), addr    *)
(* the address it has read, child the process it is launching.             *)
CallerState ==
  {Resting}
  \cup [pc : {"waiting"}, pkg : Package, child : {None}, asked : Address, addr : {0}]
  \cup [pc : {"starting"}, pkg : Package, child : {None}, asked : Address, addr : Address]
  \cup [pc : {"launching"}, pkg : Package, child : Proc, asked : {0}, addr : {0}]
  \cup [pc : {"using"}, pkg : Package, child : {None}, asked : {0}, addr : {0}]

Phase == {"idle", "loading", "starting", "program", "stopping", "deleting",
          "closing", "returning"}

Init ==
  /\ map = [p \in Package |-> None]
  /\ holder = None
  /\ addr = 0
  /\ proc = [q \in Proc |-> None]
  /\ caller = [c \in Caller |-> Resting]
  /\ phase = "idle"
  /\ listening = {}
  /\ runs = 0

-----------------------------------------------------------------------------
(* get_provider and what its caller does with the client *)

(* A handler starts while the program runs; the orchestrator calls from    *)
(* the loops of run_program, destroy and refresh.                          *)
Ask(c, p) ==
  /\ caller[c].pc = "idle"
  /\ IF c = Engine THEN phase = "deleting" ELSE phase = "program"
  /\ caller' = [caller EXCEPT ![c] = [Resting EXCEPT !.pc = "waiting", !.pkg = p,
                                                     !.asked = runs]]
  /\ UNCHANGED <<map, holder, addr, proc, phase, listening, runs>>

Variant_NeverCached(c) == FALSE

(* The mutex is free and the package has a provider: a clone of it.        *)
Cached(c) == map[caller[c].pkg] # None

Using(c) == [caller EXCEPT ![c] = [Resting EXCEPT !.pc = "using", !.pkg = caller[c].pkg]]

TakeCached(c) ==
  /\ caller[c].pc = "waiting"
  /\ holder = None
  /\ Cached(c)
  /\ caller' = Using(c)
  /\ UNCHANGED <<map, holder, addr, proc, phase, listening, runs>>

(* Mutant: the guard is dropped before the launch.                         *)
Variant_GuardDropped(c) ==
  /\ caller[c].pc = "waiting"
  /\ holder = None
  /\ ~Cached(c)
  /\ caller' = [caller EXCEPT ![c].pc = "starting", ![c].addr = addr]
  /\ UNCHANGED <<map, holder, addr, proc, phase, listening, runs>>

(* The mutex is free and the package has none: keep the mutex and clone    *)
(* the engine's address, which has a mutex of its own.                     *)
ReadAddress(c) ==
  /\ caller[c].pc = "waiting"
  /\ holder = None
  /\ ~Cached(c)
  /\ holder' = c
  /\ caller' = [caller EXCEPT ![c].pc = "starting", ![c].addr = addr]
  /\ UNCHANGED <<map, addr, proc, phase, listening, runs>>

(* A handle nobody refers to stands for a process not started yet.         *)
Unused(q) == /\ proc[q] = None
             /\ \A p \in Package : map[p] # q
             /\ \A c \in Caller : caller[c].child # q

(* A handler of a run whose program has ended.                             *)
Leftover(c) == c \in Task /\ ~(phase = "program" /\ caller[c].asked = runs)

(* The plugin is spawned with the address read before, whatever the        *)
(* address has become since.                                               *)
Launch(c, q) ==
  /\ caller[c].pc = "starting"
  /\ Unused(q)
  /\ proc' = [proc EXCEPT ![q] = [pkg |-> caller[c].pkg, up |-> FALSE,
                                  addr |-> caller[c].addr, late |-> Leftover(c)]]
  /\ caller' = [caller EXCEPT ![c] = [Resting EXCEPT !.pc = "launching", !.child = q,
                                                     !.pkg = caller[c].pkg]]
  /\ UNCHANGED <<map, holder, addr, phase, listening, runs>>

(* The port is read and configure answered: the provider goes into the map.*)
Launched(c) ==
  LET q == caller[c].child IN
  /\ caller[c].pc = "launching"
  /\ proc[q] # None
  /\ proc' = [proc EXCEPT ![q].up = TRUE]
  /\ map' = [map EXCEPT ![caller[c].pkg] = q]
  /\ holder' = None
  /\ caller' = Using(c)
  /\ UNCHANGED <<addr, phase, listening, runs>>

(* The child that c is launching, if any, is dropped, and so killed.       *)
WithoutChild(c) ==
  IF caller[c].pc = "launching" THEN [proc EXCEPT ![caller[c].child] = None] ELSE proc

GivesUp(c) ==
  \/ "launchFails" \in Fault /\ caller[c].pc \in {"starting", "launching"}
  \/ caller[c].pc = "launching" /\ proc[caller[c].child] = None

Variant_StrayChild(c) ==
  /\ GivesUp(c)
  /\ holder' = None
  /\ caller' = [caller EXCEPT ![c] = Resting]
  /\ UNCHANGED <<map, addr, proc, phase, listening, runs>>

Variant_MutexKept(c) ==
  /\ GivesUp(c)
  /\ proc' = WithoutChild(c)
  /\ caller' = [caller EXCEPT ![c] = Resting]
  /\ UNCHANGED <<map, holder, addr, phase, listening, runs>>

(* The plugin cannot be spawned, prints no port within 30 seconds or an    *)
(* invalid one, takes no connection, or configure failed: the child is     *)
(* dropped, and so is the guard.                                           *)
LaunchFails(c) ==
  /\ GivesUp(c)
  /\ proc' = WithoutChild(c)
  /\ holder' = None
  /\ caller' = [caller EXCEPT ![c] = Resting]
  /\ UNCHANGED <<map, addr, phase, listening, runs>>

(* The provider's answer, or an error of the call.                         *)
Finish(c) ==
  /\ caller[c].pc = "using"
  /\ caller' = [caller EXCEPT ![c] = Resting]
  /\ UNCHANGED <<map, holder, addr, proc, phase, listening, runs>>

(* The program cancels the call or closes the connection and the server    *)
(* drops the handler at its await: in the middle of a launch this drops    *)
(* the child and the guard.                                                *)
DropTask(t) ==
  /\ caller[t].pc # "idle"
  /\ proc' = WithoutChild(t)
  /\ holder' = IF caller[t].pc \in {"starting", "launching"} THEN None ELSE holder
  /\ caller' = [caller EXCEPT ![t] = Resting]
  /\ UNCHANGED <<map, addr, phase, listening, runs>>

PluginDies(q) ==
  /\ "pluginDies" \in Fault
  /\ proc[q] # None
  /\ proc' = [proc EXCEPT ![q] = None]
  /\ UNCHANGED <<map, holder, addr, caller, phase, listening, runs>>

-----------------------------------------------------------------------------
(* The orchestrator *)

Begins == phase = "idle" /\ runs < MaxRuns /\ runs' = runs + 1

(* run_program loads the checkpoint.                                       *)
BeginProgram ==
  /\ Begins
  /\ phase' = "loading"
  /\ UNCHANGED <<map, holder, addr, proc, caller, listening>>

(* Mutant: the address is stored by the first run only.                    *)
Variant_AddressOnce ==
  /\ phase = "loading"
  /\ phase' = "starting"
  /\ listening' = listening \cup {runs}
  /\ addr' = IF addr = 0 THEN runs ELSE addr
  /\ UNCHANGED <<map, holder, proc, caller, runs>>

(* Both ports are bound, the manager learns the Engine's and the servers   *)
(* are spawned.                                                            *)
StartServers ==
  /\ phase = "loading"
  /\ phase' = "starting"
  /\ listening' = listening \cup {runs}
  /\ addr' = runs
  /\ UNCHANGED <<map, holder, proc, caller, runs>>

SpawnProgram ==
  /\ phase = "starting"
  /\ phase' = "program"
  /\ UNCHANGED <<map, holder, addr, proc, caller, listening, runs>>

(* run_program returns early: the checkpoint cannot be loaded or a port    *)
(* not be bound, or there is no command or it cannot be spawned. Then no   *)
(* server is aborted and no provider shut down.                            *)
StartFails ==
  /\ "startFails" \in Fault
  /\ phase \in {"loading", "starting"}
  /\ phase' = "idle"
  /\ UNCHANGED <<map, holder, addr, proc, caller, listening, runs>>

(* destroy or refresh starts no server, and returns at once, without a     *)
(* shutdown, if there is no readable checkpoint or it has no resources.    *)
BeginLoop ==
  /\ Begins
  /\ phase' \in {"deleting", "idle"}
  /\ UNCHANGED <<map, holder, addr, proc, caller, listening>>

(* The program has exited: the servers of the run are aborted.             *)
EndProgram ==
  /\ phase = "program"
  /\ phase' = "stopping"
  /\ listening' = listening \ {runs}
  /\ UNCHANGED <<map, holder, addr, proc, caller, runs>>

(* Mutant: the deletes are spawned and not awaited.                        *)
Variant_DeletesSpawned ==
  /\ phase = "deleting"
  /\ phase' = "closing"
  /\ UNCHANGED <<map, holder, addr, proc, caller, listening, runs>>

EndLoop ==
  /\ phase = "deleting"
  /\ caller[Engine].pc = "idle"
  /\ phase' = "closing"
  /\ UNCHANGED <<map, holder, addr, proc, caller, listening, runs>>

(* shutdown_all takes the mutex and kills the providers of the map.        *)
BeginShutdown ==
  /\ phase \in {"stopping", "closing"}
  /\ holder = None
  /\ holder' = Engine
  /\ UNCHANGED <<map, addr, proc, caller, phase, listening, runs>>

Kill(p) ==
  /\ phase \in {"stopping", "closing"}
  /\ holder = Engine
  /\ map[p] # None
  /\ proc[map[p]] # None
  /\ proc' = [proc EXCEPT ![map[p]] = None]
  /\ UNCHANGED <<map, holder, addr, caller, phase, listening, runs>>

Variant_ForgetWithoutKilling == TRUE

AllKilled == \A p \in Package : map[p] # None => proc[map[p]] = None

(* providers.clear(). After the first shutdown run_program returns         *)
(* ProgramFailed or goes on to the delete loop.                            *)
EndShutdown ==
  /\ phase \in {"stopping", "closing"}
  /\ holder = Engine
  /\ AllKilled
  /\ map' = [p \in Package |-> None]
  /\ holder' = None
  /\ phase' \in IF phase = "closing" THEN {"returning"}
                ELSE {"deleting"} \cup (IF "programFails" \in Fault THEN {"returning"} ELSE {})
  /\ UNCHANGED <<addr, proc, caller, listening, runs>>

(* The checkpoint is saved, or not, and the operation returns.             *)
Return ==
  /\ phase = "returning"
  /\ phase' = "idle"
  /\ UNCHANGED <<map, holder, addr, proc, caller, listening, runs>>

-----------------------------------------------------------------------------
CallerStep(c) ==
  \/ TakeCached(c)
  \/ ReadAddress(c)
  \/ \E q \in Proc : Launch(c, q)
  \/ Launched(c)
  \/ LaunchFails(c)
  \/ Finish(c)

Operation ==
  \/ BeginProgram \/ StartServers \/ SpawnProgram \/ StartFails
  \/ BeginLoop \/ EndProgram \/ EndLoop \/ Return

Shutdown ==
  \/ BeginShutdown
  \/ \E p \in Package : Kill(p)
  \/ EndShutdown

Next ==
  \/ \E c \in Caller, p \in Package : Ask(c, p)
  \/ \E c \in Caller : CallerStep(c)
  \/ \E t \in Task : DropTask(t)
  \/ \E q \in Proc : PluginDies(q)
  \/ Operation
  \/ Shutdown

Spec == Init /\ [][Next]_vars

(* tokio's mutex queues its waiters first come, first served, so a waiter  *)
(* gets its turn however often others take the mutex in between; a plugin  *)
(* answers, or read_provider_port gives up after 30 seconds.               *)
FairSpec ==
  /\ Spec
  /\ \A c \in Caller : /\ SF_vars(TakeCached(c) \/ ReadAddress(c))
                       /\ WF_vars(\E q \in Proc : Launch(c, q))
                       /\ WF_vars(Launched(c) \/ LaunchFails(c))
                       /\ WF_vars(Finish(c))
  /\ SF_vars(BeginShutdown)
  /\ WF_vars(EndShutdown \/ \E p \in Package : Kill(p))

-----------------------------------------------------------------------------
(* Properties *)

Living == {q \in Proc : proc[q] # None}

(* Every variable has its type, and who launches a plugin has the mutex.   *)
TypeOK ==
  /\ map \in [Package -> Proc \cup {None}]
  /\ holder \in Caller \cup {None}
  /\ addr \in Address
  /\ proc \in [Proc -> Process \cup {None}]
  /\ caller \in [Caller -> CallerState]
  /\ phase \in Phase
  /\ listening \subseteq Address
  /\ runs \in Address
  /\ \A c \in Caller : caller[c].pc \in {"starting", "launching"} => holder = c

(* Two processes never serve the same package at the same time, across all *)
(* runs of one engine: get_provider holds the mutex from its lookup to its *)
(* insert.                                                                 *)
OneProcessPerPackage ==
  \A q, r \in Living : proc[q].pkg = proc[r].pkg => q = r

(* Every configured process is in the map, where the next shutdown_all     *)
(* finds it, and every other one is that of the mutex's holder: neither a  *)
(* failed launch nor a dropped handler leaves a process behind.            *)
NoStrayProcess ==
  \A q \in Living :
    IF proc[q].up THEN map[proc[q].pkg] = q
                  ELSE /\ holder \in Caller
                       /\ caller[holder].pc = "launching"
                       /\ caller[holder].child = q

(* shutdown_all leaves no process alive, whoever launches meanwhile.       *)
ShutdownLeavesNothing ==
  [][phase' # phase /\ phase \in {"stopping", "closing"} =>
       \A q \in Proc : proc'[q] = None]_vars

(* A plugin that outlives an operation, to its normal end, after a failed  *)
(* program or in an early return without shutdown_all, is one that a       *)
(* handler left over from an ended program launched after the last         *)
(* shutdown: never one of the delete loop or of the program itself.        *)
OnlyLatePluginsSurvive ==
  phase \in {"idle", "loading", "starting", "returning"} =>
    \A q \in Living : proc[q].late

(* Whoever waits for the mutex gets a provider or an error: nobody is left *)
(* waiting behind a failed or dropped launch.                              *)
CallersAreServed ==
  \A c \in Caller : caller[c].pc \in {"waiting", "starting", "launching"}
                      ~> caller[c].pc \in {"using", "idle"}

(* What the running program's own handlers launch gets the address of the  *)
(* server of that run, whatever handlers left over from earlier runs do.   *)
OwnPluginsConnect ==
  phase = "program" =>
    \A q \in Living : ~proc[q].late => proc[q].addr = runs /\ runs \in listening
=============================================================================
