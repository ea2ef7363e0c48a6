-------------------------- MODULE AutomationProofs --------------------------
(***************************************************************************)
(* Theorems about Automation, for any number of workers, stacks, settings  *)
(* and operations: the types; that what a program finds are its settings;  *)
(* that what cannot be read is not overwritten; that create-or-select ends *)
(* with a stack.                                                           *)
(***************************************************************************)
EXTENDS Automation, SequenceTheorems, TLAPS

-----------------------------------------------------------------------------
(* Types.                                                                  *)

Results == {"none", "ok", "exists", "missing", "failed"}

LEMMA SettingsTyped ==
  /\ NoSettings \in Config
  /\ \A key : \A config \in Config, setting \in Setting \cup {None} :
       Edited(config, key, setting) \in Config
  /\ \A content : Loaded(content) \in Config
  /\ \A config : [config |-> NoSettings, deployed |-> FALSE] \in CliStack
  BY DEF NoSettings, Config, Edited, Loaded, CliStack

LEMMA RestingTyped == Resting \in WorkerState /\ Resting.at = "idle"
  BY SettingsTyped, EmptySeq DEF Resting, WorkerState

LEMMA ScriptsTyped ==
  /\ \A op \in CallName : <<op>> \in Seq(CallName) /\ <<op>> # <<>>
  /\ \A script \in Scripts : script \in Seq(CallName) /\ script # <<>>
<1>1. \A op \in CallName : <<op>> \in Seq(CallName) /\ <<op>> # <<>>
  OBVIOUS
<1>2. \A op, next \in CallName : <<op, next>> \in Seq(CallName) /\ <<op, next>> # <<>>
  OBVIOUS
<1>3. \A script \in Scripts : \/ \E op \in CallName : script = <<op>>
                             \/ \E op, next \in CallName : script = <<op, next>>
  BY DEF Scripts, LifecycleArm, StackArm, ConfigArm, Edits, OtherArm, Calls, Lifecycle, CallName
<1> QED
  BY <1>1, <1>2, <1>3

LEMMA PathsTyped ==
  \A s \in Stack : ConfigPath(s) \in Path /\ CheckpointPath(s) \in Path
  BY DEF Path

LEMMA StaleTyped ==
  ASSUME NEW state \in WorkerState
  PROVE  /\ [state EXCEPT !.stale = TRUE] \in WorkerState
         /\ [state EXCEPT !.stale = TRUE].stale
         /\ [state EXCEPT !.stale = TRUE].at = state.at
         /\ [state EXCEPT !.stale = TRUE].script = state.script
         /\ [state EXCEPT !.stale = TRUE].stack = state.stack
         /\ [state EXCEPT !.stale = TRUE].command = state.command
         /\ [state EXCEPT !.stale = TRUE].result = state.result
         /\ [state EXCEPT !.stale = TRUE].seen = state.seen
         /\ [state EXCEPT !.stale = TRUE].due = state.due
         /\ [state EXCEPT !.stale = TRUE].key = state.key
         /\ [state EXCEPT !.stale = TRUE].setting = state.setting
         /\ [state EXCEPT !.stale = TRUE].config = state.config
  BY DEF WorkerState

(* The state a worker starts an operation in.                              *)
LEMMA StartTyped ==
  ASSUME TypeOK, NEW w \in Worker, NEW state \in WorkerState, Start(w, state),
         state.at = "call" => state.script # <<>>, state.at # "idle" => state.stack # None
  PROVE  /\ worker' \in [Worker -> WorkerState] /\ worker'[w] = state
         /\ \A v \in Worker \ {w} : worker'[v] = worker[v]
         /\ \A v \in Worker : /\ worker'[v].at = "call" => worker'[v].script # <<>>
                              /\ worker'[v].at # "idle" => worker'[v].stack # None
         /\ ops' \in 0..MaxOps
  BY AutomationAssumption DEF TypeOK, Start

(* What a step of the CLI may do to the workers.                           *)
Advanced(w) ==
  /\ worker' \in [Worker -> WorkerState]
  /\ \A v \in Worker \ {w} : worker'[v] = worker[v]
  /\ worker'[w].at \in {"call", "idle"}
  /\ worker'[w].at = "call" => worker'[w].script # <<>>
  /\ worker'[w].stack = worker[w].stack /\ worker'[w].stale = worker[w].stale
  /\ worker'[w].command = worker[w].command
  /\ \/ worker'[w].seen = worker[w].seen /\ worker'[w].due = worker[w].due
     \/ worker'[w].seen \in worker'[w].due

LEMMA FinishAdvances ==
  ASSUME TypeOK, NEW w \in Worker, NEW result \in Results, Finish(w, result)
  PROVE  /\ Advanced(w) /\ worker'[w].at = "idle" /\ worker'[w].result = result
         /\ worker'[w].script = <<>>
<1> DEFINE state == [worker[w] EXCEPT !.at = "idle", !.script = <<>>, !.result = result]
<1>1. worker \in [Worker -> WorkerState] /\ worker[w] \in WorkerState
  BY DEF TypeOK
<1>2. /\ state \in WorkerState /\ state.at = "idle" /\ state.script = <<>>
      /\ state.result = result /\ state.stack = worker[w].stack
      /\ state.stale = worker[w].stale /\ state.command = worker[w].command
      /\ state.seen = worker[w].seen /\ state.due = worker[w].due
  BY <1>1, EmptySeq DEF WorkerState, Results
<1>3. worker' = [worker EXCEPT ![w] = state]
  BY <1>1 DEF Finish
<1> HIDE DEF state
<1> QED
  BY <1>1, <1>2, <1>3 DEF Advanced

LEMMA NextCallAdvances ==
  ASSUME TypeOK, NEW w \in Worker, worker[w].at = "call", NEW script \in Seq(CallName),
         script # <<>>, worker' = [worker EXCEPT ![w].script = script]
  PROVE  /\ Advanced(w) /\ worker'[w].at = "call" /\ worker'[w].result = worker[w].result
         /\ worker'[w].script = script
  BY DEF TypeOK, Advanced, WorkerState

LEMMA GoOnAdvances ==
  ASSUME TypeOK, NEW w \in Worker, worker[w].at = "call", GoOn(w)
  PROVE  /\ Advanced(w)
         /\ \/ worker'[w].at = "idle" /\ worker'[w].result = "ok"
            \/ worker'[w].at = "call" /\ worker'[w].result = worker[w].result
<1>1. worker[w].script \in Seq(CallName) /\ worker[w].script # <<>>
  BY DEF TypeOK, WorkerState
<1>2. Tail(worker[w].script) \in Seq(CallName)
  BY <1>1, HeadTailProperties
<1>3. CASE Tail(worker[w].script) = <<>>
  BY <1>3, FinishAdvances DEF GoOn, Results
<1>4. CASE Tail(worker[w].script) # <<>>
  BY <1>2, <1>4, NextCallAdvances DEF GoOn
<1> QED
  BY <1>3, <1>4

LEMMA ReadAdvances ==
  ASSUME TypeOK, NEW w \in Worker, NEW seen \in Config, NEW due \in SUBSET Config,
         seen \in due, ReadConfig(w, seen, due)
  PROVE  Advanced(w) /\ worker'[w].at = "idle" /\ worker'[w].result = "ok"
<1> DEFINE state == [worker[w] EXCEPT !.at = "idle", !.script = <<>>, !.result = "ok",
                                      !.seen = seen, !.due = due]
<1>1. worker \in [Worker -> WorkerState] /\ worker[w] \in WorkerState
  BY DEF TypeOK
<1>2. /\ state \in WorkerState /\ state.at = "idle" /\ state.result = "ok"
      /\ state.stack = worker[w].stack /\ state.stale = worker[w].stale
      /\ state.command = worker[w].command /\ state.seen = seen /\ state.due = due
  BY <1>1, EmptySeq DEF WorkerState
<1>3. worker' = [worker EXCEPT ![w] = state]
  BY <1>1 DEF ReadConfig
<1> HIDE DEF state
<1> QED
  BY <1>1, <1>2, <1>3 DEF Advanced

LEMMA EnvsTyped ==
  ASSUME TypeOK, NEW w \in Worker, worker[w].at = "call"
  PROVE  /\ \A call : CallEnv(w, call) \in Env
         /\ EnvOf[w] \in Env /\ worker[w].stack \in Stack
         /\ StackOf(w) \in CliStack \cup {None}
<1>1. \A call : CallEnv(w, call) \in Env
  BY DEF CallEnv, Env
<1>2. EnvOf[w] \in Env
  BY DEF Env
<1>3. worker[w].stack \in Stack
  BY DEF TypeOK, WorkerState
<1> QED
  BY <1>1, <1>2, <1>3 DEF TypeOK, StackOf

LEMMA PutTyped ==
  ASSUME TypeOK, NEW w \in Worker, worker[w].at = "call", NEW entry \in CliStack \cup {None},
         Put(w, entry)
  PROVE  backend' \in [Env -> [Stack -> CliStack \cup {None}]]
<1>1. backend \in [Env -> [Stack -> CliStack \cup {None}]]
  BY DEF TypeOK
<1> QED
  BY <1>1, EnvsTyped DEF Put

(* All calls but the removal of a stack: the caller goes on, and a stack   *)
(* that is written is there.                                               *)
CallsOn(w) ==
  \/ CreateStack(w) \/ SelectStack(w) \/ EditConfig(w) \/ GetConfig(w)
  \/ Up(w) \/ Preview(w) \/ Destroy(w) \/ Ask(w) \/ ImportState(w) \/ CallFails(w)

LEMMA CallSteps ==
  ASSUME TypeOK, NEW w \in Worker, CallsOn(w)
  PROVE  /\ worker[w].at = "call" /\ Advanced(w)
         /\ UNCHANGED <<files, history, ops>>
         /\ UNCHANGED backend \/ \E entry \in CliStack : Put(w, entry)
<1>0. worker[w].at = "call" /\ UNCHANGED <<files, history, ops>>
  BY DEF CallsOn, CreateStack, SelectStack, EditConfig, GetConfig, Up, Preview, Destroy, Ask,
         ImportState, CallFails, Call
<1>1. StackOf(w) \in CliStack \cup {None}
  BY <1>0, EnvsTyped
<1>2. CASE CreateStack(w)
  <2>1. NewStack \in CliStack
    BY SettingsTyped DEF NewStack
  <2>2. CASE Put(w, NewStack) /\ GoOn(w)
    BY <1>0, <2>1, <2>2, GoOnAdvances
  <2>3. CASE AfterExists(w) /\ UNCHANGED backend
    <3>1. <<"select">> \in Seq(CallName) /\ <<"select">> # <<>>
      BY ScriptsTyped DEF CallName
    <3> QED
      BY <1>0, <2>3, <3>1, NextCallAdvances, FinishAdvances DEF AfterExists, Results
  <2> QED
    BY <1>2, <2>2, <2>3 DEF CreateStack
<1>3. CASE SelectStack(w)
  BY <1>0, <1>3, GoOnAdvances, FinishAdvances DEF SelectStack, Results
<1>4. CASE EditConfig(w)
  <2>1. StackOf(w) \in CliStack
    BY <1>1, <1>4 DEF EditConfig
  <2>2. \A setting \in Setting \cup {None} :
          [StackOf(w) EXCEPT !.config = Edited(@, worker[w].key, setting)] \in CliStack
    BY <2>1, SettingsTyped DEF CliStack
  <2>3. worker[w].setting \in Setting \cup {None}
    BY DEF TypeOK, WorkerState
  <2> QED
    BY <1>0, <1>4, <2>2, <2>3, GoOnAdvances DEF EditConfig
<1>5. CASE GetConfig(w)
  <2>1. StackOf(w) = backend[EnvOf[w]][worker[w].stack]
    BY <1>5 DEF GetConfig, Call, StackOf, CallEnv, Lifecycle
  <2>2. StackOf(w).config \in Config
    BY <1>1, <1>5 DEF GetConfig, CliStack
  <2> QED
    BY <1>0, <1>5, <2>1, <2>2, ReadAdvances DEF GetConfig
<1>6. CASE Up(w) \/ Preview(w)
  <2>1. StackOf(w) = backend[Plain][worker[w].stack]
    BY <1>6 DEF Up, Preview, Call, StackOf, CallEnv, Lifecycle
  <2>2. StackOf(w) \in CliStack /\ StackOf(w).config \in Config
    BY <1>1, <1>6 DEF Up, Preview, CliStack
  <2>3. StackOf(w).config \in DueInCli(w) /\ DueInCli(w) \in SUBSET Config
    BY <2>1, <2>2 DEF DueInCli
  <2>4. Advanced(w)
    BY <1>6, <2>2, <2>3, ReadAdvances DEF Up, Preview
  <2>5. [StackOf(w) EXCEPT !.deployed = TRUE] \in CliStack
    BY <2>2 DEF CliStack
  <2> QED
    BY <1>0, <1>6, <2>4, <2>5 DEF Up, Preview
<1>7. CASE Destroy(w) \/ ImportState(w)
  <2>1. \A deployed \in BOOLEAN : [StackOf(w) EXCEPT !.deployed = deployed] \in CliStack
    BY <1>1, <1>7 DEF Destroy, ImportState, CliStack
  <2> QED
    BY <1>0, <1>7, <2>1, GoOnAdvances DEF Destroy, ImportState
<1>8. CASE Ask(w)
  BY <1>0, <1>8, GoOnAdvances DEF Ask
<1>9. CASE CallFails(w)
  BY <1>0, <1>9, FinishAdvances DEF CallFails, Results
<1> QED
  BY <1>2, <1>3, <1>4, <1>5, <1>6, <1>7, <1>8, <1>9 DEF CallsOn

(* A removal tells the others that it happened.                            *)
LEMMA RemoveSteps ==
  ASSUME TypeOK, NEW w \in Worker, RemoveStack(w)
  PROVE  /\ worker[w].at = "call" /\ UNCHANGED <<files, history, ops>> /\ Put(w, None)
         /\ worker' \in [Worker -> WorkerState]
         /\ worker'[w] = [worker[w] EXCEPT !.at = "idle", !.script = <<>>, !.result = "ok"]
         /\ \A v \in Worker \ {w} :
              worker'[v] \in {worker[v], [worker[v] EXCEPT !.stale = TRUE]}
<1>1. [worker[w] EXCEPT !.at = "idle", !.script = <<>>, !.result = "ok"] \in WorkerState
  BY EmptySeq DEF TypeOK, WorkerState
<1>2. \A v \in Worker : [worker[v] EXCEPT !.stale = TRUE] \in WorkerState
  BY StaleTyped DEF TypeOK
<1> QED
  BY <1>1, <1>2 DEF TypeOK, RemoveStack, Call

THEOREM InitTypeOK == Init => TypeOK
  BY RestingTyped, SettingsTyped, AutomationAssumption DEF Init, TypeOK

LEMMA OvertakingTyped ==
  ASSUME TypeOK, NEW w \in Worker, NEW p, NEW at \in {"idle", "write", "save"},
         NEW result \in Results, worker[w].stack # None, Overtaking(w, p, at, result)
  PROVE  /\ worker' \in [Worker -> WorkerState]
         /\ worker'[w] = [worker[w] EXCEPT !.at = at, !.result = result]
         /\ \A v \in Worker \ {w} :
              worker'[v] = IF v \in Reading(p) THEN [worker[v] EXCEPT !.stale = TRUE] ELSE worker[v]
         /\ \A v \in Worker : /\ worker'[v].at = "call" => worker'[v].script # <<>>
                              /\ worker'[v].at # "idle" => worker'[v].stack # None
<1>1. [worker[w] EXCEPT !.at = at, !.result = result] \in WorkerState
  BY DEF TypeOK, WorkerState, Results
<1>2. \A v \in Worker : [worker[v] EXCEPT !.stale = TRUE] \in WorkerState
  BY StaleTyped DEF TypeOK
<1>3. /\ worker' \in [Worker -> WorkerState]
      /\ worker'[w] = [worker[w] EXCEPT !.at = at, !.result = result]
      /\ \A v \in Worker \ {w} :
           worker'[v] = IF v \in Reading(p) THEN [worker[v] EXCEPT !.stale = TRUE] ELSE worker[v]
  BY <1>1, <1>2 DEF Overtaking, TypeOK
<1>4. \A v \in Worker \ {w} : /\ worker'[v].at = worker[v].at
                              /\ worker'[v].script = worker[v].script
                              /\ worker'[v].stack = worker[v].stack
  <2> SUFFICES ASSUME NEW v \in Worker \ {w}
               PROVE  /\ worker'[v].at = worker[v].at
                      /\ worker'[v].script = worker[v].script
                      /\ worker'[v].stack = worker[v].stack
    OBVIOUS
  <2>1. worker[v] \in WorkerState
    BY DEF TypeOK
  <2>2. worker'[v] \in {worker[v], [worker[v] EXCEPT !.stale = TRUE]}
    BY <1>3
  <2> QED
    BY <2>1, <2>2, StaleTyped
<1>5. worker'[w].at = at /\ worker'[w].stack = worker[w].stack
  BY <1>3 DEF TypeOK, WorkerState
<1> QED
  BY <1>3, <1>4, <1>5 DEF TypeOK

(* The three ways to start something in the files.                         *)
LEMMA EditStarts ==
  ASSUME TypeOK, NEW w \in Worker, NEW s \in Stack, NEW key \in Key,
         NEW setting \in Setting \cup {None}, BeginEdit(w, s, key, setting)
  PROVE  /\ TypeOK' /\ UNCHANGED <<files, backend, truth>>
         /\ Loads(files[ConfigPath(s)])
         /\ disturbed' = IF Editing(s) = {} THEN disturbed ELSE disturbed \cup {s}
         /\ worker'[w].at = "edit" /\ worker'[w].stack = s /\ worker'[w].key = key
         /\ worker'[w].setting = setting /\ worker'[w].command = <<>>
         /\ worker'[w].config = Edited(Loaded(files[ConfigPath(s)]), key, setting)
         /\ worker'[w].seen \in worker'[w].due
         /\ \A v \in Worker \ {w} : worker'[v] = worker[v]
<1> DEFINE state == [Resting EXCEPT !.at = "edit", !.stack = s, !.key = key,
                       !.setting = setting,
                       !.config = Edited(Loaded(files[ConfigPath(s)]), key, setting)]
<1>1. Edited(Loaded(files[ConfigPath(s)]), key, setting) \in Config
  BY SettingsTyped
<1>2. state \in WorkerState /\ state.at = "edit" /\ state.stack # None
  BY <1>1, RestingTyped, AutomationAssumption DEF WorkerState
<1>3. Start(w, state)
  BY DEF BeginEdit
<1>6. /\ state.at = "edit" /\ state.stack = s /\ state.key = key
      /\ state.setting = setting /\ state.command = <<>>
      /\ state.config = Edited(Loaded(files[ConfigPath(s)]), key, setting)
      /\ state.seen \in state.due
  BY DEF Resting
<1> HIDE DEF state
<1>4. /\ worker' \in [Worker -> WorkerState] /\ worker'[w] = state
      /\ \A v \in Worker \ {w} : worker'[v] = worker[v]
      /\ \A v \in Worker : /\ worker'[v].at = "call" => worker'[v].script # <<>>
                           /\ worker'[v].at # "idle" => worker'[v].stack # None
      /\ ops' \in 0..MaxOps
  BY <1>2, <1>3, StartTyped
<1>5. /\ UNCHANGED <<files, backend, truth>> /\ Loads(files[ConfigPath(s)])
      /\ disturbed' = IF Editing(s) = {} THEN disturbed ELSE disturbed \cup {s}
  BY DEF BeginEdit
<1> QED
  BY <1>4, <1>5, <1>6 DEF TypeOK

LEMMA ReadStarts ==
  ASSUME TypeOK, NEW w \in Worker, NEW s \in Stack, ReadSettings(w, s)
  PROVE  /\ TypeOK' /\ UNCHANGED <<files, backend, history>>
         /\ Loads(files[ConfigPath(s)])
         /\ worker'[w].at = "idle" /\ worker'[w].command = <<>>
         /\ worker'[w].seen = Loaded(files[ConfigPath(s)])
         /\ worker'[w].due = IF s \in disturbed THEN Config ELSE {truth[s]}
         /\ \A v \in Worker \ {w} : worker'[v] = worker[v]
<1> DEFINE due == IF s \in disturbed THEN Config ELSE {truth[s]}
           state == [Resting EXCEPT !.stack = s, !.result = "ok",
                       !.seen = Loaded(files[ConfigPath(s)]), !.due = due]
<1>1. Loaded(files[ConfigPath(s)]) \in Config /\ due \in SUBSET Config
  BY SettingsTyped DEF TypeOK
<1>2. state \in WorkerState /\ state.at = "idle"
  BY <1>1, RestingTyped DEF WorkerState
<1>3. Start(w, state) /\ UNCHANGED <<files, backend, history>> /\ Loads(files[ConfigPath(s)])
  BY DEF ReadSettings
<1>5. /\ state.command = <<>> /\ state.seen = Loaded(files[ConfigPath(s)]) /\ state.due = due
  BY DEF Resting
<1> HIDE DEF state
<1>4. /\ worker' \in [Worker -> WorkerState] /\ worker'[w] = state
      /\ \A v \in Worker \ {w} : worker'[v] = worker[v]
      /\ \A v \in Worker : /\ worker'[v].at = "call" => worker'[v].script # <<>>
                           /\ worker'[v].at # "idle" => worker'[v].stack # None
      /\ ops' \in 0..MaxOps
  BY <1>2, <1>3, StartTyped
<1> QED
  BY <1>2, <1>3, <1>4, <1>5 DEF TypeOK, history

LEMMA NativeStarts ==
  ASSUME TypeOK, NEW w \in Worker, NEW s \in Stack, NEW op \in Lifecycle, BeginNative(w, s, op)
  PROVE  /\ TypeOK' /\ UNCHANGED <<files, backend, history>>
         /\ LoadsCheckpoint(files[CheckpointPath(s)])
         /\ worker'[w].at = "run" /\ worker'[w].stack = s /\ worker'[w].command = <<>>
         /\ worker'[w].seen = Loaded(files[ConfigPath(s)])
         /\ worker'[w].due = IF s \in disturbed \/ HalfWritten(s) THEN Config ELSE {truth[s]}
         /\ \A v \in Worker \ {w} : worker'[v] = worker[v]
<1> DEFINE due == IF s \in disturbed \/ HalfWritten(s) THEN Config ELSE {truth[s]}
           state == [Resting EXCEPT !.at = "run", !.stack = s, !.script = <<op>>,
                       !.seen = Loaded(files[ConfigPath(s)]), !.due = due]
<1>1. Loaded(files[ConfigPath(s)]) \in Config /\ due \in SUBSET Config
  BY SettingsTyped DEF TypeOK
<1>2. <<op>> \in Seq(CallName)
  BY ScriptsTyped DEF CallName
<1>3. state \in WorkerState /\ state.at = "run" /\ state.stack # None
  BY <1>1, <1>2, RestingTyped, AutomationAssumption DEF WorkerState
<1>4. Start(w, state) /\ UNCHANGED <<files, backend, history>> /\ LoadsCheckpoint(files[CheckpointPath(s)])
  BY DEF BeginNative, ProgramSees, OptionsConfig
<1>6. /\ state.stack = s /\ state.command = <<>>
      /\ state.seen = Loaded(files[ConfigPath(s)]) /\ state.due = due
  BY DEF Resting
<1> HIDE DEF state
<1>5. /\ worker' \in [Worker -> WorkerState] /\ worker'[w] = state
      /\ \A v \in Worker \ {w} : worker'[v] = worker[v]
      /\ \A v \in Worker : /\ worker'[v].at = "call" => worker'[v].script # <<>>
                           /\ worker'[v].at # "idle" => worker'[v].stack # None
      /\ ops' \in 0..MaxOps
  BY <1>3, <1>4, StartTyped
<1> QED
  BY <1>3, <1>4, <1>5, <1>6 DEF TypeOK, history

LEMMA CallStarts ==
  ASSUME TypeOK, NEW w \in Worker, NEW s \in Stack, NEW script \in Scripts,
         NEW key \in Key \cup {None}, NEW setting \in Setting \cup {None},
         Begin(w, s, script, key, setting)
  PROVE  /\ TypeOK' /\ UNCHANGED <<files, backend, history>>
         /\ worker'[w].at = "call" /\ worker'[w].stack = s /\ worker'[w].command = script
         /\ worker'[w].script = script /\ worker'[w].result = "none"
         /\ worker'[w].seen \in worker'[w].due
         /\ \A v \in Worker \ {w} : worker'[v] = worker[v]
<1> DEFINE state == [Resting EXCEPT !.at = "call", !.stack = s, !.command = script,
                       !.script = script, !.key = key, !.setting = setting]
<1>1. /\ state \in WorkerState /\ state.at = "call" /\ state.stack # None
      /\ state.script # <<>>
  BY ScriptsTyped, RestingTyped, AutomationAssumption DEF WorkerState
<1>2. Start(w, state) /\ UNCHANGED <<files, backend, history>>
  BY DEF Begin
<1>4. /\ state.stack = s /\ state.command = script /\ state.script = script
      /\ state.result = "none" /\ state.seen \in state.due
  BY DEF Resting
<1> HIDE DEF state
<1>3. /\ worker' \in [Worker -> WorkerState] /\ worker'[w] = state
      /\ \A v \in Worker \ {w} : worker'[v] = worker[v]
      /\ \A v \in Worker : /\ worker'[v].at = "call" => worker'[v].script # <<>>
                           /\ worker'[v].at # "idle" => worker'[v].stack # None
      /\ ops' \in 0..MaxOps
  BY <1>1, <1>2, StartTyped
<1> QED
  BY <1>1, <1>2, <1>3, <1>4 DEF TypeOK, history

Content == Config \cup {None, Empty, Garbled, Saved}

LEMMA WriteTyped ==
  ASSUME TypeOK, NEW w \in Worker,
         TruncateSettings(w) \/ WriteSettings(w) \/ TruncateCheckpoint(w) \/ WriteCheckpoint(w)
  PROVE  TypeOK'
<1>1. /\ worker[w].stack \in Stack /\ worker[w].config \in Config /\ worker[w].setting \in Setting \cup {None}
      /\ files \in [Path -> Content] /\ truth \in [Stack -> Config]
  BY DEF TypeOK, WorkerState, TruncateSettings, WriteSettings, TruncateCheckpoint,
         WriteCheckpoint, Content
<1>2. files' \in [Path -> Content]
  <2>1. \A p \in Path, content \in Content : [files EXCEPT ![p] = content] \in [Path -> Content]
    BY <1>1
  <2>2. Empty \in Content /\ \A old : Written(old, Saved) \cup Written(old, worker[w].config) \subseteq Content
    BY <1>1 DEF Written, Content
  <2> QED
    BY <1>1, <2>1, <2>2, PathsTyped DEF TruncateSettings, WriteSettings, TruncateCheckpoint,
                                        WriteCheckpoint
<1>3. truth' \in [Stack -> Config] /\ disturbed' \subseteq Stack /\ UNCHANGED <<backend, ops>>
  <2>1. \A key : \A setting \in Setting \cup {None} : [truth[worker[w].stack] EXCEPT ![key] = setting] \in Config
    BY <1>1 DEF Config
  <2>2. CASE WriteSettings(w)
    <3>1. truth' = [truth EXCEPT ![worker[w].stack] =
                      [truth[worker[w].stack] EXCEPT ![worker[w].key] = worker[w].setting]]
      BY <1>1, <2>2 DEF WriteSettings
    <3>2. [truth[worker[w].stack] EXCEPT ![worker[w].key] = worker[w].setting] \in Config
      BY <1>1, <2>1
    <3>3. truth' \in [Stack -> Config]
      BY <1>1, <3>1, <3>2
    <3> QED
      BY <2>2, <3>3 DEF WriteSettings, TypeOK
  <2>3. CASE TruncateSettings(w) \/ TruncateCheckpoint(w) \/ WriteCheckpoint(w)
    BY <1>1, <2>3 DEF TruncateSettings, TruncateCheckpoint, WriteCheckpoint, history, TypeOK
  <2> QED
    BY <2>2, <2>3
<1>4. \E p : \E at \in {"idle", "write", "save"}, result \in Results : Overtaking(w, p, at, result)
  BY DEF TruncateSettings, WriteSettings, TruncateCheckpoint, WriteCheckpoint, Results
<1>5. /\ worker' \in [Worker -> WorkerState]
      /\ \A v \in Worker : /\ worker'[v].at = "call" => worker'[v].script # <<>>
                           /\ worker'[v].at # "idle" => worker'[v].stack # None
  <2>1. PICK p : \E at \in {"idle", "write", "save"}, result \in Results : Overtaking(w, p, at, result)
    BY <1>4
  <2>2. worker[w].stack # None
    BY <1>1, AutomationAssumption
  <2> QED
    BY <2>1, <2>2, OvertakingTyped
<1> QED
  BY <1>2, <1>3, <1>5 DEF TypeOK, Content

LEMMA EndSteps ==
  ASSUME TypeOK, NEW w \in Worker, EndPreview(w) \/ NativeFails(w)
  PROVE  /\ TypeOK' /\ UNCHANGED <<files, backend, truth, ops>> /\ Advanced(w)
         /\ worker'[w].at = "idle" /\ worker'[w].result \in {"ok", "failed"}
         /\ worker[w].at \in {"edit", "write", "run", "save"}
         /\ disturbed' = IF worker[w].at = "write" THEN disturbed \cup {worker[w].stack}
                                                   ELSE disturbed
<1>1. /\ Advanced(w) /\ worker'[w].at = "idle" /\ worker'[w].result \in {"ok", "failed"}
  BY FinishAdvances DEF EndPreview, NativeFails, Results
<1>2. /\ UNCHANGED <<files, backend, truth, ops>> /\ worker[w].at \in {"edit", "write", "run", "save"}
      /\ disturbed' = IF worker[w].at = "write" THEN disturbed \cup {worker[w].stack}
                                                ELSE disturbed
  BY DEF EndPreview, NativeFails, history
<1>3. worker[w].stack \in Stack
  BY <1>2 DEF TypeOK, WorkerState
<1>4. \A v \in Worker : /\ worker'[v].at = "call" => worker'[v].script # <<>>
                        /\ worker'[v].at # "idle" => worker'[v].stack # None
  BY <1>1 DEF Advanced, TypeOK
<1> QED
  BY <1>1, <1>2, <1>3, <1>4 DEF TypeOK, Advanced

LEMMA CallTyped ==
  ASSUME TypeOK, NEW w \in Worker, CallsOn(w) \/ RemoveStack(w)
  PROVE  TypeOK'
<1>1. /\ worker[w].at = "call" /\ UNCHANGED <<files, history, ops>>
      /\ backend' \in [Env -> [Stack -> CliStack \cup {None}]]
  <2>1. \A entry \in CliStack \cup {None} : worker[w].at = "call" /\ Put(w, entry) =>
          backend' \in [Env -> [Stack -> CliStack \cup {None}]]
    BY PutTyped
  <2>2. UNCHANGED backend => backend' \in [Env -> [Stack -> CliStack \cup {None}]]
    BY DEF TypeOK
  <2> QED
    BY <2>1, <2>2, CallSteps, RemoveSteps
<1>2. /\ worker' \in [Worker -> WorkerState]
      /\ \A v \in Worker : /\ worker'[v].at = "call" => worker'[v].script # <<>>
                           /\ worker'[v].at # "idle" => worker'[v].stack # None
  <2>1. CASE CallsOn(w)
    BY <1>1, <2>1, CallSteps DEF Advanced, TypeOK
  <2>2. CASE RemoveStack(w)
    <3>1. worker'[w].at = "idle" /\ worker' \in [Worker -> WorkerState]
      BY <2>2, RemoveSteps DEF TypeOK, WorkerState
    <3>2. \A v \in Worker \ {w} : /\ worker'[v].at = worker[v].at
                                  /\ worker'[v].script = worker[v].script
                                  /\ worker'[v].stack = worker[v].stack
      <4> SUFFICES ASSUME NEW v \in Worker \ {w}
                   PROVE  /\ worker'[v].at = worker[v].at
                          /\ worker'[v].script = worker[v].script
                          /\ worker'[v].stack = worker[v].stack
        OBVIOUS
      <4>1. worker[v] \in WorkerState
        BY DEF TypeOK
      <4>2. worker'[v] \in {worker[v], [worker[v] EXCEPT !.stale = TRUE]}
        BY <2>2, RemoveSteps
      <4> QED
        BY <4>1, <4>2, StaleTyped
    <3> QED
      BY <3>1, <3>2 DEF TypeOK
  <2> QED
    BY <2>1, <2>2
<1> QED
  BY <1>1, <1>2 DEF TypeOK, history

(* The steps of a worker, by what they do to the files.                    *)
Steps(w) ==
  \/ \E s \in Stack, key \in Key, setting \in Setting \cup {None} : BeginEdit(w, s, key, setting)
  \/ \E s \in Stack : ReadSettings(w, s)
  \/ \E s \in Stack, op \in Lifecycle : BeginNative(w, s, op)
  \/ \E s \in Stack, script \in Scripts, key \in Key \cup {None}, setting \in Setting \cup {None} :
       Begin(w, s, script, key, setting)
  \/ TruncateSettings(w) \/ WriteSettings(w) \/ TruncateCheckpoint(w) \/ WriteCheckpoint(w)
  \/ EndPreview(w) \/ NativeFails(w)
  \/ CallsOn(w) \/ RemoveStack(w)

LEMMA NextSteps == Next => \E w \in Worker : Steps(w)
<1> SUFFICES ASSUME NEW w \in Worker, NativeStep(w) \/ CliStep(w) PROVE Steps(w)
  BY DEF Next
<1>1. Edits \subseteq Scripts
  BY DEF Scripts, ConfigArm
<1>2. ASSUME NEW s \in Stack, NEW script \in Scripts \ Edits, Begin(w, s, script, None, None)
      PROVE  Steps(w)
  BY <1>2 DEF Steps
<1>3. ASSUME NEW s \in Stack, NEW script \in Edits, NEW key \in Key, NEW setting \in Setting,
             Begin(w, s, script, key, setting)
      PROVE  Steps(w)
  BY <1>1, <1>3 DEF Steps
<1>4. CASE NativeStep(w)
  BY <1>4 DEF Steps, NativeStep
<1>5. CASE CliStep(w)
  BY <1>2, <1>3, <1>5 DEF Steps, CliStep, CallsOn
<1> QED
  BY <1>4, <1>5

THEOREM NextTypeOK == TypeOK /\ [Next]_vars => TypeOK'
<1> SUFFICES ASSUME TypeOK, [Next]_vars PROVE TypeOK'
  OBVIOUS
<1>1. CASE UNCHANGED vars
  BY <1>1 DEF vars, TypeOK
<1>2. CASE Next
  <2>1. PICK w \in Worker : Steps(w)
    BY <1>2, NextSteps
  <2> QED
    BY <2>1, EditStarts, ReadStarts, NativeStarts, CallStarts, WriteTyped, EndSteps, CallTyped DEF Steps
<1> QED
  BY <1>1, <1>2

(* Every part of the state has its shape, for any number of workers, stacks*)
(* and settings.                                                           *)
THEOREM SpecTypeOK == Spec => []TypeOK
  BY InitTypeOK, NextTypeOK, PTL DEF Spec

-----------------------------------------------------------------------------
(* What cannot be read is kept. A write reaches one path and tells whoever *)
(* has read it; UnreadKept is inductive.                                   *)

PathIn(state) ==
  IF state.at \in {"edit", "write"} THEN ConfigPath(state.stack) ELSE CheckpointPath(state.stack)

Kept(state, dir) ==
  ~state.stale =>
    /\ state.at = "edit" => dir[PathIn(state)] \in Config \cup {None}
    /\ state.at = "run" => dir[PathIn(state)] \in {None, Saved}

LEMMA KeptIs == UnreadKept <=> \A w \in Worker : Kept(worker[w], files)
  BY DEF UnreadKept, Kept, PathOf, PathIn

LEMMA WriteSteps ==
  ASSUME TypeOK, NEW w \in Worker,
         TruncateSettings(w) \/ WriteSettings(w) \/ TruncateCheckpoint(w) \/ WriteCheckpoint(w)
  PROVE  /\ worker[w].stack \in Stack /\ worker'[w].at \in {"write", "idle", "save"}
         /\ worker'[w].stack = worker[w].stack /\ worker'[w].command = worker[w].command
         /\ worker'[w].stale = worker[w].stale
         /\ worker'[w].seen = worker[w].seen /\ worker'[w].due = worker[w].due
         /\ worker'[w].config = worker[w].config /\ worker'[w].key = worker[w].key
         /\ worker'[w].setting = worker[w].setting
         /\ \A q \in Path \ {PathIn(worker[w])} : files'[q] = files[q]
         /\ \A v \in Worker \ {w} :
              worker'[v] = IF /\ worker[v].at \in {"edit", "write", "run", "save"}
                              /\ PathIn(worker[v]) = PathIn(worker[w])
                           THEN [worker[v] EXCEPT !.stale = TRUE] ELSE worker[v]
         /\ UNCHANGED backend
<1> DEFINE p == PathIn(worker[w])
<1>1. worker[w].stack \in Stack /\ worker[w].stack # None /\ worker[w] \in WorkerState
  BY AutomationAssumption DEF TypeOK, WorkerState, TruncateSettings, WriteSettings,
         TruncateCheckpoint, WriteCheckpoint
<1>2. \E at \in {"idle", "write", "save"}, result \in Results : Overtaking(w, p, at, result)
  BY DEF TruncateSettings, WriteSettings, TruncateCheckpoint, WriteCheckpoint, Results, PathIn
<1>3. \A q \in Path \ {p} : files'[q] = files[q]
  BY DEF TypeOK, TruncateSettings, WriteSettings, TruncateCheckpoint, WriteCheckpoint, PathIn
<1>4. \A v \in Worker : v \in Reading(p) <=> /\ worker[v].at \in {"edit", "write", "run", "save"}
                                             /\ PathIn(worker[v]) = p
  BY DEF Reading, PathOf, PathIn
<1>5. UNCHANGED backend
  BY DEF TruncateSettings, WriteSettings, TruncateCheckpoint, WriteCheckpoint
<1> HIDE DEF p
<1>6. PICK at \in {"idle", "write", "save"}, result \in Results : Overtaking(w, p, at, result)
  BY <1>2
<1>7. /\ worker'[w] = [worker[w] EXCEPT !.at = at, !.result = result]
      /\ \A v \in Worker \ {w} :
           worker'[v] = IF v \in Reading(p) THEN [worker[v] EXCEPT !.stale = TRUE] ELSE worker[v]
  BY <1>6 DEF Overtaking
<1>8. /\ worker'[w].at = at /\ worker'[w].stack = worker[w].stack
      /\ worker'[w].command = worker[w].command /\ worker'[w].stale = worker[w].stale
      /\ worker'[w].seen = worker[w].seen /\ worker'[w].due = worker[w].due
      /\ worker'[w].config = worker[w].config /\ worker'[w].key = worker[w].key
      /\ worker'[w].setting = worker[w].setting
  BY <1>1, <1>7 DEF WorkerState
<1> QED
  BY <1>1, <1>3, <1>4, <1>5, <1>7, <1>8 DEF p

THEOREM InitUnreadKept == Init => UnreadKept
  BY DEF Init, UnreadKept, Resting

THEOREM NextUnreadKept == TypeOK /\ UnreadKept /\ [Next]_vars => UnreadKept'
<1> SUFFICES ASSUME TypeOK, UnreadKept, [Next]_vars PROVE UnreadKept'
  OBVIOUS
<1>1. CASE UNCHANGED vars
  BY <1>1 DEF vars, UnreadKept, PathOf
<1>2. CASE Next
  <2>1. PICK w \in Worker : Steps(w)
    BY <1>2, NextSteps
  <2> SUFFICES ASSUME NEW v \in Worker PROVE Kept(worker'[v], files')
    BY DEF UnreadKept, Kept, PathOf, PathIn
  <2>2. Kept(worker[v], files) /\ worker[v] \in WorkerState
    BY KeptIs DEF TypeOK
  <2>3. /\ worker[v].at \in {"edit", "run"} => PathIn(worker[v]) \in Path
        /\ Kept([worker[v] EXCEPT !.stale = TRUE], files')
        /\ \A state : state.at \notin {"edit", "run"} => Kept(state, files')
    <3>1. worker[v].at \in {"edit", "run"} => worker[v].stack \in Stack
      BY <2>2 DEF TypeOK, WorkerState
    <3>2. Kept([worker[v] EXCEPT !.stale = TRUE], files')
      BY <2>2, StaleTyped DEF Kept
    <3> QED
      BY <3>1, <3>2, PathsTyped DEF PathIn, Kept
  <2>4. CASE \E s \in Stack, key \in Key, setting \in Setting \cup {None} :
               BeginEdit(w, s, key, setting)
    <3>1. PICK s \in Stack, key \in Key, setting \in Setting \cup {None} :
            BeginEdit(w, s, key, setting)
      BY <2>4
    <3>2. /\ UNCHANGED files /\ Loads(files[ConfigPath(s)])
          /\ worker'[w].at = "edit" /\ worker'[w].stack = s
          /\ v # w => worker'[v] = worker[v]
      BY <3>1, EditStarts
    <3> QED
      BY <2>2, <3>2 DEF Kept, PathIn, Loads
  <2>5. CASE \E s \in Stack, op \in Lifecycle : BeginNative(w, s, op)
    <3>1. PICK s \in Stack, op \in Lifecycle : BeginNative(w, s, op)
      BY <2>5
    <3>2. /\ UNCHANGED files /\ LoadsCheckpoint(files[CheckpointPath(s)])
          /\ worker'[w].at = "run" /\ worker'[w].stack = s
          /\ v # w => worker'[v] = worker[v]
      BY <3>1, NativeStarts
    <3> QED
      BY <2>2, <3>2 DEF Kept, PathIn, LoadsCheckpoint
  <2>6. CASE TruncateSettings(w) \/ WriteSettings(w) \/ TruncateCheckpoint(w) \/ WriteCheckpoint(w)
    <3>1. CASE v = w
      BY <2>3, <2>6, <3>1, WriteSteps
    <3>2. CASE v # w /\ worker[v].at \in {"edit", "run"} /\ PathIn(worker[v]) = PathIn(worker[w])
      <4>1. worker'[v] = [worker[v] EXCEPT !.stale = TRUE]
        BY <2>6, <3>2, WriteSteps
      <4> QED
        BY <2>3, <4>1
    <3>3. CASE v # w /\ worker[v].at \in {"edit", "run"} /\ PathIn(worker[v]) # PathIn(worker[w])
      <4>1. worker'[v] = worker[v]
        BY <2>6, <3>3, WriteSteps
      <4>2. files'[PathIn(worker[v])] = files[PathIn(worker[v])]
        BY <2>3, <2>6, <3>3, WriteSteps
      <4> QED
        BY <2>2, <4>1, <4>2 DEF Kept
    <3>4. CASE v # w /\ worker[v].at \notin {"edit", "run"}
      <4>1. worker'[v] \in {worker[v], [worker[v] EXCEPT !.stale = TRUE]}
        BY <2>6, <3>4, WriteSteps
      <4> QED
        BY <2>3, <3>4, <4>1
    <3> QED
      BY <3>1, <3>2, <3>3, <3>4
  <2>7. CASE \/ \E s \in Stack : ReadSettings(w, s)
             \/ \E s \in Stack, script \in Scripts, key \in Key \cup {None},
                   setting \in Setting \cup {None} : Begin(w, s, script, key, setting)
    <3>1. /\ UNCHANGED files /\ worker'[w].at \in {"idle", "call"}
          /\ v # w => worker'[v] = worker[v]
      BY <2>7, ReadStarts, CallStarts
    <3> QED
      BY <2>2, <2>3, <3>1 DEF Kept
  <2>8. CASE EndPreview(w) \/ NativeFails(w) \/ CallsOn(w)
    <3>1. UNCHANGED files /\ Advanced(w)
      BY <2>8, EndSteps, CallSteps
    <3> QED
      BY <2>2, <2>3, <3>1 DEF Advanced
  <2>9. CASE RemoveStack(w)
    <3>1. /\ UNCHANGED files /\ worker'[w].at = "idle"
          /\ v # w => worker'[v] \in {worker[v], [worker[v] EXCEPT !.stale = TRUE]}
      BY <2>9, RemoveSteps DEF TypeOK, WorkerState
    <3> QED
      BY <2>2, <2>3, <3>1
  <2> QED
    BY <2>1, <2>4, <2>5, <2>6, <2>7, <2>8, <2>9 DEF Steps
<1> QED
  BY <1>1, <1>2

(* What a worker cannot read it does not overwrite, for any number of      *)
(* workers and any stack names.                                            *)
THEOREM SpecUnreadKept == Spec => []UnreadKept
  BY InitUnreadKept, NextUnreadKept, SpecTypeOK, PTL DEF Spec

-----------------------------------------------------------------------------
(* Creating or selecting. While the command is under way it has one of two *)
(* calls left, and the second only when the stack is there.                *)

Creation == <<"init or select">>

Creating(w, state, kept) ==
  state.command = Creation /\ ~state.stale =>
    /\ state.stack \in Stack /\ state.at \in {"call", "idle"}
    /\ state.at = "call" => state.result = "none" /\ state.script \in {Creation, <<"select">>}
    /\ state.at = "idle" => state.result \in {"ok", "failed"}
    /\ state.result = "ok" \/ (state.at = "call" /\ state.script = <<"select">>) =>
         kept[EnvOf[w]][state.stack] # None

CreateInv == \A w \in Worker : Creating(w, worker[w], backend)

(* What a call writes is there, and elsewhere nothing changes.             *)
LEMMA PutKeeps ==
  ASSUME TypeOK, NEW w \in Worker, worker[w].at = "call", NEW entry \in CliStack,
         Put(w, entry), NEW e \in Env, NEW s \in Stack
  PROVE  /\ backend[e][s] # None => backend'[e][s] # None
         /\ e = CallEnv(w, Head(worker[w].script)) /\ s = worker[w].stack => backend'[e][s] # None
<1>1. entry # None
  BY AutomationAssumption
<1>2. backend \in [Env -> [Stack -> CliStack \cup {None}]]
  BY DEF TypeOK
<1> QED
  BY <1>1, <1>2, EnvsTyped DEF Put

LEMMA CreationCalls ==
  ASSUME TypeOK, NEW w \in Worker, CallsOn(w), Creating(w, worker[w], backend),
         worker[w].command = Creation, ~worker[w].stale
  PROVE  Creating(w, worker'[w], backend')
<1> DEFINE c == worker[w]
<1>1. /\ c.at = "call" /\ c.stack \in Stack /\ c.result = "none" /\ c.script \in {Creation, <<"select">>}
      /\ c.script = <<"select">> => backend[EnvOf[w]][c.stack] # None
      /\ EnvOf[w] \in Env
  BY CallSteps, EnvsTyped DEF Creating
<1>2. /\ Head(Creation) = "init or select" /\ Tail(Creation) = <<>>
      /\ Head(<<"select">>) = "select" /\ Tail(<<"select">>) = <<>> /\ <<"select">> # Creation
  <2>1. \A op \in CallName : Tail(<<op>>) = <<>> /\ Head(<<op>>) = op
    <3> SUFFICES ASSUME NEW op \in CallName PROVE Tail(<<op>>) = <<>> /\ Head(<<op>>) = op
      OBVIOUS
    <3>1. <<op>> \in Seq(CallName) /\ <<op>> # <<>> /\ Len(<<op>>) = 1 /\ Head(<<op>>) = op
      BY ScriptsTyped
    <3>2. Tail(<<op>>) \in Seq(CallName) /\ Len(Tail(<<op>>)) = 0
      BY <3>1, HeadTailProperties
    <3> QED
      BY <3>1, <3>2, EmptySeq
  <2>2. "init or select" \in CallName /\ "select" \in CallName
    BY DEF CallName
  <2>3. <<"select">> # <<"init or select">>
    OBVIOUS
  <2> QED
    BY <2>1, <2>2, <2>3 DEF Creation
<1>3. Head(c.script) \in {"init or select", "select"} /\ Tail(c.script) = <<>>
  BY <1>1, <1>2
<1>4. CallEnv(w, Head(c.script)) = EnvOf[w] /\ StackOf(w) = backend[EnvOf[w]][c.stack]
  BY <1>3 DEF CallEnv, Lifecycle, StackOf
<1>5. CreateStack(w) \/ SelectStack(w) \/ CallFails(w)
  BY <1>3 DEF CallsOn, EditConfig, GetConfig, Up, Preview, Destroy, Ask, ImportState, Call
<1>6. CASE CallFails(w)
  <2>1. /\ Advanced(w) /\ worker'[w].at = "idle" /\ worker'[w].result = "failed"
    BY <1>6, FinishAdvances DEF CallFails, Results
  <2> QED
    BY <1>1, <2>1 DEF Creating, Advanced
<1>7. ASSUME GoOn(w), backend'[EnvOf[w]][c.stack] # None
      PROVE  Creating(w, worker'[w], backend')
  <2>1. Advanced(w) /\ worker'[w].at = "idle" /\ worker'[w].result = "ok"
    BY <1>3, <1>7, FinishAdvances DEF GoOn, Results
  <2> QED
    BY <1>1, <1>7, <2>1 DEF Creating, Advanced
<1>8. CASE SelectStack(w)
  <2>1. c.script = <<"select">>
    BY <1>1, <1>2, <1>8 DEF SelectStack, Call
  <2>2. GoOn(w) /\ UNCHANGED backend
    BY <1>1, <1>4, <1>8, <2>1 DEF SelectStack
  <2> QED
    BY <1>1, <1>7, <2>1, <2>2
<1>9. CASE CreateStack(w)
  <2>1. c.script = Creation
    BY <1>1, <1>2, <1>9 DEF CreateStack, Call
  <2>2. CASE Put(w, NewStack) /\ GoOn(w)
    <3>1. NewStack \in CliStack
      BY SettingsTyped DEF NewStack
    <3>2. backend'[EnvOf[w]][c.stack] # None
      BY <1>1, <1>4, <2>2, <3>1, PutKeeps
    <3> QED
      BY <1>7, <2>2, <3>2
  <2>3. CASE StackOf(w) # None /\ AfterExists(w) /\ UNCHANGED backend
    <3>1. worker' = [worker EXCEPT ![w].script = <<"select">>]
      BY <1>2, <2>1, <2>3 DEF AfterExists
    <3>2. <<"select">> \in Seq(CallName) /\ <<"select">> # <<>>
      BY ScriptsTyped DEF CallName
    <3>3. /\ Advanced(w) /\ worker'[w].at = "call" /\ worker'[w].result = "none"
          /\ worker'[w].script = <<"select">>
      BY <1>1, <3>1, <3>2, NextCallAdvances
    <3> QED
      BY <1>1, <1>4, <2>3, <3>3 DEF Creating, Advanced
  <2> QED
    BY <1>9, <2>2, <2>3 DEF CreateStack
<1> QED
  BY <1>5, <1>6, <1>8, <1>9

THEOREM InitCreateInv == Init => CreateInv
<1>1. Creation # <<>>
  BY DEF Creation
<1> QED
  BY <1>1 DEF Init, CreateInv, Creating, Resting

THEOREM NextCreateInv == TypeOK /\ CreateInv /\ [Next]_vars => CreateInv'
<1> SUFFICES ASSUME TypeOK, CreateInv, [Next]_vars PROVE CreateInv'
  OBVIOUS
<1>0. /\ Creation # <<>> /\ Creation # <<"select">>
      /\ Head(Creation) = "init or select" /\ Head(<<"select">>) = "select"
  BY DEF Creation
<1>1. CASE UNCHANGED vars
  BY <1>1 DEF vars, CreateInv, Creating
<1>2. CASE Next
  <2>1. PICK w \in Worker : Steps(w)
    BY <1>2, NextSteps
  <2>2. ASSUME UNCHANGED backend, NEW v \in Worker \ {w},
               worker'[v] \in {worker[v], [worker[v] EXCEPT !.stale = TRUE]}
        PROVE  Creating(v, worker'[v], backend')
    <3>1. Creating(v, worker[v], backend) /\ worker[v] \in WorkerState
      BY DEF CreateInv, TypeOK
    <3>2. Creating(v, [worker[v] EXCEPT !.stale = TRUE], backend')
      BY <3>1, StaleTyped DEF Creating
    <3> QED
      BY <2>2, <3>1, <3>2
  <2>3. CASE \/ \E s \in Stack, key \in Key, setting \in Setting \cup {None} :
                  BeginEdit(w, s, key, setting)
             \/ \E s \in Stack : ReadSettings(w, s)
             \/ \E s \in Stack, op \in Lifecycle : BeginNative(w, s, op)
    <3>1. /\ UNCHANGED backend /\ worker'[w].command = <<>>
          /\ \A v \in Worker \ {w} : worker'[v] = worker[v]
      BY <2>3, EditStarts, ReadStarts, NativeStarts
    <3>2. Creating(w, worker'[w], backend')
      BY <1>0, <3>1 DEF Creating
    <3> QED
      BY <2>2, <3>1, <3>2 DEF CreateInv
  <2>4. CASE \E s \in Stack, script \in Scripts, key \in Key \cup {None},
               setting \in Setting \cup {None} : Begin(w, s, script, key, setting)
    <3>1. PICK s \in Stack, script \in Scripts, key \in Key \cup {None},
               setting \in Setting \cup {None} : Begin(w, s, script, key, setting)
      BY <2>4
    <3>2. /\ UNCHANGED backend /\ worker'[w].command = script /\ worker'[w].script = script
          /\ worker'[w].at = "call" /\ worker'[w].result = "none" /\ worker'[w].stack = s
          /\ \A v \in Worker \ {w} : worker'[v] = worker[v]
      BY <3>1, CallStarts
    <3>3. Creating(w, worker'[w], backend')
      BY <1>0, <3>2 DEF Creating
    <3> QED
      BY <2>2, <3>2, <3>3 DEF CreateInv
  <2>5. CASE \/ TruncateSettings(w) \/ WriteSettings(w) \/ TruncateCheckpoint(w)
             \/ WriteCheckpoint(w) \/ EndPreview(w) \/ NativeFails(w)
    <3>1. /\ UNCHANGED backend /\ worker[w].at \in {"edit", "write", "run", "save"}
          /\ \A v \in Worker \ {w} : worker'[v] \in {worker[v], [worker[v] EXCEPT !.stale = TRUE]}
      BY <2>5, WriteSteps, EndSteps DEF Advanced, TruncateSettings, WriteSettings,
         TruncateCheckpoint, WriteCheckpoint
    <3>2. worker'[w].command = worker[w].command /\ worker'[w].stale = worker[w].stale
      <4>1. CASE EndPreview(w) \/ NativeFails(w)
        BY <4>1, EndSteps DEF Advanced
      <4>2. CASE TruncateSettings(w) \/ WriteSettings(w) \/ TruncateCheckpoint(w) \/ WriteCheckpoint(w)
        BY <4>2, WriteSteps
      <4> QED
        BY <2>5, <4>1, <4>2
    <3>3. ~(worker[w].command = Creation /\ ~worker[w].stale)
      BY <3>1 DEF CreateInv, Creating
    <3>4. Creating(w, worker'[w], backend')
      BY <3>2, <3>3 DEF Creating
    <3> QED
      BY <2>2, <3>1, <3>4 DEF CreateInv
  <2>6. CASE CallsOn(w)
    <3>1. /\ worker[w].at = "call" /\ Advanced(w)
          /\ UNCHANGED backend \/ \E entry \in CliStack : Put(w, entry)
      BY <2>6, CallSteps
    <3>2. Creating(w, worker'[w], backend')
      <4>1. CASE worker[w].command = Creation /\ ~worker[w].stale
        BY <2>6, <4>1, CreationCalls DEF CreateInv
      <4>2. CASE ~(worker[w].command = Creation /\ ~worker[w].stale)
        BY <3>1, <4>2 DEF Creating, Advanced
      <4> QED
        BY <4>1, <4>2
    <3>3. ASSUME NEW v \in Worker \ {w} PROVE Creating(v, worker'[v], backend')
      <4>1. worker'[v] = worker[v] /\ EnvOf[v] \in Env /\ Creating(v, worker[v], backend)
        BY <3>1 DEF Advanced, Env, CreateInv
      <4>2. \A s \in Stack : backend[EnvOf[v]][s] # None => backend'[EnvOf[v]][s] # None
        BY <3>1, <4>1, PutKeeps
      <4> QED
        BY <4>1, <4>2 DEF Creating
    <3> QED
      BY <3>2, <3>3 DEF CreateInv
  <2>7. CASE RemoveStack(w)
    <3>1. /\ worker[w].at = "call" /\ Put(w, None) /\ Head(worker[w].script) \in {"rm", "rm --force"}
          /\ worker[w] \in WorkerState
      BY <2>7, RemoveSteps DEF RemoveStack, Call, TypeOK
    <3>2. Creating(w, worker'[w], backend')
      <4>1. worker'[w] = [worker[w] EXCEPT !.at = "idle", !.script = <<>>, !.result = "ok"]
        BY <2>7, RemoveSteps
      <4>2. worker'[w].command = worker[w].command /\ worker'[w].stale = worker[w].stale
        BY <3>1, <4>1 DEF WorkerState
      <4>3. ~(worker[w].command = Creation /\ ~worker[w].stale)
        BY <1>0, <3>1 DEF CreateInv, Creating
      <4> QED
        BY <4>2, <4>3 DEF Creating
    <3>3. ASSUME NEW v \in Worker \ {w} PROVE Creating(v, worker'[v], backend')
      <4>1. /\ EnvOf[v] \in Env /\ Creating(v, worker[v], backend) /\ worker[v] \in WorkerState
            /\ CallEnv(w, Head(worker[w].script)) = EnvOf[w] /\ EnvOf[w] \in Env
            /\ worker[w].stack \in Stack /\ backend \in [Env -> [Stack -> CliStack \cup {None}]]
        BY <3>1, EnvsTyped DEF Env, CreateInv, TypeOK, CallEnv, Lifecycle
      <4>2. CASE worker[v].stack = worker[w].stack /\ EnvOf[v] = EnvOf[w]
        <5>1. worker'[v] = [worker[v] EXCEPT !.stale = TRUE]
          BY <2>7, <4>2 DEF RemoveStack
        <5> QED
          BY <4>1, <5>1, StaleTyped DEF Creating
      <4>3. CASE ~(worker[v].stack = worker[w].stack /\ EnvOf[v] = EnvOf[w])
        <5>1. worker'[v] = worker[v]
          BY <2>7, <4>3 DEF RemoveStack
        <5>2. worker[v].stack \in Stack =>
                backend'[EnvOf[v]][worker[v].stack] = backend[EnvOf[v]][worker[v].stack]
          BY <3>1, <4>1, <4>3 DEF Put
        <5> QED
          BY <4>1, <5>1, <5>2 DEF Creating
      <4> QED
        BY <4>2, <4>3
    <3> QED
      BY <3>2, <3>3 DEF CreateInv
  <2> QED
    BY <2>1, <2>3, <2>4, <2>5, <2>6, <2>7 DEF Steps
<1> QED
  BY <1>1, <1>2

(* create_or_select_stack ends with a stack that is there, for any number  *)
(* of workers that create, select and remove stacks meanwhile.             *)
THEOREM SpecStackIsThere == Spec => []StackIsThere
<1>1. TypeOK /\ CreateInv => StackIsThere
  BY DEF CreateInv, Creating, Creation, StackIsThere
<1> QED
  BY <1>1, InitCreateInv, NextCreateInv, SpecTypeOK, PTL DEF Spec

-----------------------------------------------------------------------------
(* Settings. A stack nobody has disturbed has at most one worker editing   *)
(* it, whose new settings are those completed and its own; its file holds  *)
(* what has been completed, unless it is being written and empty. And a    *)
(* checkpoint being written lies on no undisturbed stack's settings.       *)

EditsOf(state, s) == state.stack = s /\ state.at \in {"edit", "write"}
WritesTo(state, s) == state.stack = s /\ state.at = "write"

Tidy(s) ==
  /\ \A v, w \in Worker : EditsOf(worker[v], s) /\ EditsOf(worker[w], s) => v = w
  /\ \A w \in Worker : EditsOf(worker[w], s) =>
       worker[w].config = Edited(truth[s], worker[w].key, worker[w].setting)
  /\ \A w \in Worker : WritesTo(worker[w], s) => files[ConfigPath(s)] = Empty
  /\ (\A w \in Worker : ~WritesTo(worker[w], s)) =>
       files[ConfigPath(s)] \in Config \cup {None} /\ Loaded(files[ConfigPath(s)]) = truth[s]

SavesKnown ==
  \A w \in Worker, s \in Stack :
    worker[w].at = "save" /\ ConfigPath(s) = CheckpointPath(worker[w].stack) => s \in disturbed

EditsInv ==
  /\ \A s \in Stack \ disturbed : Tidy(s)
  /\ SavesKnown
  /\ SettingsReachProgram

LEMMA ConfigPathsDiffer ==
  ASSUME NEW s \in Stack, NEW t \in Stack, ConfigPath(s) = ConfigPath(t) PROVE s = t
<1> DEFINE S == STRING \cup {"config", "json"}
           suffix == <<"config", "json">>
<1>1. s \in Seq(S) /\ t \in Seq(S)
  <2>1. s \in Seq(STRING) /\ t \in Seq(STRING)
    BY AutomationAssumption
  <2> QED
    BY <2>1, SeqMonotonic
<1>2. suffix \in Seq(S)
  OBVIOUS
<1>3. s \o suffix = t \o suffix
  BY DEF ConfigPath
<1> HIDE DEF S, suffix
<1>4. \A a, b, c \in Seq(S) : a \o c = b \o c => a = b
  BY ConcatSimplifications
<1> QED
  BY <1>1, <1>2, <1>3, <1>4

(* What an edit is, and what its worker has seen.                          *)
Alike(a, b) ==
  /\ a.at = b.at /\ a.stack = b.stack /\ a.config = b.config /\ a.key = b.key
  /\ a.setting = b.setting /\ a.seen = b.seen /\ a.due = b.due

LEMMA OthersAlike ==
  ASSUME TypeOK, NEW w \in Worker, Steps(w), NEW v \in Worker \ {w}
  PROVE  Alike(worker'[v], worker[v])
<1>1. worker'[v] \in {worker[v], [worker[v] EXCEPT !.stale = TRUE]}
  <2>1. CASE \/ \E s \in Stack, key \in Key, setting \in Setting \cup {None} :
                  BeginEdit(w, s, key, setting)
             \/ \E s \in Stack : ReadSettings(w, s)
             \/ \E s \in Stack, op \in Lifecycle : BeginNative(w, s, op)
             \/ \E s \in Stack, script \in Scripts, key \in Key \cup {None},
                   setting \in Setting \cup {None} : Begin(w, s, script, key, setting)
    BY <2>1, EditStarts, ReadStarts, NativeStarts, CallStarts
  <2>2. CASE TruncateSettings(w) \/ WriteSettings(w) \/ TruncateCheckpoint(w) \/ WriteCheckpoint(w)
    BY <2>2, WriteSteps
  <2>3. CASE EndPreview(w) \/ NativeFails(w) \/ CallsOn(w) \/ RemoveStack(w)
    BY <2>3, EndSteps, CallSteps, RemoveSteps DEF Advanced
  <2> QED
    BY <2>1, <2>2, <2>3 DEF Steps
<1>2. worker[v] \in WorkerState
  BY DEF TypeOK
<1> QED
  BY <1>1, <1>2, StaleTyped DEF Alike

(* A stack whose file and truth stay, and whose editor, if it moves at all,*)
(* only gives up before it has begun to write.                             *)
LEMMA TidyStill ==
  ASSUME NEW s, Tidy(s), NEW w \in Worker,
         \A v \in Worker \ {w} : Alike(worker'[v], worker[v]),
         files'[ConfigPath(s)] = files[ConfigPath(s)], truth'[s] = truth[s],
         \/ Alike(worker'[w], worker[w])
         \/ ~EditsOf(worker'[w], s) /\ ~WritesTo(worker[w], s)
  PROVE  Tidy(s)'
<1>1. \A v \in Worker : EditsOf(worker'[v], s) => EditsOf(worker[v], s) /\ Alike(worker'[v], worker[v])
  BY DEF Alike, EditsOf
<1>2. \A v \in Worker : WritesTo(worker'[v], s) <=> WritesTo(worker[v], s)
  BY DEF Alike, EditsOf, WritesTo
<1>3. \A v, u \in Worker : EditsOf(worker'[v], s) /\ EditsOf(worker'[u], s) => v = u
  BY <1>1 DEF Tidy
<1>4. \A v \in Worker : EditsOf(worker'[v], s) =>
        worker'[v].config = Edited(truth'[s], worker'[v].key, worker'[v].setting)
  BY <1>1 DEF Tidy, Alike
<1> QED
  BY <1>2, <1>3, <1>4 DEF Tidy

LEMMA LoadsIs ==
  \A content : /\ content \in Config \cup {None} <=> Loads(content)
               /\ content \in Config => Loaded(content) = content
               /\ ~Loads(Empty)
  BY AutomationAssumption DEF Loads, Loaded

THEOREM InitEditsInv == Init => EditsInv
<1> SUFFICES ASSUME Init PROVE EditsInv
  OBVIOUS
<1>1. \A w \in Worker : worker[w].at = "idle" /\ worker[w].seen \in worker[w].due
  BY DEF Init, Resting
<1>2. \A s \in Stack : files[ConfigPath(s)] = None /\ truth[s] = NoSettings /\ Loaded(None) = NoSettings
  BY PathsTyped, AutomationAssumption DEF Init, Loaded
<1>3. \A s \in Stack : Tidy(s)
  BY <1>1, <1>2 DEF Tidy, EditsOf, WritesTo
<1> QED
  BY <1>1, <1>3 DEF EditsInv, SavesKnown, SettingsReachProgram

(* An edit begins: it is the stack's only one, or disturbs it.             *)
LEMMA EditBegins ==
  ASSUME TypeOK, EditsInv, NEW w \in Worker, NEW t \in Stack, NEW key \in Key,
         NEW setting \in Setting \cup {None}, BeginEdit(w, t, key, setting)
  PROVE  EditsInv'
<1>1. /\ UNCHANGED <<files, backend, truth>> /\ Loads(files[ConfigPath(t)])
      /\ disturbed' = IF Editing(t) = {} THEN disturbed ELSE disturbed \cup {t}
      /\ worker'[w].at = "edit" /\ worker'[w].stack = t
      /\ worker'[w].config = Edited(Loaded(files[ConfigPath(t)]), worker'[w].key, worker'[w].setting)
      /\ worker'[w].seen \in worker'[w].due
      /\ \A v \in Worker \ {w} : worker'[v] = worker[v]
  BY EditStarts
<1>2. worker[w].at = "idle"
  BY DEF BeginEdit, Start
<1>3. ASSUME NEW s \in Stack \ disturbed', s # t PROVE Tidy(s)'
  <2>1. ~EditsOf(worker'[w], s) /\ ~WritesTo(worker[w], s)
    BY <1>1, <1>2, <1>3 DEF EditsOf, WritesTo
  <2>2. Tidy(s)
    BY <1>1, <1>3 DEF EditsInv
  <2> QED
    BY <1>1, <2>1, <2>2, TidyStill DEF Alike
<1>4. ASSUME t \notin disturbed' PROVE Tidy(t)'
  <2>1. \A v \in Worker : ~EditsOf(worker[v], t) /\ ~WritesTo(worker[v], t)
    BY <1>1, <1>4 DEF Editing, EditsOf, WritesTo
  <2>2. Tidy(t)
    BY <1>1, <1>4 DEF EditsInv
  <2>3. files[ConfigPath(t)] \in Config \cup {None} /\ Loaded(files[ConfigPath(t)]) = truth[t]
    BY <2>1, <2>2 DEF Tidy
  <2>4. /\ \A v \in Worker : EditsOf(worker'[v], t) => v = w
        /\ \A v \in Worker : ~WritesTo(worker'[v], t)
    BY <1>1, <2>1 DEF EditsOf, WritesTo
  <2> QED
    BY <1>1, <2>3, <2>4 DEF Tidy
<1>5. SavesKnown'
  BY <1>1 DEF EditsInv, SavesKnown
<1>6. SettingsReachProgram'
  BY <1>1 DEF EditsInv, SettingsReachProgram
<1> QED
  BY <1>3, <1>4, <1>5, <1>6 DEF EditsInv

(* A worker that starts to read, to run or to call edits nothing, and sees *)
(* what has been completed.                                                *)
LEMMA OtherBegins ==
  ASSUME TypeOK, EditsInv, NEW w \in Worker,
         \/ \E s \in Stack : ReadSettings(w, s)
         \/ \E s \in Stack, op \in Lifecycle : BeginNative(w, s, op)
         \/ \E s \in Stack, script \in Scripts, key \in Key \cup {None},
               setting \in Setting \cup {None} : Begin(w, s, script, key, setting)
  PROVE  EditsInv'
<1>1. /\ UNCHANGED <<files, truth, disturbed>> /\ worker'[w].at \in {"idle", "run", "call"}
      /\ \A v \in Worker \ {w} : worker'[v] = worker[v]
  BY ReadStarts, NativeStarts, CallStarts DEF history
<1>2. worker[w].at = "idle"
  BY DEF ReadSettings, BeginNative, Begin, Start
<1>3. ASSUME NEW s \in Stack \ disturbed' PROVE Tidy(s)'
  <2>1. ~EditsOf(worker'[w], s) /\ ~WritesTo(worker[w], s)
    BY <1>1, <1>2 DEF EditsOf, WritesTo
  <2> QED
    BY <1>1, <1>3, <2>1, TidyStill DEF EditsInv, Alike
<1>4. SavesKnown'
  BY <1>1 DEF EditsInv, SavesKnown
<1>5. worker'[w].seen \in worker'[w].due
  <2>0. \A s : Loaded(files[ConfigPath(s)]) \in Config
    BY SettingsTyped
  <2>1. ASSUME NEW s \in Stack, ReadSettings(w, s) PROVE worker'[w].seen \in worker'[w].due
    <3>1. /\ Loads(files[ConfigPath(s)]) /\ worker'[w].seen = Loaded(files[ConfigPath(s)])
          /\ worker'[w].due = IF s \in disturbed THEN Config ELSE {truth[s]}
      BY <2>1, ReadStarts
    <3>2. s \notin disturbed => \A v \in Worker : ~WritesTo(worker[v], s)
      BY <3>1, LoadsIs DEF EditsInv, Tidy
    <3>3. s \notin disturbed => Loaded(files[ConfigPath(s)]) = truth[s]
      BY <3>2 DEF EditsInv, Tidy
    <3> QED
      BY <2>0, <3>1, <3>3
  <2>2. ASSUME NEW s \in Stack, NEW op \in Lifecycle, BeginNative(w, s, op)
        PROVE  worker'[w].seen \in worker'[w].due
    <3>1. /\ worker'[w].seen = Loaded(files[ConfigPath(s)])
          /\ worker'[w].due = IF s \in disturbed \/ HalfWritten(s) THEN Config ELSE {truth[s]}
      BY <2>2, NativeStarts
    <3>2. ~HalfWritten(s) => \A v \in Worker : ~WritesTo(worker[v], s)
      BY DEF HalfWritten, Editing, WritesTo
    <3>3. s \notin disturbed /\ ~HalfWritten(s) => Loaded(files[ConfigPath(s)]) = truth[s]
      BY <3>2 DEF EditsInv, Tidy
    <3> QED
      BY <2>0, <3>1, <3>3
  <2>3. ASSUME NEW s \in Stack, NEW script \in Scripts, NEW key \in Key \cup {None},
               NEW setting \in Setting \cup {None}, Begin(w, s, script, key, setting)
        PROVE  worker'[w].seen \in worker'[w].due
    BY <2>3, CallStarts
  <2> QED
    BY <2>1, <2>2, <2>3
<1>6. SettingsReachProgram'
  BY <1>1, <1>5 DEF EditsInv, SettingsReachProgram
<1> QED
  BY <1>3, <1>4, <1>6 DEF EditsInv

LEMMA OvertakingAt ==
  ASSUME TypeOK, NEW w \in Worker, NEW p, NEW at, NEW result, Overtaking(w, p, at, result)
  PROVE  worker'[w].at = at
<1>1. worker'[w] = [worker[w] EXCEPT !.at = at, !.result = result]
  BY DEF Overtaking
<1> QED
  BY <1>1 DEF TypeOK, WorkerState

(* A write of the settings empties the file, then fills it with what has   *)
(* been completed, this edit included.                                     *)
LEMMA SettingsWritten ==
  ASSUME TypeOK, EditsInv, NEW w \in Worker, TruncateSettings(w) \/ WriteSettings(w)
  PROVE  EditsInv'
<1> DEFINE new == worker[w].config
<1>0. PICK t \in Stack : t = worker[w].stack
  BY WriteSteps
<1>1. /\ t \in Stack /\ worker'[w].at \in {"write", "idle"} /\ worker'[w].stack = t
      /\ worker'[w].seen = worker[w].seen /\ worker'[w].due = worker[w].due
      /\ worker'[w].config = new /\ worker'[w].key = worker[w].key
      /\ worker'[w].setting = worker[w].setting
      /\ UNCHANGED disturbed /\ worker[w].at \in {"edit", "write"}
      /\ \A v \in Worker \ {w} : Alike(worker'[v], worker[v])
      /\ files \in [Path -> Content] /\ truth \in [Stack -> Config] /\ new \in Config
  <2>1. Steps(w)
    BY DEF Steps
  <2>2. \A v \in Worker \ {w} : Alike(worker'[v], worker[v])
    BY <2>1, OthersAlike
  <2>3. UNCHANGED disturbed /\ worker[w].at \in {"edit", "write"} /\ worker'[w].at \in {"write", "idle"}
    BY OvertakingAt DEF TruncateSettings, WriteSettings, history
  <2>4. files \in [Path -> Content] /\ truth \in [Stack -> Config] /\ new \in Config
    BY DEF TypeOK, Content, WorkerState
  <2> QED
    BY <1>0, <2>2, <2>3, <2>4, WriteSteps
<1> HIDE DEF new
<1>2. ASSUME NEW s \in Stack \ disturbed', s # t PROVE Tidy(s)'
  <2>1. ~EditsOf(worker'[w], s) /\ ~WritesTo(worker[w], s)
    BY <1>0, <1>1, <1>2 DEF EditsOf, WritesTo
  <2>2. ConfigPath(s) # ConfigPath(t) /\ ConfigPath(s) \in Path
    BY <1>1, <1>2, ConfigPathsDiffer, PathsTyped
  <2>3. files'[ConfigPath(s)] = files[ConfigPath(s)] /\ truth'[s] = truth[s]
    BY <1>0, <1>1, <1>2, <2>2 DEF TruncateSettings, WriteSettings, history
  <2> QED
    BY <1>1, <1>2, <2>1, <2>3, TidyStill DEF EditsInv
<1>3. ASSUME t \notin disturbed' PROVE Tidy(t)'
  <2>1. Tidy(t) /\ EditsOf(worker[w], t)
    BY <1>0, <1>1, <1>3 DEF EditsInv, EditsOf
  <2>2. \A v \in Worker \ {w} : ~EditsOf(worker'[v], t)
    BY <1>1, <2>1 DEF Tidy, EditsOf, Alike
  <2>3. new = Edited(truth[t], worker[w].key, worker[w].setting)
    BY <2>1 DEF Tidy, new
  <2>4. ConfigPath(t) \in Path
    BY <1>1, PathsTyped
  <2>5. CASE TruncateSettings(w)
    <3>1. worker'[w].at = "write" /\ files'[ConfigPath(t)] = Empty /\ truth' = truth
      BY <1>0, <1>1, <2>4, <2>5, OvertakingAt DEF TruncateSettings, history
    <3>2. WritesTo(worker'[w], t)
      BY <1>1, <3>1 DEF WritesTo
    <3>3. worker'[w].config = Edited(truth'[t], worker'[w].key, worker'[w].setting)
      BY <1>1, <2>3, <3>1
    <3> QED
      BY <2>2, <3>1, <3>2, <3>3 DEF Tidy
  <2>6. CASE WriteSettings(w)
    <3>1. files[ConfigPath(t)] = Empty
      BY <1>0, <2>1, <2>6 DEF Tidy, WritesTo, WriteSettings
    <3>2. worker'[w].at = "idle" /\ files'[ConfigPath(t)] = new
      <4>1. worker'[w].at = "idle" /\ \E content \in Written(files[ConfigPath(t)], new) :
                                       files' = [files EXCEPT ![ConfigPath(t)] = content]
        BY <1>0, <2>6, OvertakingAt DEF WriteSettings, new
      <4>2. Written(files[ConfigPath(t)], new) = {new}
        BY <3>1 DEF Written
      <4> QED
        BY <1>1, <2>4, <4>1, <4>2
    <3>3. truth'[t] = new
      <4>1. truth' = [truth EXCEPT ![t] = [truth[t] EXCEPT ![worker[w].key] = worker[w].setting]]
        BY <1>0, <1>1, <2>6 DEF WriteSettings
      <4> QED
        BY <1>1, <2>3, <4>1 DEF Edited
    <3>4. \A v \in Worker : ~EditsOf(worker'[v], t)
      BY <2>2, <3>2 DEF EditsOf
    <3>5. \A v \in Worker : ~WritesTo(worker'[v], t)
      BY <3>4 DEF EditsOf, WritesTo
    <3>6. files'[ConfigPath(t)] \in Config \cup {None} /\ Loaded(files'[ConfigPath(t)]) = truth'[t]
      BY <1>1, <3>2, <3>3, LoadsIs
    <3> QED
      BY <3>4, <3>5, <3>6 DEF Tidy
  <2> QED
    BY <2>5, <2>6
<1>4. SavesKnown'
  BY <1>1 DEF EditsInv, SavesKnown, Alike
<1>5. SettingsReachProgram'
  BY <1>1 DEF EditsInv, SettingsReachProgram, Alike
<1> QED
  BY <1>1, <1>2, <1>3, <1>4, <1>5 DEF EditsInv

(* A write of a checkpoint disturbs the stack whose settings lie there.    *)
LEMMA CheckpointWritten ==
  ASSUME TypeOK, EditsInv, NEW w \in Worker, TruncateCheckpoint(w) \/ WriteCheckpoint(w)
  PROVE  EditsInv'
<1> DEFINE p == CheckpointPath(worker[w].stack)
<1>1. /\ worker'[w].at \in {"save", "idle"} /\ worker'[w].stack = worker[w].stack
      /\ worker'[w].seen = worker[w].seen /\ worker'[w].due = worker[w].due
      /\ worker[w].at \in {"run", "save"} /\ UNCHANGED truth
      /\ disturbed \subseteq disturbed'
      /\ \A s \in Stack : worker'[w].at = "save" /\ ConfigPath(s) = p => s \in disturbed'
      /\ \A s \in Stack \ disturbed' : ConfigPath(s) # p
      /\ \A q \in Path \ {p} : files'[q] = files[q]
      /\ \A v \in Worker \ {w} : Alike(worker'[v], worker[v])
  <2>1. Steps(w)
    BY DEF Steps
  <2>2. \A v \in Worker \ {w} : Alike(worker'[v], worker[v])
    BY <2>1, OthersAlike
  <2>3. worker[w].at \in {"run", "save"} /\ UNCHANGED truth /\ worker'[w].at \in {"save", "idle"}
    BY OvertakingAt DEF TruncateCheckpoint, WriteCheckpoint, history
  <2>4. \A q \in Path \ {p} : files'[q] = files[q]
    BY DEF TypeOK, TruncateCheckpoint, WriteCheckpoint
  <2>5. CASE TruncateCheckpoint(w)
    <3>1. disturbed' = disturbed \cup {s \in Stack : ConfigPath(s) = p}
      BY <2>5 DEF TruncateCheckpoint
    <3> QED
      BY <2>2, <2>3, <2>4, <3>1, WriteSteps
  <2>6. CASE WriteCheckpoint(w)
    <3>1. UNCHANGED disturbed /\ worker[w].at = "save" /\ worker'[w].at = "idle"
      BY <2>6, OvertakingAt DEF WriteCheckpoint, history
    <3>2. \A s \in Stack \ disturbed : ConfigPath(s) # p
      BY <3>1 DEF EditsInv, SavesKnown
    <3> QED
      BY <2>2, <2>3, <2>4, <3>1, <3>2, WriteSteps
  <2> QED
    BY <2>5, <2>6
<1> HIDE DEF p
<1>2. ASSUME NEW s \in Stack \ disturbed' PROVE Tidy(s)'
  <2>1. ~EditsOf(worker'[w], s) /\ ~WritesTo(worker[w], s)
    BY <1>1 DEF EditsOf, WritesTo
  <2>2. files'[ConfigPath(s)] = files[ConfigPath(s)]
    BY <1>1, PathsTyped
  <2>3. Tidy(s)
    BY <1>1 DEF EditsInv
  <2> QED
    BY <1>1, <2>1, <2>2, <2>3, TidyStill
<1>3. SavesKnown'
  BY <1>1 DEF EditsInv, SavesKnown, Alike, p
<1>4. SettingsReachProgram'
  BY <1>1 DEF EditsInv, SettingsReachProgram, Alike
<1> QED
  BY <1>2, <1>3, <1>4 DEF EditsInv

(* Other steps write no file; a writer that fails disturbs its stack.      *)
LEMMA OtherSteps ==
  ASSUME TypeOK, EditsInv, NEW w \in Worker,
         EndPreview(w) \/ NativeFails(w) \/ CallsOn(w) \/ RemoveStack(w)
  PROVE  EditsInv'
<1>1. /\ UNCHANGED <<files, truth>> /\ disturbed \subseteq disturbed'
      /\ worker'[w].at \in {"idle", "call"}
      /\ worker[w].at = "write" => worker[w].stack \in disturbed'
      /\ worker'[w].seen \in worker'[w].due
  <2>0. worker[w].seen \in worker[w].due /\ worker[w] \in WorkerState
    BY DEF EditsInv, SettingsReachProgram, TypeOK
  <2>1. CASE EndPreview(w) \/ NativeFails(w)
    BY <2>0, <2>1, EndSteps DEF Advanced
  <2>2. CASE CallsOn(w)
    BY <2>0, <2>2, CallSteps DEF Advanced, history
  <2>3. CASE RemoveStack(w)
    <3>1. /\ worker[w].at = "call" /\ UNCHANGED <<files, history>>
          /\ worker'[w] = [worker[w] EXCEPT !.at = "idle", !.script = <<>>, !.result = "ok"]
      BY <2>3, RemoveSteps
    <3>2. worker'[w].at = "idle" /\ worker'[w].seen = worker[w].seen /\ worker'[w].due = worker[w].due
      BY <2>0, <3>1 DEF WorkerState
    <3> QED
      BY <2>0, <3>1, <3>2 DEF history
  <2> QED
    BY <2>1, <2>2, <2>3
<1>2. \A v \in Worker \ {w} : Alike(worker'[v], worker[v])
  <2>1. Steps(w)
    BY DEF Steps
  <2> QED
    BY <2>1, OthersAlike
<1>3. ASSUME NEW s \in Stack \ disturbed' PROVE Tidy(s)'
  <2>1. ~EditsOf(worker'[w], s) /\ ~WritesTo(worker[w], s)
    BY <1>1 DEF EditsOf, WritesTo
  <2>2. Tidy(s)
    BY <1>1 DEF EditsInv
  <2> QED
    BY <1>1, <1>2, <2>1, <2>2, TidyStill
<1>4. SavesKnown'
  BY <1>1, <1>2 DEF EditsInv, SavesKnown, Alike
<1>5. SettingsReachProgram'
  BY <1>1, <1>2 DEF EditsInv, SettingsReachProgram, Alike
<1> QED
  BY <1>3, <1>4, <1>5 DEF EditsInv

THEOREM NextEditsInv == TypeOK /\ EditsInv /\ [Next]_vars => EditsInv'
<1> SUFFICES ASSUME TypeOK, EditsInv, [Next]_vars PROVE EditsInv'
  OBVIOUS
<1>1. CASE UNCHANGED vars
  BY <1>1 DEF vars, EditsInv, SavesKnown, SettingsReachProgram, Tidy
<1>2. CASE Next
  <2>1. PICK w \in Worker : Steps(w)
    BY <1>2, NextSteps
  <2> QED
    BY <2>1, EditBegins, OtherBegins, SettingsWritten, CheckpointWritten, OtherSteps DEF Steps
<1> QED
  BY <1>1, <1>2

(* What has been set is what a program finds, for any number of workers,   *)
(* stacks and settings, wherever nothing has disturbed the stack.          *)
THEOREM SpecSettingsReachProgram == Spec => []SettingsReachProgram
<1>1. EditsInv => SettingsReachProgram
  BY DEF EditsInv
<1> QED
  BY <1>1, InitEditsInv, NextEditsInv, SpecTypeOK, PTL DEF Spec
=============================================================================
