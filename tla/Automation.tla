----------------------------- MODULE Automation -----------------------------
(***************************************************************************)
(* The automation API and the command line on top of it. Stacks are kept   *)
(* twice: by the pulumi CLI, which LocalWorkspace and Stack run for every  *)
(* call in a backend its environment selects, and by NativeStack in two    *)
(* files below the work directory. Several processes may use one work      *)
(* directory: nothing locks the files, and a command of two CLI calls may  *)
(* be overtaken between them.                                              *)
(*                                                                         *)
(* Secrets.tla has what the checkpoint holds; here it is there or not. The *)
(* CLI is external: each call is one step on its backend.                  *)
(***************************************************************************)
EXTENDS Naturals, Sequences

CONSTANTS
  Worker,     \* processes or tasks with a workspace of one directory
  Stack,      \* stack names, split at their dots
  Key,
  Setting,    \* configuration values, with their secret flags
  EnvOf,      \* [Worker -> the environment its workspace gives to the CLI]
  Plain,      \* the environment of the processes themselves
  None,       \* no file, no setting, no stack
  Empty,      \* a file truncated and not written yet
  Garbled,    \* a file two writers have written over one another
  Saved,      \* a checkpoint
  MaxOps      \* bound on the operations started

Env == {EnvOf[w] : w \in Worker} \cup {Plain}
Config == [Key -> Setting \cup {None}]
NoSettings == [k \in Key |-> None]

(* A stack in the CLI's backend.                                           *)
CliStack == [config : Config, deployed : BOOLEAN]

(* <stack>.config.json and <stack>.json below .pulumi-rs                   *)
ConfigPath(s) == s \o <<"config", "json">>
CheckpointPath(s) == s \o <<"json">>
Path == {ConfigPath(s) : s \in Stack} \cup {CheckpointPath(s) : s \in Stack}

ASSUME AutomationAssumption ==
  /\ Stack \subseteq Seq(STRING)
  /\ None \notin Setting
  /\ {None, Empty, Garbled, Saved} \cap Config = {}
  /\ Empty \notin {None, Garbled, Saved} /\ Garbled \notin {None, Saved} /\ Saved # None
  /\ None \notin Stack \cup Key \cup CliStack
  /\ MaxOps \in Nat

VARIABLES
  files,     \* [Path -> content]
  backend,   \* [Env -> [Stack -> the CLI's stack]]
  worker,    \* [Worker -> what it does]
  truth,     \* history: [Stack -> what set_config and remove_config made of it]
  disturbed, \* history: stacks whose settings two workers wrote at once, a
             \* writer left half written or another stack's checkpoint hit
  ops        \* operations started (bound)

vars == <<files, backend, worker, truth, disturbed, ops>>
history == <<truth, disturbed>>

-----------------------------------------------------------------------------
(* Operations. A command of the command line is a script of CLI calls.     *)

Lifecycle == {"up", "preview", "refresh", "destroy"}

(* Up, Preview, Destroy and Refresh without --native.                      *)
LifecycleArm == {<<"select", op>> : op \in Lifecycle}

StackArm == {<<"init">>, <<"query">>, <<"rm">>, <<"rm --force">>}
            \cup {<<"select", op>> : op \in {"output", "export", "import"}}

Edits == {<<"config set">>, <<"config rm">>}
ConfigArm == Edits \cup {<<"config">>}

(* whoami, logs and the plugins.                                           *)
OtherArm == {<<"query">>}

(* Through the API a handle may be used long after it was got.             *)
Calls == {<<op>> : op \in Lifecycle \cup {"output", "export", "import", "init or select"}}

CallName == Lifecycle \cup {"output", "export", "import", "init", "init or select", "select",
                            "rm", "rm --force", "query", "config", "config set", "config rm"}

Scripts == LifecycleArm \cup StackArm \cup ConfigArm \cup OtherArm \cup Calls

(* stale: history, another worker has written the file or removed the      *)
(* stack since this one read it or began.                                  *)
Resting == [at |-> "idle", command |-> <<>>, script |-> <<>>, stack |-> None, key |-> None,
            setting |-> None, config |-> NoSettings, stale |-> FALSE,
            result |-> "none", seen |-> NoSettings, due |-> {NoSettings}]

Start(w, state) ==
  /\ worker[w].at = "idle" /\ ops < MaxOps
  /\ ops' = ops + 1
  /\ worker' = [worker EXCEPT ![w] = state]

Finish(w, result) == worker' = [worker EXCEPT ![w].at = "idle", ![w].script = <<>>,
                                              ![w].result = result]

-----------------------------------------------------------------------------
(* The settings file of a native stack.                                    *)

Variant_LoadsAnything(content) == TRUE

(* load_config_map: any other file does not parse.                         *)
Loads(content) == content \in Config \cup {None}

Loaded(content) == IF content \in Config THEN content ELSE NoSettings

Editing(s) == {w \in Worker : worker[w].stack = s /\ worker[w].at \in {"edit", "write"}}

Variant_ForgetsOthers(config, key, setting) == [NoSettings EXCEPT ![key] = setting]

Edited(config, key, setting) == [config EXCEPT ![key] = setting]

(* set_config, or remove_config if the setting is None, up to the load.    *)
BeginEdit(w, s, key, setting) ==
  LET content == files[ConfigPath(s)] IN
  /\ Loads(content)
  /\ Start(w, [Resting EXCEPT !.at = "edit", !.stack = s, !.key = key, !.setting = setting,
                              !.config = Edited(Loaded(content), key, setting)])
  /\ disturbed' = IF Editing(s) = {} THEN disturbed ELSE disturbed \cup {s}
  /\ UNCHANGED <<files, backend, truth>>

(* Writing changes the file under whoever has read it.                     *)
PathOf(w) ==
  IF worker[w].at \in {"edit", "write"} THEN ConfigPath(worker[w].stack)
                                       ELSE CheckpointPath(worker[w].stack)
Reading(p) == {w \in Worker : worker[w].at \in {"edit", "write", "run", "save"} /\ PathOf(w) = p}

Overtaking(w, p, at, result) ==
  worker' = [v \in Worker |->
    IF v = w THEN [worker[w] EXCEPT !.at = at, !.result = result]
    ELSE IF v \in Reading(p) THEN [worker[v] EXCEPT !.stale = TRUE] ELSE worker[v]]

(* save_config_map: fs::write truncates the file, then writes.             *)
TruncateSettings(w) ==
  LET p == ConfigPath(worker[w].stack) IN
  /\ worker[w].at = "edit"
  /\ files' = [files EXCEPT ![p] = Empty]
  /\ Overtaking(w, p, "write", "none")
  /\ UNCHANGED <<backend, history, ops>>

(* Over what another has written since, or the other under this, the file  *)
(* may end up mixed.                                                       *)
Written(content, new) == IF content = Empty THEN {new} ELSE {new, Garbled}

WriteSettings(w) ==
  LET s == worker[w].stack
      p == ConfigPath(s)
  IN /\ worker[w].at = "write"
     /\ \E content \in Written(files[p], worker[w].config) :
          files' = [files EXCEPT ![p] = content]
     /\ truth' = [truth EXCEPT ![s][worker[w].key] = worker[w].setting]
     /\ Overtaking(w, p, "idle", "ok")
     /\ UNCHANGED <<backend, disturbed, ops>>

(* get_config, get_all_config                                              *)
ReadSettings(w, s) ==
  LET content == files[ConfigPath(s)] IN
  /\ Loads(content)
  /\ Start(w, [Resting EXCEPT !.stack = s, !.result = "ok", !.seen = Loaded(content),
                              !.due = IF s \in disturbed THEN Config ELSE {truth[s]}])
  /\ UNCHANGED <<files, backend, history>>

-----------------------------------------------------------------------------
(* An operation of the native engine.                                      *)

(* Whoever reads between the two steps of a write gets no settings.        *)
HalfWritten(s) == \E w \in Editing(s) : worker[w].at = "write"

(* engine_options: settings that cannot be read are no settings.           *)
OptionsConfig(content) == Loaded(content)

(* What the program finds in PULUMI_CONFIG.                                *)
ProgramSees(config) == config

LoadsCheckpoint(content) == content \in {None, Saved}

(* Destroy and refresh are done if there is no checkpoint.                 *)
BeginNative(w, s, op) ==
  /\ LoadsCheckpoint(files[CheckpointPath(s)])
  /\ op \in {"destroy", "refresh"} => files[CheckpointPath(s)] = Saved
  /\ Start(w, [Resting EXCEPT !.at = "run", !.stack = s, !.script = <<op>>,
         !.seen = ProgramSees(OptionsConfig(files[ConfigPath(s)])),
         !.due = IF s \in disturbed \/ HalfWritten(s) THEN Config ELSE {truth[s]}])
  /\ UNCHANGED <<files, backend, history>>

EndPreview(w) ==
  /\ worker[w].at = "run" /\ worker[w].script = <<"preview">>
  /\ Finish(w, "ok")
  /\ UNCHANGED <<files, backend, history, ops>>

(* The checkpoint of stack x.config is the settings file of stack x.       *)
TruncateCheckpoint(w) ==
  LET p == CheckpointPath(worker[w].stack) IN
  /\ worker[w].at = "run" /\ worker[w].script # <<"preview">>
  /\ files' = [files EXCEPT ![p] = Empty]
  /\ Overtaking(w, p, "save", "none")
  /\ disturbed' = disturbed \cup {s \in Stack : ConfigPath(s) = p}
  /\ UNCHANGED <<backend, truth, ops>>

WriteCheckpoint(w) ==
  LET p == CheckpointPath(worker[w].stack) IN
  /\ worker[w].at = "save"
  /\ \E content \in Written(files[p], Saved) : files' = [files EXCEPT ![p] = content]
  /\ Overtaking(w, p, "idle", "ok")
  /\ UNCHANGED <<backend, history, ops>>

(* The process is killed, the file cannot be written, or the engine fails. *)
NativeFails(w) ==
  /\ worker[w].at \in {"edit", "write", "run", "save"}
  /\ Finish(w, "failed")
  /\ disturbed' = IF worker[w].at = "write" THEN disturbed \cup {worker[w].stack} ELSE disturbed
  /\ UNCHANGED <<files, backend, truth, ops>>

-----------------------------------------------------------------------------
(* Calls of the pulumi CLI.                                                *)

Begin(w, s, script, key, setting) ==
  /\ Start(w, [Resting EXCEPT !.at = "call", !.stack = s, !.command = script,
                              !.script = script, !.key = key, !.setting = setting])
  /\ UNCHANGED <<files, backend, history>>

(* Stack's own calls get no environment of the workspace, unlike the       *)
(* configuration it delegates to the workspace.                            *)
CallEnv(w, call) ==
  IF call \in Lifecycle \cup {"output", "export", "import"} THEN Plain ELSE EnvOf[w]

Call(w, names) ==
  /\ worker[w].at = "call"
  /\ Head(worker[w].script) \in names

StackOf(w) == backend[CallEnv(w, Head(worker[w].script))][worker[w].stack]

Put(w, entry) ==
  backend' = [backend EXCEPT ![CallEnv(w, Head(worker[w].script))][worker[w].stack] = entry]

Variant_NeverDone(w) == worker' = [worker EXCEPT ![w].script = Tail(@)]

(* run_pulumi_cmd succeeded: the command goes on with its next call.       *)
GoOn(w) ==
  LET rest == Tail(worker[w].script) IN
  IF rest = <<>> THEN Finish(w, "ok")
  ELSE worker' = [worker EXCEPT ![w].script = rest]

NewStack == [config |-> NoSettings, deployed |-> FALSE]

Variant_NoSelect(w) == Finish(w, "exists")

(* create_or_select_stack: StackAlreadyExists makes it select the stack.   *)
AfterExists(w) ==
  IF Head(worker[w].script) = "init or select"
  THEN worker' = [worker EXCEPT ![w].script = <<"select">>]
  ELSE Finish(w, "exists")

CreateStack(w) ==
  /\ Call(w, {"init", "init or select"})
  /\ \/ StackOf(w) = None /\ Put(w, NewStack) /\ GoOn(w)
     \/ StackOf(w) # None /\ AfterExists(w) /\ UNCHANGED backend
  /\ UNCHANGED <<files, history, ops>>

SelectStack(w) ==
  /\ Call(w, {"select"})
  /\ IF StackOf(w) = None THEN Finish(w, "missing") ELSE GoOn(w)
  /\ UNCHANGED <<files, backend, history, ops>>

(* Without --force only a stack that has nothing deployed.                 *)
RemoveStack(w) ==
  LET s == worker[w].stack
      Lost(v) == v # w /\ worker[v].stack = s /\ EnvOf[v] = EnvOf[w]
  IN /\ Call(w, {"rm", "rm --force"})
     /\ StackOf(w) # None
     /\ Head(worker[w].script) = "rm --force" \/ ~StackOf(w).deployed
     /\ Put(w, None)
     /\ worker' = [v \in Worker |->
          IF v = w THEN [worker[w] EXCEPT !.at = "idle", !.script = <<>>, !.result = "ok"]
          ELSE IF Lost(v) THEN [worker[v] EXCEPT !.stale = TRUE] ELSE worker[v]]
     /\ UNCHANGED <<files, history, ops>>

EditConfig(w) ==
  /\ Call(w, {"config set", "config rm"})
  /\ StackOf(w) # None
  /\ Put(w, [StackOf(w) EXCEPT !.config =
               Edited(@, worker[w].key, IF Call(w, {"config rm"}) THEN None ELSE worker[w].setting)])
  /\ GoOn(w)
  /\ UNCHANGED <<files, history, ops>>

(* What it reads, and what the handle's set_config have made of it.        *)
ReadConfig(w, seen, due) ==
  worker' = [worker EXCEPT ![w].at = "idle", ![w].script = <<>>, ![w].result = "ok",
                           ![w].seen = seen, ![w].due = due]

(* In the workspace's environment if that is another: nothing is due.      *)
DueInCli(w) ==
  LET entry == backend[EnvOf[w]][worker[w].stack] IN
  IF EnvOf[w] = Plain /\ entry # None THEN {entry.config} ELSE Config

GetConfig(w) ==
  /\ Call(w, {"config"})
  /\ StackOf(w) # None
  /\ ReadConfig(w, StackOf(w).config, {backend[EnvOf[w]][worker[w].stack].config})
  /\ UNCHANGED <<files, backend, history, ops>>

(* Stack::up runs the program, then asks for the outputs: if that fails    *)
(* there are none, and up has still succeeded.                             *)
Up(w) ==
  /\ Call(w, {"up"})
  /\ StackOf(w) # None
  /\ Put(w, [StackOf(w) EXCEPT !.deployed = TRUE])
  /\ ReadConfig(w, StackOf(w).config, DueInCli(w))
  /\ UNCHANGED <<files, history, ops>>

Preview(w) ==
  /\ Call(w, {"preview"})
  /\ StackOf(w) # None
  /\ ReadConfig(w, StackOf(w).config, DueInCli(w))
  /\ UNCHANGED <<files, backend, history, ops>>

Destroy(w) ==
  /\ Call(w, {"destroy"})
  /\ StackOf(w) # None
  /\ Put(w, [StackOf(w) EXCEPT !.deployed = FALSE])
  /\ GoOn(w)
  /\ UNCHANGED <<files, history, ops>>

(* refresh, outputs, export_state and what asks for no stack.              *)
Ask(w) ==
  /\ Call(w, {"refresh", "output", "export", "query"})
  /\ Call(w, {"query"}) \/ StackOf(w) # None
  /\ GoOn(w)
  /\ UNCHANGED <<files, backend, history, ops>>

(* import_state does not pipe the state it is given to the CLI, which gets *)
(* whatever the process has on its own stdin.                              *)
ImportState(w) ==
  /\ Call(w, {"import"})
  /\ StackOf(w) # None
  /\ \E onStdin \in BOOLEAN : Put(w, [StackOf(w) EXCEPT !.deployed = onStdin])
  /\ GoOn(w)
  /\ UNCHANGED <<files, history, ops>>

(* No CLI, no such stack, a failing program, output that does not parse.   *)
CallFails(w) ==
  /\ worker[w].at = "call"
  /\ Finish(w, "failed")
  /\ UNCHANGED <<files, backend, history, ops>>

-----------------------------------------------------------------------------
Init ==
  /\ files = [p \in Path |-> None]
  /\ backend = [e \in Env |-> [s \in Stack |-> None]]
  /\ worker = [w \in Worker |-> Resting]
  /\ truth = [s \in Stack |-> NoSettings]
  /\ disturbed = {} /\ ops = 0

NativeStep(w) ==
  \/ \E s \in Stack, key \in Key, setting \in Setting \cup {None} : BeginEdit(w, s, key, setting)
  \/ \E s \in Stack : ReadSettings(w, s)
  \/ \E s \in Stack, op \in Lifecycle : BeginNative(w, s, op)
  \/ TruncateSettings(w) \/ WriteSettings(w)
  \/ EndPreview(w) \/ TruncateCheckpoint(w) \/ WriteCheckpoint(w)
  \/ NativeFails(w)

CliStep(w) ==
  \/ \E s \in Stack :
       \/ \E script \in Scripts \ Edits : Begin(w, s, script, None, None)
       \/ \E script \in Edits, key \in Key, setting \in Setting : Begin(w, s, script, key, setting)
  \/ CreateStack(w) \/ SelectStack(w) \/ RemoveStack(w)
  \/ EditConfig(w) \/ GetConfig(w)
  \/ Up(w) \/ Preview(w) \/ Destroy(w) \/ Ask(w) \/ ImportState(w)
  \/ CallFails(w)

Next == \E w \in Worker : NativeStep(w) \/ CliStep(w)

Spec == Init /\ [][Next]_vars

-----------------------------------------------------------------------------
WorkerState ==
  [at : {"idle", "edit", "write", "run", "save", "call"},
   command : {<<>>} \cup Scripts, script : Seq(CallName), stack : Stack \cup {None},
   key : Key \cup {None}, setting : Setting \cup {None}, config : Config, stale : BOOLEAN,
   result : {"none", "ok", "exists", "missing", "failed"}, seen : Config, due : SUBSET Config]

(* Every part of the state has its shape, and a command that is under way  *)
(* has a call to make (automation/stack.rs, workspace.rs, native.rs).      *)
TypeOK ==
  /\ files \in [Path -> Config \cup {None, Empty, Garbled, Saved}]
  /\ backend \in [Env -> [Stack -> CliStack \cup {None}]]
  /\ worker \in [Worker -> WorkerState]
  /\ truth \in [Stack -> Config]
  /\ disturbed \subseteq Stack /\ ops \in 0..MaxOps
  /\ \A w \in Worker :
       /\ worker[w].at = "call" => worker[w].script # <<>>
       /\ worker[w].at # "idle" => worker[w].stack # None

(* A program, or whoever reads the configuration, finds in it what the     *)
(* completed set_config and remove_config of the same handle have made of  *)
(* it (NativeStack, or Stack in the CLI's backend). Nothing else may be    *)
(* found unless two workers edited the settings at once, one stopped in    *)
(* the middle of its write or is there now, another stack's name ends in   *)
(* .config, or the workspace has an environment that Stack does not pass.  *)
SettingsReachProgram ==
  \A w \in Worker : worker[w].seen \in worker[w].due

(* What a worker cannot read it does not overwrite: unless another worker  *)
(* wrote the file in the meantime, whoever is about to replace a settings  *)
(* file or a checkpoint finds none or one of its kind, so that a damaged   *)
(* file, and the other kind under a clashing name, is left as it is.       *)
UnreadKept ==
  \A w \in Worker : ~worker[w].stale =>
    /\ worker[w].at = "edit" => files[PathOf(w)] \in Config \cup {None}
    /\ worker[w].at = "run" => files[PathOf(w)] \in {None, Saved}

(* create_or_select_stack ends with a stack that is there, or the CLI has  *)
(* failed, unless another worker removed the stack after it began; neither *)
(* of the errors it handles comes out of it.                               *)
StackIsThere ==
  \A w \in Worker : worker[w].command = <<"init or select">> /\ ~worker[w].stale =>
    /\ worker[w].result \notin {"exists", "missing"}
    /\ worker[w].result = "ok" => backend[EnvOf[w]][worker[w].stack] # None
=============================================================================
