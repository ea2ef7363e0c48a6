# A TLA+ model of the native Pulumi engine in pulumi-rs

The repository is a Rust SDK for Pulumi with an engine of its own: a user's
program describes resources, the engine compares them with a checkpoint file,
calls provider plugins to create, update or delete, and writes the checkpoint
again. Around them are an automation API, a command line, and a generator of SDK
crates. This directory holds TLA+ modules of these parts, TLC configurations that
check them on small instances, and proofs for TLAPS. All paths below are
relative to `src/`.

Contents: [inventory](#1-inventory), [modules](#2-the-modules-and-the-code),
[runs](#3-the-runs), [proofs](#4-what-is-proved), [limits](#5-limits),
[plan](#6-plan), [use](#7-running-it).

## 1. Inventory

### The parts, their state and their operations

| component | state | operations | modelled |
|---|---|---|---|
| orchestrator, `pulumi-engine/src/orchestrator.rs` | none of its own between operations but the `ProviderManager`; in one operation the `EngineState`, the servers' tasks and the user's child process | `up`, `preview`, `destroy`, `refresh` | `Engine`, `Providers`; events and counts in `Program` |
| resource monitor, `monitor_service.rs` | transform lists; shares `EngineState`, the manager and the event log | RegisterResource, RegisterResourceOutputs, ReadResource, Invoke, Call, transforms | RegisterResource's provider calls in `Engine`, its transforms, outputs and answer in `Program`; every handler's use of a provider in `Providers` |
| engine state and checkpoint, `state.rs` | prior and current resource tables, order list, URN counter, root URN, stack outputs; the file | `make_urn`, `register_resource`, `get_prior_resource`, `get_deleted_urns`, load, `to_checkpoint`, save | `Engine`; root URN and stack outputs in `Program`; secrets in `Secrets` |
| diff, `diff.rs` | none | `diff_resource`, `diff_outputs` | up to equality of the inputs, in `Engine` and `Program` |
| provider manager, `provider.rs` | map from package to plugin behind one async mutex; the engine's address; child processes | `get_provider`, `shutdown_all`, `set_engine_addr` | `Providers` |
| secrets, `secrets.rs` | salt and key | encrypt and decrypt a checkpoint | `Secrets` |
| native stack, `pulumi-automation/src/native.rs` | settings file; passphrase | up, preview, destroy, refresh, outputs; get, set and remove a config value; choose a secrets manager | `Automation`; the manager in `Secrets`, events and outputs in `Program` |
| outputs, `pulumi-core/src/output.rs` | a shared future, dependencies, known and secret flags | create, resolve, `map`, `flat_map`, `all2`/`all3`/`all`, await | `Outputs` |
| program, `context.rs`, `connection.rs`, `resource.rs`, `stack.rs` | settings, connections to monitor and engine | run, register, read, invoke, export | `Program` |
| transforms, both sides | the callback server's registry, the monitor's list | register, apply | `Program` |
| engine service, events | root URN; the event collector | get/set root, log; emit, drain, count | `Program` |
| test support, mocks of monitor and engine | recordings, canned responses, injected errors | the connections' calls | `Program`, `Monitor` |
| CLI wrapper, `workspace.rs`, `stack.rs` | work directory, environment; the stacks are the `pulumi` CLI's | create, select, remove, up, ..., configuration, export and import | `Automation` |
| command line, `pulumi-cli/src/main.rs` | none | a few calls of the above per command | `Automation` |
| code generation, `pulumi-codegen` | what is resolved so far, the unions, the files | resolve, emit | `Codegen` |
| macros, umbrella crate, integration tests | none | | no |

### How they interact

`up` and `preview` (`run_program`, orchestrator.rs) load the checkpoint, start
two gRPC servers and the user's program as a child process, and wait for the
child. The program's registrations arrive as RPCs, each a tokio task of its
own. Tasks share `EngineState` behind a mutex they take for a few lines at a
time, and the provider map behind one they keep over the launch of a plugin.
When the child exits the two accept loops are aborted. Tasks already accepted
are not: nothing joins them. The orchestrator shuts the plugins down, lists the
URNs that were not registered again, deletes them one by one (which launches
plugins again), shuts down a second time and writes the file. `destroy` and
`refresh` walk the recorded list without a server or a program.

In the program, `pulumi_core::run` registers the stack, sets the root URN, runs the
user's future, in which registrations proceed concurrently, and exports what it
returns. A transform is a callback: the program starts a server for it, tells the
monitor, and the monitor's handlers call it back before they look at the prior
state. A unit test gives the program a mock in place of either connection.

`NativeStack` runs the engine in its own process, with settings it reads from a
file; `LocalWorkspace` and `Stack` run the `pulumi` CLI once per call. The two know
nothing of one another's stacks and settings.

### What is hard about it

- **Interleaving.** A registration reads the prior state, lets go of the lock,
  awaits a provider, and takes the lock again. Two registrations of one URN, and
  a registration that outlives its run, go through the same code.
- **Effects before records.** A provider acts before anything is written down.
  A lost answer, a program that fails, a delete that fails, a failing save, or a
  crash each leave objects that only the provider knows of. The code handles
  some of these by dropping the error.
- **A save that is not atomic.** `fs::write` truncates the only copy first.
- **Order.** Destroying children before parents rests on the order in which
  runs registered them, over several runs.
- **Metadata that arrives late.** An output's flags are copied when it is
  combined, its dependencies at the first poll, its value when it settles: three
  moments, between which a resolver or another thread may act.
- **Keys that change hands.** The salt is read from the file in one step, the
  file loaded in another and written in a third, with nothing locked; a
  passphrase that does not fit is taken for none.
- **Lists that are copied.** A handler works through the transforms there were when
  it began; the summary counts the events there were when the program had ended.
- **Files nobody locks.** Several processes may edit settings, or run the engine,
  in one work directory; a command of two CLI calls can be overtaken between them.
- **Names that are derived.** URNs, file names, module names and union names are
  computed from others and may meet.
- **Processes.** A plugin is started by whoever asks first, while everyone else
  waits for the mutex; the launch may fail, time out, or be dropped half-way.

### What makes each part correct

- orchestrator, monitor and state: an object that lives is recorded, in hand, or
  lost for a reason one can name; a recorded object lives; recorded inputs are
  the ones the object has; no object has two URNs; a preview changes nothing;
  an operation ends; children go first.
- provider manager: one process per package; no process nobody knows of; none
  left when an operation returns; nobody waits forever behind a failed launch.
- program and monitor: a transform the program was told of applies to what it
  registers from then on, in order; the stack's outputs are the last export; the
  events tell what was done; engine and mock keep one contract.
- automation: what has been set is what a program finds; what cannot be read is not
  overwritten; a stack that was to be created or selected is there.
- code generation: everything in the schema is in the crate, and a mention of a type
  denotes that type. (Both hold only of schemas whose names do not meet and which Rust
  accepts.)
- secrets: with a passphrase no secret is written in the clear, which holds but for
  those that look like ciphertext; whatever is written is under one key, the recorded
  one, and stays under it.
- outputs: secrecy, unknownness and errors of a value reach every value made from it;
  whoever awaits is answered. (The flags do only where they came before they were
  copied; dependencies, which ought to, mostly do not.)

`PROJECT.json` lists each hazard at its line with the properties that watch it.

## 2. The modules and the code

| module | models |
|---|---|
| `Engine` | one stack over any number of operations: checkpoint file, provider objects, `EngineState`, RegisterResource tasks, `up`/`preview`/`destroy`/`refresh`, faults |
| `StackLedger` | the abstract specification: a ledger from URNs to objects that is committed in one step |
| `EngineProofs` | theorems about `Engine`: types, ownership of ids, what an operation has in memory; previews, lists, the order of `destroy`, the ledger |
| `EngineLossProofs` | theorems about `Engine`: leaks, dangling entries, drift, exactness |
| `MCEngine` | instances of `Engine` for TLC |
| `Providers` | provider map, mutex, plugin processes and their users |
| `ProvidersProofs` | theorems about `Providers` |
| `Secrets` | secrets and salt of one checkpoint file under operations of several processes |
| `SecretsProofs`, `MCSecrets` | theorems about it; its instance |
| `Outputs` | graphs of `Output`s, polled step by step on several threads |
| `OutputsProofs`, `MCOutputs` | theorems about it; the graphs for TLC |
| `Program` | the user's program, its connections, the monitor's transforms and outputs, events; unit tests |
| `Monitor` | the abstract specification: what `MonitorConnection` promises of a registration |
| `ProgramProofs`, `MCProgram` | theorems about `Program`; its instance |
| `Automation` | native stacks' files and the CLI's stacks under several workers |
| `AutomationProofs`, `MCAutomation` | theorems about it; its instance |
| `Codegen` | the generator, from schema to files |
| `CodegenProofs`, `MCCodegen` | theorems about it; the schemas for TLC |

### Engine

State that survives an operation: `checkpoint` is the file. Its status is
`absent`, `valid` or `torn` (truncated and not yet rewritten); its content is the
resource list, as a table and an order. `cloud` and `props` are the provider's
objects: whether each id is unused, live or gone, and the inputs it has.

State of one operation: `prior`, `resources` and `order` are the fields of
`EngineStateInner` (`prior_resources`, `resources`, `resource_order`; in
`refresh`, the local lists that replace them). `toDelete` and `todo` are what
the loops have still to visit, `pending` the checkpoint under construction,
`asked` the statements the program has executed. `phase` is where the operation
stands. `handlers` is one record per task: `pc` is where it awaits (`call`
before the provider acts, `applied` between its effect and the record of it,
`register` when no call is needed), `id` the id it holds, `stale` whether its
run has ended.

| action | code |
|---|---|
| `BeginRun` | `run_program` to the spawn of the program |
| `Receive` | `handle_register_resource`: URN, prior state, diff |
| `ProviderCreates`, `ProviderUpdates`, `CallFails` | the provider call and its three outcomes |
| `Register` | `register_resource` and the reply |
| `Drop` | the task is cancelled at an await |
| `ProgramSucceeds`, `ProgramFails` | `cmd.output()` returns; abort; `get_deleted_urns` |
| `DeleteUrn`, `EndPreview` | the delete loop; the end of a dry run |
| `BeginDestroy`, `DestroyEntry` | `destroy` |
| `BeginRefresh`, `RefreshEntry` | `refresh` |
| `BeginSave`, `EndSave`, `SaveFails` | `to_checkpoint`, `save_checkpoint` |
| `OutOfBand`, `Crash` | the environment |

`mishap` is a history variable. It records for every object which unlucky thing
happened to it; no action reads it. It lets the safety properties say not "no
object is ever lost", which is false of this code, but which events lose one:
`NoSilentLeak` enumerates the ways out and fails when there is another.

Abstractions:

- Inputs are compared as wholes. `ignoreChanges` edits the inputs before the
  comparison and is not modelled. A request stands for what the transforms have
  left of it.
- A "component" is a URN no provider serves: registered with `custom = false`, or
  of a type that begins with `pulumi:`. All of its registrations agree on that.
- `refresh` may keep or take the live inputs and outputs, as the provider returns
  them or not. A provider's read answers with the id it was asked for.
- `destroy` ignores `dry_run` in its options, as the code does.
- The steps of a task between two awaits are one action. `prior_resources` never
  changes in a run, so merging the critical sections that only read it loses no
  behaviour.
- The order of `toDelete` is that of a `HashMap`'s keys, reversed: any order.
- A crash while the file is written leaves it torn. A torn file does not parse
  and no operation starts on it, in the model as in the code.

### StackLedger

What the user is promised whatever happens: an object is deleted only while the
ledger names it; a URN keeps its id as long as it is in the ledger; a URN enters
with an object created since the last commit; an id that has left does not
return. `Engine!Ledger` is the instance with the refinement mapping: the ledger is
the checkpoint's table, except while the file is being written, where it is the
table of the checkpoint being replaced. The commit is `EndSave`, and a torn file is
`Lose`. `LedgerSpec` is a property of the run `engine_faults`.

### Providers

`map` and `addr` are `ProviderManager.inner` and `engine_addr`. `holder` is the
owner of the mutex: `get_provider` keeps it from the lookup over `spawn`,
`connect` and `configure` to the insert, and `shutdown_all` over the kills.
`proc` are the child processes, killed when their handle is dropped. `caller`
is one record per user of `get_provider`: the monitor's handlers and the
orchestrator. `listening` are the runs whose Engine server accepts connections; an
address is the number of the run it was bound for.

| action | code |
|---|---|
| `Ask` | a handler of the running program, or a delete loop, calls `get_provider` |
| `TakeCached` | the mutex is got, the package has an entry |
| `ReadAddress` | it has none: `engine_addr`, behind a mutex of its own, is cloned |
| `Launch` | the plugin is spawned with the address read |
| `Launched`, `LaunchFails` | port, `connect`, `configure`; the insert |
| `Finish`, `DropTask` | the call is over; the handler is dropped at an await |
| `BeginProgram`, `StartServers`, `SpawnProgram`, `StartFails` | `run_program` to the spawn, and its early returns |
| `BeginLoop` | `destroy`, `refresh`: to the loop, or back at once |
| `EndProgram`, `EndLoop`, `Return` | the child has exited; the loop is done; the operation returns |
| `BeginShutdown`, `Kill`, `EndShutdown` | `shutdown_all` |

`StartFails` stands for a checkpoint that cannot be loaded, a port that cannot be
bound, no command and a command that cannot be spawned; none of these returns aborts a
server or shuts a plugin down, and the model has the server of such a run listen on.
`BeginLoop` may return at once, without a shutdown: no checkpoint, or no resources.

A handler that is still waiting when its program ends can launch a plugin after the
shutdown. It stays in the map over any number of those early returns until the next
`shutdown_all`, and the address it was given is whatever `engine_addr` held when the
handler read it, which need not be that of the run in which the plugin is spawned.
`late` is an observation: whether a process was launched by such a handler.
`OnlyLatePluginsSurvive` says that no other plugin outlives an operation, and
`OwnPluginsConnect` that every other has a live address. A package may
be launched twice in one `up`, because the shutdown after the program empties the
map before the delete loop.

### Secrets

`file` is the checkpoint as far as secrets go: absent, valid, empty (truncated) or
garbled (two writers at once), the salt in `secrets_provider`, and the secret in
each `Cell`, a place in a resource or among the stack outputs. A secret is a
value and the salt it is encrypted under, or None for plaintext. `owner` is the
passphrase each salt was made for: a salt stands for the key derived from it.
`proc` is the operation each process runs, `held` an observation.

| action | code |
|---|---|
| `Open` | `engine_options`: the file is read for its salt; `from_salt` or `new`, errors dropped |
| `Load` | `load_checkpoint`: `load_encrypted` with a manager, `load` without; `from_checkpoint` |
| `BeginWrite`, `EndWrite` | `to_checkpoint` or `empty_checkpoint`, `save_encrypted` or `save`, its debug assertion, `fs::write` |
| `Stop` | every way an operation ends without a save |

The new state an operation may write is constrained by what `up`, `refresh` and
`destroy` can end with (`UpEnds`, `RefreshEnds`, `DestroyEnds`). `Lookalike` values
are strings that begin with `v1:`. `Prefixed` is the code's test, for which they pass as
ciphertext, so that `Sealed` leaves them as they are and `HasPlaintext`, which is
`has_plaintext_secrets`, does not count them. What is really in the clear is `InClear`,
and the properties speak of that. A crash while writing is
`Stop` in that state. When two processes write at once, the file may end with
either's contents or with a mixture that does not parse.

### Outputs

`prog` is a graph: each output is a leaf (`new`, `secret`, `unknown`, `unresolved`,
`from_future`) or a combinator of earlier ones (`map`, `flat_map`, `join` for `all2`
and `all3`, `try_join` for `all`, which fails at the first error). `node` holds for
each its stage, flags, dependencies and result; `resolver` the live
`OutputResolver`s; `asked` what the program awaits; `late` is an observation: which
metadata changed after somebody had copied it.

| action | code |
|---|---|
| `Build` | the constructor or combinator is called: flags are copied |
| `FastPath`, `SlowPath` | the rest of `flat_map`: what `now_or_never` found; the second spawns |
| `Poll` | the first poll of a combinator: dependencies are copied, then its inputs polled |
| `RunF` | a pending `flat_map` calls f, and `merge_from` |
| `Settle`, `Complete` | the future is ready |
| `AddDeps`, `SetSecret`, `MarkUnknown`, `Resolve`, `Reject` | the resolver; `resolve_unknown` is two of them |
| `Ask` | `get`, `.await` |

A poll goes down the graph as one call in one thread and as interleaved steps when
several threads poll; `Wanted` says which outputs a poll reaches, so that an output
nobody awaits stays as it is. `Pending` is what a poll comes back with when all it waits
for does, or when another task is polling: a `Shared` future then answers Pending at
once. `Held` says of which outputs that may be so, those that are awaited, driven by a
task of their own, or below one that is. `SlowPath` is `flat_map` where the source is
`Pending`. f returns one of the outputs built before;
one that f would build itself is a leaf built early. A Tokio runtime is present.

### Program

`Engine` follows objects; `Program` follows one run of a program from both sides, and
takes an entry of the state to be the transforms its inputs went through and its
secret properties. `pc` is where `pulumi_core::run` stands, `call` what has become of
each statement's call (`at`, the transforms applied and still to apply, the options,
the transforms that were `due` when it was sent), `told` how far the registration of
each transform has come, `transforms` the monitor's list. `rootUrn`, `outputs`,
`recorded`, `table` and `prior` are fields of `EngineStateInner`; `events` is the
collector. `mode` says who serves the program: the engine, for real or for a
preview, or the mocks of a unit test.

| action | code |
|---|---|
| `Begin`, `BeginTest` | `run_program` to the spawn; `TestContextBuilder::build` |
| `Connect`, `RegisterStack`, `SetRoot` | the first steps of `run` |
| `Export`, `ExportAnswered` | its last: the outputs reach the engine; `run` has the answer |
| `Log` | `Engine.Log` |
| `InsertToken`, `ListTransform`, `TransformAnswered` | `register_stack_transform`, on both sides |
| `Send`, `Answer` | `register_resource_inner` and its kin; the answer is decoded |
| `Receive`, `Callback`, `Serve`, `Register`, `HandlerFails` | the monitor's handler, between its awaits |
| `MockAnswer` | `MockMonitor` |
| `RegisterOutputs` | `RegisteredComponent::register_outputs` |
| `ExitZero`, `ExitNonZero`, `TestEnds` | the program's process ends |
| `DeleteStale`, `Save`, `SaveFails`, `CountChanges`, `Summarise` | the rest of `run_program` |

`Export` does not wait for the calls: a program may spawn or drop futures, and any
call may still be in flight when the process ends. `late` names the handlers this
happens to, and those dropped between their event and their registration; `finished`
and `exported` say which run's outputs ought to be in the file.

`Monitor` has five steps a registration may take. `Program!Contract` maps `at` onto
them, for the engine, where recording and answering are apart, and for the mock,
where they are not. `MonitorSpec` is a property of the run `program`.

Abstractions: `ignoreChanges` travels as the secret outputs do; of the options that no
transform can change, `rest` says which transforms tried. Statements have
distinct URNs. The delete loop is one step, since `Engine` has it a step at a time.
What a statement is (`kindOf`) is chosen at the start: the instance has a custom
resource beside a component or a read; remote components, stack references and
invokes take the same steps. `PendingChanges` is a set of numbered events, of which
only the number is used. What the mocks record of reads and invokes is left out.

### Automation

`files` are the settings and checkpoints below the work directory, by path: a path is
the stack's name, split at its dots, and a suffix, so that the settings of `dev` and
the checkpoint of `dev.config` are one file, as in the code. `backend` is what the
CLI keeps, per environment; it is external and each call is one step on it. `worker`
holds for each process what it is in the middle of. A command line's command is a
script of CLI calls (`LifecycleArm`, `StackArm`, `ConfigArm`, `OtherArm`).

| action | code |
|---|---|
| `BeginEdit`, `TruncateSettings`, `WriteSettings` | `set_config`, `remove_config` to the load; the two halves of `fs::write` |
| `ReadSettings` | `get_config`, `get_all_config` |
| `BeginNative`, `EndPreview`, `TruncateCheckpoint`, `WriteCheckpoint` | `engine_options` and the engine's operation |
| `NativeFails` | any error or a killed process |
| `CreateStack`, `SelectStack`, `RemoveStack` | `LocalWorkspace` |
| `EditConfig`, `GetConfig`, `Up`, `Preview`, `Destroy`, `Ask`, `ImportState` | `Stack`, and its configuration through the workspace |
| `CallFails` | `run_pulumi_cmd` returns an error |

`truth` is what the completed edits make of the settings; `disturbed` names the
stacks for which the code promises nothing: two edits at once, an edit stopped
half-way, a checkpoint written over the settings.

### Codegen

`resolved` and `unions` are what `resolve_*` has collected, `files` what is on disk:
path and content, the content being the item or the names an index declares. A name
is the sequence of its characters, because what is at stake is what the conversions of
`naming.rs` do to it: `Snake`, `Pascal`, `Escape`, and `Identifier` and `FileName` made
of them. `MCCodegen` assumes of them what `naming.rs`'s own tests say. A token is the
sequence of its parts; with fewer than three it does not parse, and the item is dropped
without a word (`Taken`) while a mention of it becomes JSON. `Format` is what the regular
expression `moduleFormat` captures of each path; the instance has the default.

| action | code |
|---|---|
| `ResolveComplexType`, `ResolveResource`, `ResolveFunction` | one item of `resolve_package` |
| `WriteFile`, `WriteFails` | one `fs::write` of `emit_package_with_options` |
| `Finish` | the end of `main` |

`Specs` are the types that fields may mention, with their parts; `ResolveType` is a
recursive function on them, which calls itself on the parts, as `resolve_raw_type` does,
and returns the Rust type, the variant's name and the unions it registers. `Depth` says
how deep each type nests: a schema is a finite text, and without a bound of that kind
the function need not exist. `Writes` lists the files in the order they are written; a
later one replaces an earlier one at the same path.

A module's name is used three ways. It is a directory, where each slash starts another
one below (`Components`); it is one `mod` line, slashes and all (`LibRs`, `TypesMod`);
and it is part of the paths that fields mention (`TypePath`). `Denoted` and `Reachable`
are rustc's lookup of a path through `mod` lines, external but needed to say what a
mention means; they read `files` only. `Found` says what rustc takes for the name of a
module with a file of that name: an identifier that is no keyword, since it looks for
`r#match` where `match` is.

`Clash` says which schemas leave no crate that compiles: two items with one path, items
where an index or a directory goes, files and modules whose names are keywords or no
identifiers, as every module with a slash is. `NothingLost` and `MentionsDenote` are
about the other schemas. Two types of one module may still have one name in them, since
`rule1` and `rule_1` have two files: the two glob re-exports are an error of rustc's only
where the name is used. So `MentionsDenote` excuses just the mentions of a type that is
itself `Misnamed` and keeps its claim for the rest of the crate. Of three of these excuses,
nested modules, modules that are keywords, and shared names, the documentation says that
the generator handles them, which it does not; section 3 lists them.

## 3. The runs

| run | instance | question | result |
|---|---|---|---|
| `engine_faults` | 2 URNs, 2 tasks, 2 ids, 2 inputs, 2 operations, every fault | which events separate file and provider; is the ledger implemented; does a preview stay dry | holds |
| `engine_clash` | 2 statements with one URN, 2 tasks, 2 operations, 5 faults (never `exitEarly`, which would let the program go before an answer), fairness | is an object lost otherwise than by one registration overwriting the other; does the list stay one of the table; does every operation end | holds |
| `engine_family` | component, child, grandchild; 3 operations; no fault | is the file exact; is `destroy` in order, after any earlier runs | holds |
| `engine_delete_order` | parent and child, 2 operations | does the delete loop of `up` take children first | violated |
| `providers` | 2 packages, 2 handlers and the orchestrator, 2 runs, 4 faults, fairness | processes, addresses and mutex | holds |
| `secrets` | 2 processes (one a debug build), 2 cells (one a stack output), 2 values (one a lookalike), 2 passphrases, 3 salts, 4 operations | are ciphertext and salt one; does a manager leave nothing in the clear but lookalikes | holds |
| `secrets_assertion` | the same, 3 operations | is the assertion of `save` true | violated |
| `outputs` | 108 graphs of 4 outputs, one resolver, 1 await, fairness | do values, errors, and the flags that are not late arrive | holds |
| `outputs_deps` | the same | do dependencies arrive | violated |
| `program` | a resource, and a component or a read, 2 transforms, 1 run in any of 4 modes after any earlier run, failures of every step | what of transforms, outputs and events survives the interleavings; is there one contract | holds |
| `automation` | 2 workers (one with an environment), 2 stacks whose files clash, 2 keys, 1 value, 3 operations | do settings arrive; is anything lost that need not be | holds |
| `codegen` | an overlay, a malformed token, and every choice among 4 types, 4 resources, 3 functions: 2048 schemas | is everything in the crate, and does each mention mean its type, if the names allow | holds |

**Bounds.** `MaxOps` and `MaxRuns` bound the operations started. Two operations
are the least in which one finds what another left; `engine_family` goes to
three, so that a run can repair, or fail to repair, what the second one did to
the first. Two ids for two resources
let `engine_faults` run out of ids only after both were created; a third would
only repeat the second's fate, since objects do not interact but through URNs,
and `engine_family` has four. Two tasks are enough for an interleaving; every
property about tasks relates at most two. Three process handles are enough for
the two packages: when a launch picks an unused handle, at most one is in the
map, for the other package, since only the mutex's holder launches. Three salts are
the file's and one for each process; four operations let both processes open
before and after another operation has written. Four outputs, two of them
combinators, are the least in which a combinator reads another's metadata; the
theorems about `Outputs` are for graphs of any size. In `program` one run suffices
since it starts from any checkpoint an earlier run of some of the statements leaves;
two transforms are the least with an order. Three operations in `automation` let an
edit, an operation and an edit of another worker overlap. The schemas of `codegen`
have two modules, nested unions, an overlay, a token that does not parse, and, by choice,
most kinds of clash and two types that share a name.
The largest instance (`program`, 2.8 million states) takes a minute and a half.
Sets of ids, inputs and tasks are symmetric except where liveness is checked.
`CHECK_DEADLOCK FALSE` is needed since a behaviour stops at `MaxOps` or `MaxRuns`,
or when the crate is written, and since a torn checkpoint stops the stack for good.

**Fairness.** `Engine!FairSpec`: weak fairness of the engine's own steps and of
each task. Tokio polls both; a provider answers a call (with an error, if it
likes); the program exits once its registrations are answered. The last two are
assumptions about the environment: the code has no timeout on either, and
without them an operation may stay open. Nothing is assumed of starting
operations, of faults or of the program's statements. `Providers!FairSpec`: strong
fairness of taking the mutex, since tokio's mutex is first come, first served
and a waiter's turn comes although the mutex is taken again and again in
between; weak fairness of spawning a plugin and of finishing a launch. Of a launch, only reading the port
has a timeout (30 s); `connect` and `configure` are assumed to answer or fail.
`Outputs!FairSpec`: some woken task is polled, a call of `flat_map` returns, and
resolvers are used or dropped in the end. The first is Tokio's, the second holds
since the call awaits nothing, the third is Rust's drop at the end of a scope; a
resolver that is leaked or held for ever is assumed away. Nothing makes a program
await an output. `Program`, `Automation` and `Codegen` state no liveness: a program may
stop anywhere, and the rest ends with the operation that `OperationEnds` is about.

**What the violations show.**

- `DeleteChildrenFirst`: `get_deleted_urns` reverses the keys of a `HashMap`
  (state.rs:376-385); the comment says this deletes children before parents.
- `NoPlaintextBesideSalt`: an operation without the passphrase, or with a wrong
  one, has no manager, keeps the recorded salt and writes new secrets in the
  clear; `save` asserts that this does not happen, in debug builds (state.rs:169).
- `DepsTracked`: `map` copies its source's dependencies before the source has been
  polled (output.rs:226), when it has none yet unless it is a leaf. Polled from its outer
  end, which is the ordinary case, a chain loses them; the comments say that dependency
  tracking is preserved and that dependencies are unioned (200-201, 397).

Other differences between code and documentation met while modelling are in the
models as the code has them, without a run of their own:

- recorded outputs: on the "same" path the program's object is stored as the outputs
  (`monitor_service.rs:361`), so that a second, unchanged `up` replaces what the provider
  returned, which is what the field is documented to hold;
- lookalikes: `encrypt_secrets`, which is to encrypt "all secret-wrapped values", leaves a
  secret that begins with `v1:` as it is (`secrets.rs:318`), and no assertion notices. The
  next load with a manager cannot decrypt it. `ManagerEncrypts` excepts exactly these;
- leftover plugins: a handler of an ended program inserts its plugin after the
  shutdown, with the address of a server that is aborted, and the next program's
  registrations get that plugin from the map (`provider.rs:255`). `OwnPluginsConnect` is
  about the plugins a program's own handlers launch;
- options: `apply_transforms` takes the ignored changes and the secret outputs from a
  transform's answer and drops every other option (`monitor_service.rs:120`), where the
  program is told that a transform can modify the options (`transform.rs:175-177`).
  (`pulumi-engine/TODO.md:6-9` names the two only);
- shared names: two types of one module whose names differ only in the case or the
  separators that `to_pascal_case` removes are generated under one name, where
  `pulumi-codegen/PLAN.md:308` and `TODO.md:164` say that they are told apart;
- nested modules: a module with a slash in it is declared by `pub mod a/b;`
  (`emit.rs:232`), which is not Rust; `pulumi-codegen/PLAN.md:567` decides for nested modules;
- modules that are keywords are declared with `r#` and written to a directory with `r#`
  in its name (`emit.rs:100`), where rustc does not look; `naming.rs:193-197` calls the
  name valid;
- outputs: `all2` copies the secret flags when it is called, and a pending `flat_map`
  learns later that it is secret (413, against 396-397);
- URNs: same-named children of two parents of one type get one URN
  (`state.rs:310`, against 260); `engine_clash` is what the engine then does;
- `MockMonitor` never applies a transform;
- an unchanged resource is answered with its inputs, so that a program whose Outputs
  type needs a provider's field cannot decode the second `up`; a stack reference
  never gets outputs from the native engine;
- `Stack` does not pass the workspace's environment on to its own calls
  (`stack.rs:97`, against `workspace.rs:82`); `import_state` does not send the state
  (`stack.rs:206`);
- settings of a native stack that cannot be read are taken for none;
- an early return of `run_program` (orchestrator.rs 455, 475-476, 525-527, 555) leaves
  the servers it has started listening, and every early return leaves what plugins
  there are;
- generated file names are not escaped when they are keywords; an item whose token does
  not parse is dropped without a message; two unions of one name are taken for one, two
  items with one path overwrite one another.

`destroy`, `refresh` and the delete loop launch plugins with an empty or a stale
engine address; `OwnPluginsConnect` is therefore stated for the time a program runs.

**Mutants.** For every property of a passing run `PROJECT.json` names a mistake
in the code, an operator `Variant_...` beside the definition it changes, with
which the run violates the property.

## 4. What is proved

TLAPS proves the following for every value of the constants: any program, any
number of URNs, ids, tasks, processes, outputs, transforms, stacks and operations,
and all faults. With two exceptions, which the tables name, the only hypotheses are
the modules' assumptions about their constants, which say how the sets are related
and nothing about the program's behaviour: `EngineAssumption`, `ProvidersAssumption`,
`SecretsAssumption` (the sets' types, and that `None` is in none of them),
`OutputsAssumption` (a combinator uses earlier outputs), `ProgramAssumption` (the
types; a program has finitely many statements), `AutomationAssumption` (the types;
no file, an empty, a garbled one and a checkpoint are four different things and none
is a settings file), `CodegenAssumption` (the types; a type's parts nest less deep
than it does; "types" is no keyword of Rust).

Every invariant and action property that a passing run checks is proved.

### Engine

| theorem | argument |
|---|---|
| `SpecTypeOK` (`TypeOK`) | `TypeInv` is inductive |
| `SpecOwnership`, `SpecOneUrnPerObject` | `TypeInv /\ Ownership` is inductive |
| `SpecMemoryInv` | `MemoryInv` is inductive relative to `TypeInv` |
| `SpecPreviewTouchesNothing` | action property, from `MemoryInv` |
| `SpecListMatchesTable` | `Lists` |
| `SpecDestroyChildrenFirst`, if `OneParentEach` | `Families` |
| `SpecLedger` (`LedgerSpec`) | refinement, step by step |
| `SpecNoSilentLeak` | `LeakInv` |
| `SpecNoSilentDangling` | `DanglingInv` |
| `SpecNoSilentDrift` | `DriftInv` |
| `SpecCheckpointExact`, if `NoFaults` and `UrnForEach` | `Untroubled` and the three before |
| `SpecOperationMoves` | from `TypeInv` and `Ownership` |
| `SpecOperationShrinks` | action property, from `TypeInv` |

`TypeOK` is not inductive: `DeleteUrn` applies `cloud` to `prior[u].id`, which has a
meaning only if entries of resources have ids. `TypeInv` adds the shape of tasks, of
objects (a live one has inputs), of tables (an entry of a provider's resource has an
id, in a real run), of the loops (they walk entries of `prior`) and of a dry run.

`OneUrnPerObject` speaks of the file and its proof must speak of every place an
id can come from. `Ownership` gathers the pairs <<URN, id>> of the file, of
`prior`, `resources` and `pending`, and of every task, stale ones included: each id
in them has been assigned, and has one URN. A step either hands pairs on from one
place to another (lemma `HandingOn`) or adds one with an id that was unused.

`MemoryInv` says what the tables are in each phase (`prior` is the file's table until
the file is truncated; nothing is pending before), that a task, an entry of the run
and one of the new checkpoint carry the prior id of their URN, that components have
none, and that a preview has no provider call of its own in flight. The last is what
`PreviewTouchesNothing` needs: only tasks left over from earlier operations act.
`Lists` says of each list in memory and in the file that it names every entry of its
table once. Two tasks that register one URN append it once, since the look and the
append are one critical section.

`Families` says of each list that parents are before their children. A task's parent
is in the table before the task is received, because the program awaits it. This
fails when two statements have one URN and different parents: the second registration
changes the parent of an entry that keeps its old place. Hence `OneParentEach`.

`SpecLedger` maps each action of `Engine` to a step of `StackLedger` or a stutter. A
commit keeps the id of every URN by `IdsFollowPrior`. An id that enters must be fresh:
in a table or a task's hands, and not in `prior`. Each step adds to that set only what
a provider has just created (`CreateLedger`), or lets some of it go (`QuietStep`,
`LetGoStep`), or ends the operation. So an id that has left cannot return.

The three loss theorems have one pattern. The property has the shape "in order, or
excused by a mishap", and speaks of the file, two of them only between operations.
The invariant says it of every place and phase: an object lives in a table or a task's hands or is
excused (`NothingLost`); what a loop is to pass by, it has either visited, kept or
excused (`VisitedAreTracked`); an entry written after the checkpoint was built is
excused (`LateIsExcused`). `DanglingInv` says of each table that it names live objects
or struck ones, and of the delete loop that what it is about to delete is registered
only when that registration was late. `DriftInv` has to follow who gave an
object its inputs last: among the tasks that hold it, either one that has not registered
did, or the last that has (`LatestKnown`). No mishap is ever removed (`MishapGrows`),
nor does an object come back to life (`NoResurrection`).

`CheckpointExact` has no excuses, and so needs what the run `engine_family` has:
no faults, and one statement for each URN. `Untroubled` says that then nothing befalls
any object, and `NoSilentLeak`, `NoSilentDangling`, `NoSilentDrift` give the rest.

The last two are what `OperationEnds` rests on. `OperationMoves` says that nothing
blocks: `EngineReady` and `HandlerReady` are the guards of the fair actions. Its content
is that an update is of an object that was created, and that `refresh` finds at the
provider, living or gone, whatever object an entry names; both come from `Ownership`. A
task that creates needs an id the provider can still give. `OperationShrinks` says
that the steps fairness asks for use something up: the phases, the entries of a loop,
two turns of each task; and that only a statement executed for the first time gives
an operation more to do.

### Providers and Secrets

| theorem | argument |
|---|---|
| `ProvidersProofs`: `SpecTypeOK`, `SpecNoStrayProcess`, `SpecOneProcessPerPackage` | `PInv` is inductive |
| `SpecShutdownLeavesNothing` | action property from `PInv` |
| `SpecOnlyLatePluginsSurvive`, `SpecOwnPluginsConnect` | `RInv` is inductive relative to `PInv` |
| `SpecMutexIsReturned` | inductive relative to `PInv` |
| `SpecShutdownDrains` | action property from `PInv` |
| `SecretsProofs`: `SpecTypeOK`, `SpecCiphertextFitsSalt`, `SpecSaltKept` | `SInv` is inductive |
| `SpecManagerEncrypts` | action property from `SealedToWrite` |

`PInv` says of each process that it is in the map or that the mutex's holder is
launching it, of the map that each entry is for its package, and of the mutex
that a launching caller holds it. `RInv` adds what the orchestrator and the handlers
know of the run: from the start of the servers on the manager has this run's address;
a handler of this run that has read it has read this one; and no handler of this run
asks before its program does. Every process that is not `late` then
has that address, and none of those is left where a run begins or ends, since every way
there without a shutdown starts where there are none. `MutexIsReturned` is the converse: whoever holds the
mutex launches or shuts down, so that a waiting caller waits for one of these two, and
`ShutdownDrains` says that the second comes to an end.

`SInv` says of the file that its ciphertext is under its salt, and of each
operation what it has in memory at each step (`OperationFits`): between loading and
writing, nothing sealed with a manager, and otherwise sealed under the salt it has
found. `SealedToWrite` is about the time between sealing and the end of the write, in
which other processes may write the same file but not this one's memory.

### Outputs

| theorem | argument |
|---|---|
| `OutputsProofs`: `SpecTypeOK`, `SpecErrorsTravel`, `SpecFlagsHandedOn`, `SpecDepsHandedOn` | `OInv` is inductive |
| `SpecSecretsReach`, `SpecUnknownReaches` | from `OInv`, by induction over the graph |
| `SpecNothingUndone`, `SpecNearer` | action properties from `OInv` |
| `SpecAwaitsMove`, `SpecCallsReturn`, `SpecFlatMapsMove` | from `OInv` and `LiveInv`, by induction over the graph |

`OInv` says of every output and each of its direct inputs that metadata has been
handed on or came late, and that a result is explained by the inputs' results.
Lemma `AccountedStep` reduces every action to one output's new state.

The properties speak of everything a value was computed from, the recursive function
`Up`. That it exists, and so satisfies its own equation, is lemma `UpEquation`: if
a function solves the equation for the first k - 1 outputs, it is extended to
k. The induction, there and in `ByOrder`, is a least counterexample (`LeastNat`), which
follows from the library's theorem that strict inclusion of finite sets is well-founded.
A flag that is lost between an output and something far below it was then lost at one
of the steps between, by a copy that came before the flag.

`LiveInv` says that what is awaited is built, that a leaf made with a value has it, and
that a `flat_map` that has not called `f` is driven by a task of its own, unless its
source has failed. Lemma `WantedMoves` follows an awaited output upwards: whoever polls it polls
what it awaits (`WantedEquation`, an induction from the last output down), until a
future can go on, or nothing is left but resolvers, in which case the output is
`Pending` (`PendingEquation`). Hence no await is for a poll that nobody makes; `flat_map`'s
look at its source, which gives up where that is pending, returns without any resolver's
help; and `f` is called though nobody asks.

### Program

| theorem | argument |
|---|---|
| `ProgramProofs`: `SpecTypeOK` | `TypeInv` is inductive |
| `SpecTransformsApplied` | `ListInv` |
| `SpecStackOutputsLatest` | `OutputsInv` |
| `SpecEventsTell` | `EventsInv`, and a bijection |
| `SpecMonitor` (`MonitorSpec`) | refinement, with `StackFirst` |

`ListInv` says of each handler that what it has behind it and what it has before it
make a prefix of the monitor's list, which only grows at its end, and that this prefix
has what the program had been told of (`Follows`); of the lists on the two sides, that
each is part of the next.

`OutputsInv` says that while the user's future runs the root URN is the stack's, so
that no component's outputs are taken for it, and that the outputs in memory are those
of the file until the program exports.

`EventsInv` says of each resource whether its event is to come, has come, or has come
before its entry (`Before`, `Between`), that it comes once, and that creations are of
what was not there; of deletions the same; and that what was counted is what there
is. All of it fails for handlers that outlive the program, which `late` names. The
command line's list then counts as many changes as there are changed resources, since
each of them has one event and no event belongs to two.

In `SpecMonitor` the engine's list of registrations, without the stack, is the
contract's; `StackFirst` is needed because the list's head is dropped. A step of a
statement changes that statement's progress alone.

### Automation

| theorem | argument |
|---|---|
| `AutomationProofs`: `SpecTypeOK`, `SpecUnreadKept` | inductive |
| `SpecStackIsThere` | `CreateInv` |
| `SpecSettingsReachProgram` | `EditsInv` |

`CreateInv` follows one command of two calls: only when the first found a stack does
the second follow, and a stack that was found goes only by a removal, which marks the
others stale. `EditsInv` says of a stack nobody has disturbed that one worker at most
edits it, with the completed settings and its own change, and that its file has the
completed settings, or is empty in that worker's hands (`Tidy`); and that a checkpoint
being written lies on no such stack's settings (`SavesKnown`). It rests on two stacks
having different settings files (`ConfigPathsDiffer`), whereas a settings file and a
checkpoint may be one.

### Codegen

| theorem | argument |
|---|---|
| `CodegenProofs`: `SpecCodegenInv` | `CodegenInv` is inductive |
| `SpecNothingLost` | from `CodegenInv`, at the end |
| `SpecMentionsDenote` | from `CodegenInv`, at the end |

`CodegenInv` says how far the generator is: the lists before the present one are
resolved to their end and those after it not begun (`Seen`); what is resolved of a list
are its items that are no overlays and whose tokens parse (`ItemsResolved`), two of them with one path only if
the schema repeats it (`OnePathEach`); `unions` has, for every union that a field seen so
far needs, one of its name, and no other (`UnionsResolved`); and each of the first
`next - 1` writes has its path on disk, where there is nothing but what one of them
wrote (`FilesWritten`). The last is inductive because nothing that `Writes` is made of
changes while files are written.

That `ResolveType` satisfies its own equation is lemma `ResolveTypeEquation`: a solution
for the types of depth less than k is extended to those of depth k, and two solutions
agree. By the same induction each union a type needs is registered (`PartsRegistered`).

At the end, wherever `Clash` is false: a module has a name without a slash and so is one
directory (`FoundWhole`, `NamesFound`, `BelowModule`), `Types` and `Services` list each item once
(`TypesAll`, `ServicesAll`, `ResolvedOnce`), the concatenations that make `Writes` list
each item's file and each directory's index once (`WritesAll`), no two of them have
the same path (`WrittenPaths`), so all of them are on disk (`FilesAll`). Each index
declares what lies in its directory (`LibDeclares`, `TypesDeclares`, `ModuleDeclares`),
and so rustc reaches each file from `lib.rs` (`EverythingReached`), and a path that a
field mentions names one file, that of the type meant (`Denotes`, where that type is
not `Misnamed`).

### Only model-checked

Liveness: `OperationEnds`, `CallersAreServed`, `AwaitEnds`, `FlatMapConverges`. The
prover has no rule for fairness that these could use. Proved is the part of each that is
safety, that wherever something is awaited one of the fair steps is possible, and
that these steps use something up: `SpecOperationMoves` and `SpecOperationShrinks`;
`SpecMutexIsReturned` and `SpecShutdownDrains`; `SpecAwaitsMove`, `SpecCallsReturn`,
`SpecFlatMapsMove`, `SpecNearer` and `SpecNothingUndone`. That the guards in these
theorems are those of the actions is read off the actions, since the prover does not
reason about ENABLED.

## 5. Limits

Not modelled, and why:

- in `Engine`, the native stack builds a new `PulumiEngine` per operation, so its
  state between operations is the file;
- two engine processes on one file: the code has no lock. `Secrets` has several
  processes; in `Engine`, where the last writer wins and the other's objects are
  lost, there is one;
- the cryptography of secrets: a key per salt, and a failing check under any
  other, stand for it;
- ReadResource, Invoke and Call change nothing in the engine but the provider
  map, where `Providers` has them; hooks, packages and supported features are fixed
  answers;
- what the `pulumi` CLI does inside a call, and the parsing of its output; argument
  parsing and printing of the command line;
- in code generation, the Rust text of fields, docs and builders, enum values, the
  matching of `moduleFormat` itself, and the parsing of the schema; its provider and configuration
  sections are ignored by the generator too;
- JSON and protobuf conversions besides what `Secrets` needs of them, the typed
  getters of settings, assets;
- which properties are to be replaced and the refresh diff's lists: pure functions
  whose result is only printed;
- macros (compile-time), the umbrella crate (re-exports), integration tests, error
  conversions: no state.

## 6. Plan

Done: `Engine` first, for it is where objects are created and lost;
`StackLedger` over it; `Providers` beside it (they interact only through
`get_provider`, whose failure is `CallFails` and `DeleteObject` in `Engine`);
`Secrets`, a closer look at the file that `Engine` loads and saves; `Outputs`, a
library of its own beside them; `Program`, the other end of the monitor's
connections, with `Monitor` over it; `Automation`, which starts `Engine`'s operations;
`Codegen`, which stands alone.

Left: what section 5 names as not modelled, of which two engines on one file say most,
and of the proofs only the step from possible and finitely many to eventual.

## 7. Running it

    tlc -config MCEngineFaults.cfg MCEngine.tla
    tlapm EngineProofs.tla

(`EngineLossProofs` takes longest.)

Each `.cfg` names its module's instance; `PROJECT.json` lists module, configuration
and expected result of each run.
