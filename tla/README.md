# Formal models of the Universal Translation Layer

TLA+ models, model-checking configurations and machine-checked proofs for the
services of the Universal Translation Layer (UTL): the in-memory privacy
protocol, the application lifecycle and the Karel IV. engine built on it, the
mesh (offline fallback, encrypted routing, orchestrator, shards), the shadow
node, the dubbing pipeline, the registry of mesh nodes and the coin. Paths below
are relative to the repository (`src/src/...` in `PROJECT.json` is the directory
`src` of the repository).

## 1. Inventory

The core of the program is a set of Python services that run in one process
with threads, two programs that talk over HTTP, an Erlang server and a contract.
The C headers that make up most of the tree by size belong to the vendored
toolchain `gnatprove_13.2.1_28fc3583/`, and so do its Ada runtime and its
libraries; the program itself is Python, Ada, Erlang, Solidity, Rust and Dart, and
its only C file, `rust_a19_core/include/asgard_a19_core.h`, declares functions of
the Rust core. What the models cover is small against the size of the tree and
large against the part of it that keeps state.

| Part | Source | State | Operations | Hard behaviour |
|---|---|---|---|---|
| PrivacyProtocol | `src/privacy_protocol.py` | lock, hash-chained audit log, operational metadata, purge flag and thread | encrypt, decrypt, store_metadata, execute_purge, verify_no_persistence, schedule_purge, stop_purge, get_status | a purge thread that sleeps for hours next to callers; a plain lock; a five-second join |
| AppLifecycle | `src/app_lifecycle.py` | state, flags of the components, resource monitor | transition_to, startup, shutdown, resets and error reports | startup and shutdown walk the components outside the lock; functions raise; errors come from other threads |
| KarelIVEngine | `src/wire_karel_engine.py` | the four registered components, the current MeshLayer | start, stop, check_user_access | each start of the mesh makes a new object with two threads |
| OfflineFallback | `src/offline_fallback.py` | ONLINE/OFFLINE, bounded queue, counters, monitor thread | queue_task, drain_queue, start/stop_monitoring, probes, callbacks | counters outside the lock; a monitor that outlives its join |
| MeshLayer | `src/wire_mesh.py` | composition of the above and the orchestrator | route_task_encrypted, callbacks, start, stop | a test of the state that is stale when used; retries of the same task object |
| MeshOrchestrator | `src/mesh_orchestrator.py` | nodes, heartbeats, latency window, burst | register, unregister, heartbeat, route_task, burst thresholds | liveness of nodes; what follows the lock is unprotected |
| ShadowNode | `src/shadow_node.py`, with `src/faucet_bridge.py` as the primary | role, last heartbeat, copied state | health check, role, synchronisation, sleep | timeouts against late answers; partitions; restarts |
| ModelShardManager | `src/model_shard_manager.py` | shards, totals, active versions, inventories | store_shard, hot_swap, assemble_model, get_sync_plan, check_distribution_constraint | totals that are guessed, grow and disagree |
| SubscriptionManager | `src/subscription_manager.py`, `src/wire_geall.py` | subscriptions, gauges kept by increments | register, check_access, expiry, degrade_gracefully | expiry at the boundary; `get_tier` and `degrade_gracefully` disagree |
| UTLApp | `src/utl_app.py` | status gauge, monitor thread, low-power flag | start, stop, restart | the monitor may write the status after stop |
| Translation engine | `src/translation_engine.py` | cached connectivity, backends | translate | stale connectivity, fallbacks |
| StreamDubber | `src/stream_dubber.py`, `src/audio_capture.py`, `src/wire_audio_pipeline.py` | flags, mode, two threads, a bounded queue | start, stop, set_mode | calls overlap outside the lock; joins time out; the device fails |
| Audio and text pipelines | `src/audio_pipeline.py`, `text_pipeline.py`, `text_interceptor.py`, ... | queues, threads, flags | start, stop, callbacks | as for the dubber, which `audio_pipeline.py` resembles |
| Karel IV. application | `src/karel_iv.py` | retry queue, n8n client, startup sequence | translate, retry, autonomous mode | retries, order of startup |
| Transkomunikator | `src/transkomunikator/*` | autonomous mode, model slots, oath | reports of failure, load and unload | failures counted, reconnection |
| NAS security | `nas/security/*.py` | watched processes | poll, restart | restarts |
| Ada/SPARK programs | `src/*.adb` | sequential | validation, minting, identity | boundaries of numbers |
| Faucet DNS | `src/faucet_dns.erl` | records of nodes, heartbeats, one mailbox | register, authenticate, heartbeat, revoke, isolate, cleanup | heartbeats behind the cleanup in the mailbox; a server held up by its reports; a status without a clause |
| PrazskyGros | `contracts/PrazskyGros.sol` | supply, cover, rate | mint, burn, refill, receive, updateRate | rounding that adds up, change of the rate |
| Rust core, Flutter app, web pages, media tools | `rust_a19_core`, `app`, `web`, `src/asgard_*.py`, ... | little | | no protocol |
| Vendored | `faucet/`, `gnatprove_13.2.1_28fc3583/` | | | third party |

How they interact. `KarelIVEngine` registers four components with an
`AppLifecycle`; their functions start and stop a `PrivacyProtocol`'s purge cycle
and a `MeshLayer`. A `MeshLayer` owns an `OfflineFallback`, a `PrivacyProtocol`
and a `MeshOrchestrator`: it reads the fallback's state, queues there or
encrypts, routes and decrypts, and its callbacks run in the fallback's monitor
thread. `ShadowNode` polls the primary's HTTP endpoint. `ModelShardManager` is
called by whoever distributes models; the repository has no such caller yet.
`AudioPipeline` of `wire_audio_pipeline.py` calls a `StreamDubber`, which owns an
`AudioCapture`. `faucet_dns.erl` serves any client of the mesh; the Python
orchestrator keeps its own nodes. The contract stands alone.

What makes each part correct is what section 4 lists as its properties; the
places where it may fail are the hazards of `PROJECT.json`, each at its line.

## 2. Modules

| Module | Models | Built on |
|---|---|---|
| `AuditLedger` | abstract: what the privacy protocol promises of its log and its metadata | |
| `PrivacyProtocol` | the service, with its threads and its lock | instantiates `AuditLedger` |
| `PrivacyProtocol_proofs` | theorems | |
| `OrderedServices` | abstract: what the lifecycle promises of the components registered with it | |
| `AppLifecycle`, `MCAppLifecycle` | the state machine, startup, shutdown, resource monitors | instantiates `OrderedServices` |
| `KarelEngine` | the engine's components on top of the lifecycle | extends `AppLifecycle` |
| `KarelEngine_proofs` | theorems on the lifecycle and on the engine | extends `KarelEngine` |
| `OfflineFallback` | the fallback, its monitor threads and its queue | |
| `MeshLayer` | encrypted routing over the fallback | extends `OfflineFallback` |
| `MeshOrchestrator`, `MCMeshOrchestrator` | nodes, routing, burst | |
| `MeshOrchestrator_proofs` | theorems | |
| `ShadowNode` | shadow and primary in real time | |
| `ShadowNode_proofs` | theorems | |
| `ModelShardManager` | shards, totals, plans | |
| `ModelShardManager_proofs` | theorems | |
| `StreamDubber` | the pipeline and its capture: calls, two kinds of threads, the queue | |
| `StreamDubber_proofs` | theorems | |
| `PrazskyGros` | the contract's supply, cover and rate | |
| `PrazskyGros_proofs` | theorems | |
| `FaucetDns` | the registry of nodes and its mailbox in real time | |
| `Mesh_proofs` | theorems on the fallback, the encrypted routing and the registry | extends `MeshLayer`, `FaucetDns` |

How state and actions correspond to the code: the comment on each variable names
the attribute it stands for, each action has the name of the method or of the
part of it that it models, and `map` in `PROJECT.json` gives the lines. The
grain of atomicity follows the locks. What happens under a lock and cannot be
seen half-way is one step. Whatever the code reads in one place and uses in
another without a lock is two steps, with a control point (`pc`, `mon`,
`client`) in between: the purge flag in `schedule_purge`, the state in
`route_task_encrypted`, the payload that is encrypted and stored back,
`component.started` before and after `shutdown_fn`, the burst flag and
`_gcp_below_threshold_since` in `_evaluate_burst_thresholds`, the state before
`startup`'s first transition. A thread that is assigned in one line and started
in a later one is two steps in `AppLifecycle` and `StreamDubber`, so that a join
may come between and raise (`threading.Thread.join` on an unstarted thread). In
`PrivacyProtocol` the two lines are one step: `stop_purge` asks `is_alive`
first, and treats a thread that is not started like one that has ended. In
`OfflineFallback` they are one step because one thread starts and stops the
monitoring there (`joining`), as `MeshLayer` does; with two, its join could
raise like the other two. `_add_audit_entry` holds the lock over two steps on
purpose, so that what the lock protects is visible.

Definitions that a comment calls *Mutant* are wrong variants of the definition
that follows. The specifications do not use them; `PROJECT.json` pairs each
with the property that notices it.

Choices a reader should know of:

- **PrivacyProtocol.** A hash is the sequence of what was fed into it (SHA-256
  is taken to be free of collisions). Ciphers, values of the metadata and the
  scan of the file system are left out; their audit entries are not. `get_status`
  takes a plain lock and calls a method that takes it again: its caller never
  takes another step.
- **AppLifecycle.** `live[c]` counts the startups of a component not undone by a
  shutdown. `transition_to` ignores a transition that is not in its table, and
  its callers ignore its answer; both are kept. `healthy` is never set back to
  true, as in the code. The test of `started`, the call of the component's function and
  the assignment of the flag are three steps, and other threads may come between them:
  two shutdowns can both pass the test. A join with a timeout may return at any time: the
  thread it waits for sleeps longer than the timeout. A thread past its last look at
  anything shared counts as ended.
- **KarelEngine.** A step of the lifecycle and what the component's function does
  are one step: the function runs inside the walk. The engine has no method that
  resets a stopped lifecycle, so a restart is the reset of `AppLifecycle`, by
  `transition_to(INITIALIZING)`. A start function may raise half way: a MeshLayer
  whose connectivity monitor runs and whose purge cycle was not scheduled is
  `halfStarted`, and `ReleasedByStop` excepts such a monitor by name and
  `engine_partial_start` shows what becomes of it. `purging`, `monitoring` and
  `meshPurging` are the flags that switch the threads on: a stop clears them, while the
  threads themselves may run on until they look at the flag, as `PrivacyProtocol` and
  `OfflineFallback` show for one object each. The purge cycle of the privacy component and that of the
  MeshLayer belong to two different `PrivacyProtocol` objects; nothing is claimed of
  their relation.
  `activate_user` is not modelled: it calls `SubscriptionManager.activate`, which
  does not exist, and always raises.
- **OfflineFallback, MeshLayer.** Counters saturate at the threshold they are
  compared with. With two monitor threads an increment of a counter is one step.
  A payload is the number of times it was encrypted, an attribute of the task object,
  which clients may share: reading it and storing the ciphertext are two steps.
  `queue_task` on a full
  queue is refused, which `route_task_encrypted` answers with the same `None`.
- **MeshOrchestrator.** Time is a clock in units of its constants; usage is in
  tenths; the burst is only turned on and off by the thresholds. A node is able to take
  a task by its status and its CPU, as in the code, which does not look at its memory.
- **ShadowNode.** Time advances by seconds. A request lasts at most its timeout;
  the timeout of the HTTP library bounds connecting and each read, so a server
  that answers byte by byte could take longer, which the model leaves out. Both
  processes may be restarted: the primary loses its counters, the shadow its copy.
- **ModelShardManager.** Bytes, hashes and the integrity check are left out.
  `nodeMaps` is `_node_maps` with the node's own entry in it: `register_remote_node`
  replaces the entry of any id, the own one included. A sync plan is handed out as a whole
  and carried out by an external transport, shard by shard, in any order.
  `FirstMayOmit` says whether the call that registers a model may leave its total out.
- **StreamDubber.** A chunk has no content; whether it holds speech is a choice.
  A thread is a number that is never used again. Each test of a thread attribute, each
  use of it and each assignment is a step of its own; `start` and `join` of Python's
  threads raise where the library does, and the call ends there. Properties that the
  code only has while calls do not overlap and threads end within their joins say so
  with the histories `overlapped`, `lateLoop` and `lateCapture`, which no action reads.
- **PrazskyGros.** The balances are OpenZeppelin's; the supply stands for them,
  since any of it may be in one hand. A transaction that reverts is no step.
- **FaucetDns.** Time passes in whole seconds. A heartbeat is dated when it is
  handled. The server waits for the answer of the webhook to which it reports
  denials, with no limit in the code: `MaxLate` is how long the mailbox takes to
  be empty again, an assumption about that webhook. A wrong token and a refused
  registration change no node. Both ways to authenticate are there; the one with
  attestation looks at the papers and never at the status.

## 3. Configurations

Listed in `PROJECT.json`; each finishes within three minutes.

| Run | Instance | Properties | What it shows |
|---|---|---|---|
| `privacy` | 2 callers, 2 purge threads, 4 calls, 2 intervals; one caller restarts the cycle, one may block in `get_status`; fair | `ChainIntact` `PurgeAccounted` `ImplementsLedger` `PurgedUnlessBlocked` `LoopsEnd` | the audit chain verifies in every state, nothing leaves the metadata unaccounted for, the service implements the ledger also when the lock is lost, metadata is purged unless it is, and purge threads end |
| `lifecycle_failures` | 2 components, 2 drivers, 2 monitors, 1 failing function, unclean resets, fair | `ReadyIsUnderway` `MonitorsEnd` | whatever two threads in startup, shutdown and reset do to each other, READY, which no call leads out of, is never left behind, and monitors end |
| `engine_restart` | the engine's table, 1 driver, 1 reporter, 3 failures, 5 MeshLayers, half starts | `RunningMeansLive` `StartedMeansLive` `ImplementsServices` `ReleasedByStop` | RUNNING means that all is up, what counts as started is up, each step is one of an ordered startup or shutdown, and a stop releases what was started to the end |
| `offline` | 3 tasks, queue of 2, 2 monitor threads, 2 changes of the network, fair | `AcceptedIsKept` `LossDetected` `Reconnects` | an accepted task is never dropped by the queue; losses and returns are noticed, also with a monitor that outlived its stop |
| `mesh` | 2 clients, 2 tasks they may share, 2 calls, queue of 1, 2 changes of the network, 1 monitor, fair | `ReleasedOnline` `ReconnectConfirmed` `QueuedIsDrained` | the switch back needs consecutive good probes and comes before the drain; what was queued offline leaves the queue |
| `orchestrator_routing` | 2 nodes, 3 reports, 2 kinds of task, window of 2, clock to 3, 1 caller | `FreshIsActive` `RoutedWell` `EndsAfterQuiet` | routing uses the present state of the nodes; the burst ends after an unbroken quiet time |
| `shadow` | the code's timeouts 2, 3, 5 and 15 s | `FailoverInTime` `RecoveredInTime` `CopyKept` | failover within 25 s of the last loss, demotion and a fresh copy within 10 s; the copy only shrinks with a process that lost its memory |
| `shard` | 1 model, indices 0..2, totals 2, 3 or (after the first call) left out, 1 version, 1 remote node | `NodeHoldsPart` | the distribution constraint under totals that disagree, if the call that registers a model names its total |
| `dubber` | 2 callers (one starts), 2 sessions, queue of 1, fair | `VoiceReady` `CaptureFollows` `PutFindsRoom` `RaisesOnlyOverlapped` `LoopsEnd` | no overlap of calls leaves a running dub without its voice; unless a start and a stop overlapped, capture and dubber agree and no call raises; every processing thread ends |
| `gros` | a unit of 3, 5 units of supply, words up to 16, rates 1, 2 and 4, 4 mints | `Solvent` `CoveredUpToDust` `BurnIsFair` | the ether is there, suffices up to one wei per mint until the rate rises, and no burn takes from the others |
| `faucet` | 2 nodes, a timeout of 6, up to 2 late, heartbeats every 3, 2 requests waiting | `SilentGone` `LivelyKept` | silent nodes go within an exact bound, nodes that keep their interval stay |
| `privacy_get_status` | one caller of `get_status`, fair | `MetadataIsPurged` | **violated**: see section 6 |

Bounds. Every bound is a constant in a guard (`MaxOps`, `MaxCycles`,
`MaxErrors`, `MaxFlips`, `MaxCalls`, `MaxTime`, `MaxRegistrations`, `MaxMeshes`,
`MaxCoins`, `MaxStarts`, `MaxMints`, `MaxMailbox`), and each is large enough for
the case the properties are about: four calls are schedule, store, stop and
schedule again, with a purge in each of two intervals; three errors of
`engine_restart` are two failing starts and a report in one behaviour, the one
of `lifecycle_failures` fails a start or a stop between two drivers; two changes
of the network are a loss and a return around a full queue of every size up to
its limit; a window of two latencies is full, slides, and has averages above,
between and below the thresholds; three seconds pass a heartbeat timeout of one
and a quiet time of two; three shards with totals of two and three, and left out
in later calls, let a total grow under a stored set, and a shard be refused. Two
calls of the mesh's clients are a task and its repetition, or the same task
object in two hands. Two sessions of the dubber are one thread that outlives its
join beside its successor, and a queue of one is full after one chunk. A supply
of five with a unit of three mints amounts below, at and above a unit, and the
words of 16 let the checked multiplications fail. A timeout of six with two
seconds late and an interval of three leaves one second of margin: with an
interval of four `LivelyKept` fails (`faucet_documented.cfg`), and the bound of
`SilentGone` is reached. The time of `FaucetDns` is not bounded: cleanups bound
the ages. `ShadowNode` has no bound on time: ages saturate just above the bounds
they are compared with, so that outages, flaps and partitions of any number and
length are covered. Two callers are enough to show every race between two of
them; what holds for any number is in section 5.

Three runs do not check deadlock: calls and intervals of `privacy` are bounded and
`get_status` blocks for good; sessions of `dubber` and mints of `gros` are bounded.
`PurgedUnlessBlocked` excepts a lock that `get_status` has lost. `ReleasedOnline`
and `ReconnectConfirmed` are about one monitor thread, `EndsAfterQuiet` about one
caller: the code shares a counter or an attribute there without a lock.
`ImplementsServices` is for one driver: two threads in `startup()` both pass its test
of the state and start everything twice; the engine calls it from one thread.
`lifecycle_failures` has two, for what holds all the same; `lifecycle_two_drivers`
shows what does not. `ImplementsServices` and `ReleasedByStop` are also for a driver that
shuts down before it resets: `engine_orphan` shows the other case. `NodeHoldsPart` is for a
first call that names the total, `shard_unknown_total` for one that does not.
`QueuedIsDrained` is about what is in the queue at the drain; a task queued just after it
is `NoTaskStranded`, which fails (`mesh_documented`). The type invariants
are not in the configurations; those of the modules with proofs are theorems.

Fairness. Threads that Python runs make their next step (weak fairness of a
purge loop, a monitor's round, the dubber's processing, the rest of a call once
made); nobody is obliged
to make a call, to fail, or to bring the network back. In `PrivacyProtocol` the
step that waits for the lock is strongly fair: every section is short, and a
loop that competes for it once in hours is not starved for ever by callers.
`Tick` of `ShadowNode` needs none: its properties are bounds on ages, that is,
safety; so are those of `FaucetDns`. The recording thread of the dubber has no
fairness: the sound device may hang, and `LoopsEnd` does not need
it, since `get_chunk` and every join have a timeout.

## 4. Properties by part

- *Privacy.* `ChainIntact`: what `verify_audit_chain` recomputes is true in every
  state. `PurgeAccounted`: everything stored is still held, counted in the log, or
  counted by an entry in flight. `ImplementsLedger`: the service refines
  `AuditLedger`. `PurgedUnlessBlocked`: held metadata is purged while the cycle
  stays scheduled, across stops and restarts of it. `LoopsEnd`: no purge thread
  survives the last stop.
- *Lifecycle and engine.* `RunningMeansLive` against errors from other threads;
  `ImplementsServices`: the lifecycle refines `OrderedServices`, in which a component
  comes up after all of lower priority and goes down before them, nothing goes down
  while RUNNING, and STOPPED or a reset finds all down (`DependencyOrder` and
  `StoppedMeansReleased` follow);
  `StartedMeansLive`, since `shutdown` chooses by the flag what to stop, with one driver;
  `ReadyIsUnderway`, since no call leads out of READY but the startup that set it, with
  any number; `ReleasedByStop` after any failures and errors, for the flags of what was
  started to the end.
- *Mesh.* `AcceptedIsKept` relates what callers were told with the queue;
  `ReconnectConfirmed` and `ReleasedOnline` relate a switch to the history of
  probes; `RoutedWell` relates a decision to the nodes as they are, not to the
  status the code had stored.
- *Shadow.* Real-time bounds, with the loop's own delays added; `CopyKept` against
  restarts on both sides.
- *Shards.* `NodeHoldsPart` after any sequence of stores, swaps, plans and inventories.
- *Dubber.* `VoiceReady` is the race of two flags, each written before the other is
  read; `PutFindsRoom`: a test of the queue that is stale when used; `CaptureFollows`
  relates two objects that are switched by different steps, and allows a running dub
  not to record only when its own recorder has failed or a join gave up an earlier one;
  `RaisesOnlyOverlapped`: the error paths of unstarted and cleared threads need an
  overlap.
- *Coin.* `CoveredUpToDust` counts the roundings of all mints; `BurnIsFair` compares
  the cover per coin before and after.
- *Registry.* `LivelyKept` is the race of a heartbeat with the cleanup in one
  mailbox; `SilentGone` adds up the delays of both.

## 5. Proofs

`tlapm` proves, for every value of the constants that satisfies the named
assumptions:

| Theorem | Statement | Assumptions |
|---|---|---|
| `PrivacyProtocol_proofs!Typing` | `TypeOK` | finite threads and keys |
| `ChainIntegrity` | `ChainIntact` | |
| `AppendOnly` | `AuditAppendOnly` | |
| `LedgerImplemented` | `Spec => ImplementsLedger` | |
| `PurgesAccounted` | `PurgeAccounted` | |
| `KarelEngine_proofs!Typing`, `NeverStuckReady` | `TypeOK` of the lifecycle, `ReadyIsUnderway` | any drivers, failures and resets |
| `FlagTruth`, `PausingIsLeft` | `StartedMeansLive`, `PausingIsUnderway` | `OneDriver`, for the second some driver |
| `OrderedStartStop`, `StoppedReleases` | `DependencyOrder`, `StoppedMeansReleased` | `OneCleanDriver` |
| `MeshOrchestrator_proofs!Typing`, `FreshStaysActive` | `TypeOK`, `FreshIsActive` | any nodes, callers and thresholds |
| `RoutesWell`, `RefusesOnlyWithoutNodes` | `RoutedWell`, `RefusedOnlyWithoutNodes` | |
| `BurstEndsAfterQuiet` | `EndsAfterQuiet` | `OneCaller` |
| `ServicesImplemented` | `Spec => ImplementsServices` | `OneCleanDriver` |
| `RunningIsLive` | `RunningMeansLive` | `OneDriver` |
| `StopReleases` | `ReleasedByStop` | `OneCleanDriver`, `EngineTable`: privacy and mesh have a shutdown function |
| `ShadowNode_proofs!Typing`, `FailsOverInTime`, `RecoversInTime`, `CopySurvives` | `TypeOK`, `FailoverInTime`, `RecoveredInTime`, `CopyKept` | any timeouts |
| `StreamDubber_proofs!Typing`, `VoiceIsReady`, `RaisesAreOverlaps`, `PutNeverBlocks` | `TypeOK`, `VoiceReady`, `RaisesOnlyOverlapped`, `PutFindsRoom` | any callers, sessions and capacity |
| `CaptureFollowsDubber` | `CaptureFollows` | |
| `PrazskyGros_proofs!Typing`, `AlwaysSolvent`, `CoverHolds`, `FairBurns` | `TypeOK`, `Solvent`, `CoveredUpToDust`, `BurnIsFair` | any unit, limits, amounts and rates |
| `ModelShardManager_proofs!Typing` | `TypeOK` | any totals and inventories |
| `NodeNeverWhole` | `NodeHoldsPart` | `TotalsKnown` |
| `Mesh_proofs!OfflineTyping`, `AcceptedStays` | `OfflineTypeOK`, `AcceptedIsKept` | any tasks, threads and limit of the queue |
| `MeshTyping` | `MeshTypeOK` | any clients, calls and shared tasks |
| `OfflineReconnectConfirmed`, `MeshReconnectConfirmed` | `ReconnectConfirmed`, of the fallback alone and under the mesh | `OneMonitor` |
| `ReleasesOnline` | `ReleasedOnline` | `OneMonitor` |
| `RegistryTyping`, `SilentAreGone` | `TypeOK` of the registry, `SilentGone` | any nodes, requests and delays |
| `LivelyAreKept` | `LivelyKept` | `BeatInterval + MaxLate < HeartbeatTimeout` |

The arguments:

- *Chain.* `ChainIntact` is not inductive: an append is right only if the hash
  it uses is still the head. `AppenderInv` says so: a thread that is appending
  holds the lock and remembers the head as it is. Only one thread holds the
  lock, so no other append comes between (`ChainInductive`); appending to a
  chain that verifies gives one that does (`AppendKeepsChain`).
- *Ledger.* Each step is mapped: the start of an audited call owes an entry,
  `ClearMetadata` owes one with the count, `AppendEntry` settles, all others
  stutter. That a thread owes at most one entry comes from its control point.
- *Books of the purges.* `PurgeAccounted` equates sums over the log and over the
  threads. A sum is the number of its units, `Total`: the size of a set of pairs of
  a place and a number below the count at that place. It grows by the count
  that an entry adds (`TotalAdds`, from the sizes of disjoint sets). A clear moves
  what was held to a thread in flight (`TotalAtPoint`), an append moves it from
  there to the end of the log (`TotalAtEnd`), and every other entry owes nothing
  (`FreshEntryOwesNothing`).
- *Ready.* Only a startup sets READY, and only its own steps and an error lead out, so
  that `ReadyIsUnderway` is inductive with the types (`ReadyStep`), whatever the other
  drivers do.
- *Flags.* `FlagInv` adds to `StartedMeansLive`, which excepts the point between a
  shutdown function and the assignment after it, that a component about to be marked as
  started is up. `OneDriver` is needed: with two,
  one may mark what the other has just stopped. `PausingIsLeft` adds that the monitor
  that a shutdown joins has been started.
- *Order.* `OrderInv` describes the walks: while a driver is starting, the
  components not yet visited come after those visited, and the visited ones are
  up; while it is stopping, the reverse; between calls `tornDown` tells whether
  all is down. `OneCleanDriver` is needed: with two drivers two walks interleave,
  with a reset that is not preceded by a shutdown a second startup finds
  components up, and a shutdown function that raises leaves its component up
  while those below it are stopped.
- *Services.* What is up is what is started (`AliveIsStarted`, from `OrderInv`). A step
  of a walk then is a step of the abstract lifecycle: the first of those not yet visited
  has everything of lower priority below it (`StartImplements`), and the last has nothing
  above it (`StopImplements`); the state at that point comes from `RunningInv`. A transition that
  the table refuses stutters, and one that it accepts is the abstract one
  (`AnnounceImplements`, `ErrorImplements`).
- *Running.* `RunningInv` says which states the application can be in at each point of
  the one driver (`WalkInv`), errors reported by others included, and that what its
  startup has passed is up; so an error can only prevent RUNNING. With two drivers one
  may stop what the other has just brought up.
- *Engine.* `ThreadsInv` ties the threads of the engine to the walks of the
  lifecycle: the purge cycle is scheduled exactly while the privacy component is
  up, and only the last MeshLayer has threads, and only while the mesh is up or
  half started. With `OrderInv`, which says that the privacy component is up
  whenever the mesh is, `ReleasedByStop` follows (`EngineInductive`): a shutdown that walks
  to its end has lowered every flag.
- *Time.* `LossInv` and `ReturnInv` say how old an outage or a return can be at
  each point of the shadow's loop, with the seconds left there: the sums of the
  timeouts passed so far. `FailoverBound` and `RecoverBound` are the largest of
  them, for any timeouts.
- *Voice.* `VoiceInv`: while a running pipeline in DUB mode lacks its voice, some
  caller is still on the way to loading it, from either side of the race.
- *One recorder.* While no calls have overlapped, at most one caller is between
  start and stop (`CallsApart`), and while no join of the recording thread has
  timed out, only the stored thread records (`RecorderStep`): nobody else can
  fill the room that it saw.
- *Capture.* The two objects are switched by different steps of a call. `FlagInv` says
  which caller is under way while the flags of dubber and capture differ, and
  `OneProcessor` that, while no join has timed out, only the stored thread processes, and
  only while the pipeline runs or is being stopped. Between the calls no caller is left.
  That the stored thread is not started only while its starter is on the way, and that
  it is only cleared by the one caller that stops, gives `RaisesAreOverlaps`.
- *Solvency.* No step lowers the surplus of ether over the counted cover
  (`SurplusKept`): payments and burns move both alike.
- *Cover.* `CoveredUpToDust` is inductive. A mint pays all but less than one wei
  (`Division`), and adds one to the allowance; a burn leaves the cover per coin no
  lower (`Share`), so what remains is covered as before (`RestCovered`, with the
  allowance unchanged though fewer coins are left).
- *Freshness.* A node becomes inactive only by a check that finds it late, and
  each report makes it active and restarts the time: `FreshIsActive` is
  inductive, and makes the candidates of a routing exactly the able nodes.
- *Quiet time.* `QuietInv`: with one caller, `_gcp_below_threshold_since` is a
  moment since which no average was above the threshold. It is tested and read in
  two steps; nobody else can reset it between them.
- *Mesh.* The queue and the threads of the fallback change apart (only a callback
  does both), and `AcceptedIsKept` is inductive with the types. The counter of successes never runs
  ahead of the streak of good probes, but by a probe that the same thread has
  made and not counted yet.
- *Registry.* `MailboxInv`: a cleanup that is due waits in the mailbox, and `stalled`
  counts only while something waits there, so that no message waits longer than
  `MaxLate`. `AgeInv` bounds the silence of a node by the age of its record and that
  delay, and the age by the time until the next cleanup, which spares no old record
  (`RecordReset`, `RecordSpared`). `LivelyInv` bounds the age of a lively node's record by
  its interval and, while one of its heartbeats waits, by the delay so far.
- *Shards.* `PartInv` adds that a model nobody registered has no shards and that
  no total is one; totals never shrink, so that a count below the total stays
  below. `TotalsKnown` (the call that registers a model names its total, and no call
  names one) is needed, see section 6.

What the assumptions exclude. `OneDriver`: two threads that start and stop the same
lifecycle; nothing in `app_lifecycle.py` stops a second, the engine calls it from one,
and `lifecycle_two_drivers.cfg` shows what happens. `OneCleanDriver`: also a reset from
ERROR without a shutdown before it, which `transition_to` allows and `engine_orphan.cfg`
shows, and a shutdown function that raises. `TotalsKnown`: `shard_unknown_total.cfg`.
`OneMonitor`: a monitor that outlived its join beside its successor; the two then
share the counter of successes, and a switch may follow fewer probes than asked for.
`OneCaller`: routings that overlap, which set `_gcp_below_threshold_since` behind each
other's back (`orchestrator_type_error.cfg`). Each run that checks one of these
properties has an instance that satisfies the assumption. The assumption of
`LivelyAreKept` is one on the clients and the webhook, and without it the property fails
(`faucet_documented.cfg`).

Not proved: every safety invariant and every action property of a run has a theorem.
What stays with TLC is liveness, since fairness and `ENABLED` are out of the prover's
reach: `PurgedUnlessBlocked`, `LoopsEnd`, `MonitorsEnd`, `LossDetected`, `Reconnects`,
`QueuedIsDrained`. `AuditAppendOnly`, `StoppedMeansReleased`, `DependencyOrder` and
`RefusedOnlyWithoutNodes` are proved and in no passing configuration; `PausingIsUnderway`
is proved for one driver and in a configuration with two, which violates it.

## 6. Disagreements between the code and what it says

One is a run of `PROJECT.json`:

- `privacy_get_status`: `get_status` holds the non-reentrant `self._lock` and
  calls `verify_audit_chain`, which takes it again (`privacy_protocol.py:524`,
  `438`). The caller waits for itself and the purge loop never runs again, while
  line 120 promises a "Periodic purge of operational metadata from memory (every
  4h23m)". `main()` makes such a call (line 568).

The others are reproduced by the configurations in the first column, with TLC. A
configuration checks one property; where several rows name the same one, its comment
lists the others, to be put in the place of its last line:

| Configuration | Property | What the code does | What it says |
|---|---|---|---|
| `privacy_double_schedule` | `OnePurgeThread` | `schedule_purge` tests and sets the flag without the lock; two callers start two threads (`privacy_protocol.py:284`) | line 123: "Thread-safe background purge scheduling" |
| `privacy_restart` | `StoppedIsQuiet` | the join gives up after five seconds, a later schedule revives the old thread, and the next stop joins only the new one (`:303`) | line 300: "Stop the background purge cycle." |
| `lifecycle_shutdown_error` | `ShutdownReachesStopped` | `shutdown()` from ERROR stops the components, returns True and leaves the state ERROR (`app_lifecycle.py:277`) | line 271: "Transitions: RUNNING -> PAUSING -> STOPPED" |
| `lifecycle_two_drivers` | `PausingIsUnderway` | the state becomes RUNNING before the monitor thread is started; a `shutdown()` in between joins an unstarted thread, raises `RuntimeError` and leaves PAUSING, from which neither `startup()` nor `shutdown()` goes on (`app_lifecycle.py:340`, `349`) | line 271: "Transitions: RUNNING -> PAUSING -> STOPPED" |
| `lifecycle_two_drivers` | `StartedMeansLive` | the test of `started`, the function and the assignment are not one step: a startup marks as started what a shutdown has just stopped (`:288` to `291`) | line 269: "Gracefully shut down all components in reverse priority order." |
| `engine_orphan` | `NoOrphanMesh` | a reset from ERROR needs no shutdown; the startup after it replaces a MeshLayer that is still on, and no stop reaches its threads again (`:168`, `wire_karel_engine.py:129`) | line 157: "- ERROR -> INITIALIZING (reset)", with line 269 of the shutdown |
| `engine_partial_start` | `AllReleasedByStop` | a MeshLayer whose `start` raises after its monitor was started is not marked as started and never stopped (`:288`) | line 269: "Gracefully shut down all components in reverse priority order." |
| `mesh_documented` | `NoTaskStranded` | the state is read, then the task is queued; if the monitor switches and drains in between, the task stays queued while online (`wire_mesh.py:69`) | `offline_fallback.py:75`: "A task queued for mesh delivery when connectivity returns." |
| `mesh_documented` | `DrainedIsRouted` | the list that `drain_queue` returns is counted and dropped (`wire_mesh.py:99`) | `offline_fallback.py:94`: "Queue: tasks are stored and retried when connectivity returns." |
| `mesh_documented` | `AnswerIsPlain` | the ciphertext replaces the caller's payload; a retry encrypts it twice and decrypts it once (`wire_mesh.py:80`) | line 66: "Encrypts payload, routes via orchestrator, decrypts result." |
| `orchestrator_type_error` | `NoTypeError` | `_gcp_below_threshold_since` is read twice without the lock (`mesh_orchestrator.py:515`, `517`); another caller may set it to `None` in between, so that `route_task` raises `TypeError` after the task was executed | line 162: "Thread-safe: all state modifications are lock-protected." |
| `orchestrator_documented` | `GaugeCountsNodes` | registering a known node increments the gauge (`mesh_orchestrator.py:214`) | line 38: "Total number of registered mesh nodes" |
| `orchestrator_documented` | `RoutedWithRam` | the candidates are chosen by status and CPU (`:359` to `361`); a node without free memory is routed to | line 304: "Node must have capacity (CPU < 80%, RAM available)" |
| `orchestrator_overload` | `OverloadBringsBurst` | a task refused for want of a node returns before the thresholds are evaluated (`:335`) | line 158: "Monitors latency and activates GCP burst when overloaded" |
| `shadow_documented` | `FailoverAsDocumented` | failover may take 25 s: the timeout is only tested once in a cycle (`shadow_node.py:119`) | `RELEASE_NOTES.md:213`: "Expected Failover: < 20 seconds" (line 180 says less than 25) |
| `shadow_split_brain` | `OnePrimary` | silence alone makes a primary, so that a cut network has two (`:273`) | `SYSTEM_OVERVIEW.md:137`: "Primary: ONLINE  → shadow_is_primary=0" |
| `shard_unknown_total` | `NodeHoldsPart` | a total left out is guessed as index + 1; shard 0 first makes a model of one shard, for which nothing is enforced (`model_shard_manager.py:145`) | line 92: "No single node holds all shards of any model (distribution constraint)" |
| `shard_unknown_total` | `AssembledIsWhole` | with a total guessed too small a part is assembled as the whole (`:285`) | line 276: "Complete model bytes, or None if incomplete" |
| `shard_unknown_total` | `CheckSeesLocal` | `register_remote_node` accepts the node's own id and replaces its inventory, after which the check no longer sees the local shards (`:431`) | line 365: "Returns True if no single node holds all shards." |
| `shard_ratio` | `RatioRespected` | the ratio is computed and not compared; five of six shards are stored (`:360`) | line 341: "A node can hold at most MAX_SHARDS_PER_NODE_RATIO (80%) of shards." |
| `shard_plan` | `TargetHoldsPart` | each shard of a plan is weighed alone, the whole plan gives the target everything (`:409`) | line 405: "Check that giving this shard wouldn't violate constraint" |
| `shard_plan` | `ServedVersionKept` | shards are keyed without their version; the next version overwrites the active one (`:170`) | line 307: "Old shards are kept until the new version is fully available." |
| `dubber_documented` | `StoppedIsSilent` | a stop between the flag and the start of the capture finds nothing to stop, the start goes on, and the stopped pipeline records until the next session (`stream_dubber.py:292`) | line 308: "Stop the dubbing pipeline and release resources." |
| `dubber_documented` | `CallsDoNotRaise` | a stop between the lines that make and start the thread joins an unstarted one and raises; one that clears `_thread` there makes `start()` raise (`:295`, `300`, `319`; the capture the same at `audio_capture.py:147`) | line 272: "RuntimeError: If the pipeline is already running.", the only exception named |
| `dubber_documented` | `RecordsUntilStop` | a recording thread that outlived its join fails later and clears the flag of the new session, which then runs without recording (`audio_capture.py:347`) | line 126 there: "The capture runs until stop() is called." |
| `dubber_documented` | `OneLoop` | a processing thread that outlives the three seconds of the join finds the flag set again by the next start (`:319`) | line 266: "in a background thread" |
| `dubber_documented` | `SegmentHeard` | the mode is read twice; a segment between the reads is neither dubbed nor shown (`:522`) | line 209: "SUBTITLE: Transcribe + translate only, emit subtitle events" |
| `dubber_documented` | `StartsFresh` | nobody empties the capture queue: a session begins with what the last one recorded (`audio_capture.py:128`) | `stream_dubber.py:11`: "Target: <2s end-to-end dubbing latency" |
| `gros_full` | `AlwaysFull` | roundings of mints add up, and a raised rate applies at once (`contracts/PrazskyGros.sol:44`, `65`) | line 71 of it, in Czech: always true if the coin exists |
| `faucet_documented` | `BannedIsDenied` | `authenticate_utl_node_attested` looks at token and papers and not at the status: a revoked or isolated node is admitted (`faucet_dns.erl:388` to `393`) | line 117: "Revoke a node's access to the mesh" |
| `faucet_documented` | `AuditKept` | the status `isolated` has no clause in the cleanup (`faucet_dns.erl:511`) nor in the authentication (`:257`): the first of them after an isolation ends the server, and the registry with the audit log is gone | line 510: "OR revoked (keep for audit)" |
| `faucet_documented` | `LivelyKept` | with an interval that leaves no room for a late cleanup a lively node is dropped (`:513`) | line 20: "Node dead after 2 min no heartbeat" |

For example, `tlc -config mesh_documented.cfg MeshLayer.tla` (the module is the
one that defines the property; for `lifecycle_*` it is `MCAppLifecycle`, for
`orchestrator_*` `MCMeshOrchestrator`, for `engine_*` `KarelEngine`). Without a
configuration: line 156 of `app_lifecycle.py` says "- Any -> ERROR", and its table
rejects the transition in STOPPED (line 167).

A consequence worth knowing: since a node may not hold all shards of a model of
several, `assemble_model` never succeeds for one while the constraint is kept.

## 7. Not modelled, and the plan

Not modelled in the parts above: ciphers and hashes as functions of bytes, the
scan of the file system, resource figures and uptime, Prometheus counters (but
the gauge that is claimed to count nodes), integrity of shards, GCP itself, the
processing of sound, the target language, the address whitelist and the name
records of the Faucet DNS, ERC20 balances.

In the order of the next stages:

1. `karel_iv.py`: the Bifrost retry queue (lines 916 to 1165) and the autonomous
   mode, with an abstract specification of a retry queue that both implement; the
   translation engine's choice of a backend.
2. `SubscriptionManager` and `wire_geall` (expiry, gauges, offline degradation),
   then `UTLApp` composed with it (the monitor that writes after a stop).
3. The slots of the Transkomunikator's memory manager, and its autonomous mode.
4. The rules of `soulbound_nft.adb` and `mincovna.adb` and the decoder of
   `eth_rlp.adb` as pure algorithms against reference definitions. These programs
   are sequential and carry contracts of their own, for GNATprove.
5. An abstract bounded queue that `OfflineFallback` and the capture queue
   implement, and an abstract burst control for `MeshOrchestrator`.
6. Theorems: the refinements of item 5. The safety properties of all runs are proved.

The user interfaces, the servers around external programs and the numeric kernels
have little state and no protocol; they are listed in `PROJECT.json` with the
reason, and so are the vendored parts.
