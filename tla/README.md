# tauri-plugin-background-service: a verification project

TLA+ models of the plugin that keeps one long-lived background service running
inside a Tauri application, from its manager actor to the Android service, the
iOS background tasks and the desktop daemon around it, and the calls, messages and
network watcher beside it. TLC checks them on small
instances; TLAPS proves every safety property of the passing runs for all
instances. Paths below are
relative to `src/tauri-plugin-background-service/`; `ARCHITECTURE.md` and `CHANGELOG.md` are the
ones at the root of the repository.

Contents: [the system](#1-the-system) ·
[what is hard about it](#2-what-is-hard-about-it) ·
[the modules](#3-the-modules) · [the runs](#4-the-runs) ·
[the proofs](#5-the-proofs) · [where code and words differ](#6-where-code-and-words-differ) ·
[what is not modelled](#7-what-is-not-modelled) · [the plan](#8-the-plan) ·
[running it](#9-running-it)

## 1. The system

An application implements `BackgroundService` (`src/service_trait.rs`: `init`,
`run(ctx)` with a cancellation token, an optional shutdown hook). The plugin runs
one such service at a time, persists whether it *should* be running, and brings it
back after crashes, boots and platform stops.

| component | state it keeps | operations |
|---|---|---|
| **Manager actor**, `src/manager.rs` | token slot, generation counter, running flag, lifecycle, last error, the one terminal-reason slot, the armed `on_complete` callback; it reads and writes the desired state | `Start`, `Stop`, `StopWithReason`, `NativeLifecycleEvent`, `SetOnComplete`, `IsRunning`, `GetLifecycleStatus`, `SetDesiredRunning`, `EnableAutoRestart`, `DisableAutoRestart`, `ShutdownGracefully`, the replay at boot |
| **Service tasks**, spawned by `handle_start` (one per generation) | where the task is, the captured callback, the result of `run()` | `init`, promotion to Running, `run`, classification of the end, clearing write, callback, token cleanup under the generation check |
| **Status document**, `src/manager.rs` `build_lifecycle_status`, `src/mobile.rs` | none of its own; it converges the actor's belief | ask the bridge (one call on Android, three on iOS), merge, degrade, answer |
| **Desired-state file**, `src/desired_state.rs` | `bg-desired-state.json` and its temp sibling | `load`, `save`, stale-temp cleanup, `clear` |
| **Lifecycle types**, `src/models.rs` | none (`StopReason`, `ServiceState`, native events, the persisted record) | conversions and classifications of reasons |
| **Persistent IPC client**, `src/desktop/ipc_client.rs` | queue of commands, response slot, `connected` and `desired_running` flags, reconnect backoff | the handle's methods, the client task, its reader task |
| **IPC server**, `src/desktop/ipc_server.rs` | one task per connection, a broadcast receiver | accept, request, reply, forwarding of events |
| **Daemon and OS service**, `src/desktop/headless.rs`, `service_manager.rs`, `src/lib.rs` | the daemon process, its unit, the user's consent, the GUI's connection | replay, bind, SIGTERM, exit; install, uninstall, start, stop, restart of the unit; provisioning at the launch of the GUI |
| **Plugin setup and commands**, `src/lib.rs`, `src/mobile.rs` | no state beyond the wiring, except for the iOS starters and listeners | Tauri commands, the cold start probe, the warm listener, the cancel listener, exit handling |
| **Android service lifecycle**, `android/.../LifecycleService.kt`, `BackgroundServicePlugin.kt`, `BootReceiver.kt`, `DurableState.kt`, `HeadlessBridge.kt` | the foreground service, its worker threads, the durable record, the label in the preferences, the futures of start acknowledgements | `startKeepalive`, `stopKeepalive`, type updates, `onStartCommand`, `onDestroy`, `onTimeout`, the recreation after a kill, the boot receiver |
| **Android event queue**, `NativeEventQueue.kt` | at most 64 events | enqueue (the oldest is dropped), drain on attach |
| **iOS background tasks**, `ios/.../BackgroundServicePlugin.swift` | the two task references, the one-shot completion flag, the safety timer, two pending invokes, the pending-task record, the desired state and start config, the requests in `BGTaskScheduler` | delivery, expiration, safety timer, `scheduleNext`, app transitions, `startKeepalive`, `stopKeepalive`, `waitForCancel`, `cancelCancelListener`, `completeBgTask` |
| **Socket and short-lived client**, `src/desktop/transport_unix.rs`, `ipc_server.rs`, `ipc_client.rs` | the socket file; a connection per short-lived client | probe, unlink, bind, clean up; send one command and read up to its answer |
| **Network watcher**, `ConnectivityMonitor.kt` | the last fingerprint, the time of the last fire, the generation of the trailing one | register, network callbacks, delayed fires, unregister |
| **Android calls**, `IncomingCallNotifier.kt`, `CallActionReceiver.kt`, `BackgroundCallConnectionService.kt` | the ringing notification and its timeout, the live connections, audio focus and mode | ring, cancel, taps, the callbacks of Telecom |
| **Android messages**, `ActionableMessageNotifier.kt`, `MessageNotificationActionReceiver.kt`, `NotificationActionOutcome.kt` | the notifications under each chat's tag | post, reply, mark read, present again, cancel a chat |
| **iOS calls**, `ios/.../BackgroundCallKit.swift` | what was reported to CallKit, what was answered | report, end, the provider's callbacks |
| Presentation, validation, capabilities, JavaScript API | tables, or none | see section 7 |

How they interact:

- Every command of the application becomes a message to the **manager actor**, which
  handles one at a time. What it starts (the **service task**) shares five things with
  it through locks and atomics: the token slot, the generation, the terminal-reason
  slot, the lifecycle slot and the desired-state backend.
- On Android the actor calls the **native service** through the mobile bridge and
  asks it whether it runs. The native service works in three places: messages of the
  main looper, worker threads that start and stop the core over JNI, and threads that
  wait for a start's acknowledgement. It stops on its own (notification, time limit),
  and its event comes back through the webview, if one is there.
- On iOS the **Swift plugin** stores Rust's invokes and answers them later: the warm
  listener's when a task is delivered, the cancel listener's when a task expires. The
  end of a run calls `completeBgTask` through the armed callback.
- With the desktop daemon the GUI holds a **persistent client** whose requests the
  daemon's **server** forwards to *its* manager actor; events come back over the same
  stream. The **init system** (systemd or launchd) starts, stops and restarts the
  daemon; the GUI's commands go through it.
- A network change nudges the **core** through the Android service's watcher. Calls and
  messages come from the core, by a command of the actor or by an upcall of the headless
  bridge, and the user's taps go back to it past the actor.
- The **file** is the only thing that survives the process on the desktop; on Android it
  is the durable record and the label in the preferences, on iOS `UserDefaults` and the
  requests in the scheduler.

## 2. What is hard about it

`PROJECT.json` lists every hazard with its line. In short:

- **One slot, several generations.** A stopped service drains while the next one is
  already running. Its task still reads the reason slot, still writes the desired state
  and still cleans up; only the generation number keeps it from doing harm, and not every
  one of those accesses checks it.
- **Intent against history.** The desired state is written by the actor *and* by tasks,
  before or after the state it describes changes, and a crash may fall in between.
- **Native authority.** The native side changes without the actor, which learns of it
  late, twice or never; a status is put together while it goes on changing.
- **Two threads, one service.** On Android a stop handled on the looper and a core start
  on a worker both write flags, label and record; a wait for an acknowledgement races the
  acknowledgement.
- **Requests without identifiers.** On the IPC stream a response belongs to "the request
  in flight"; a timeout breaks that pairing for the rest of the connection.
- **Flags written by the dead.** Aborted reader tasks, timed-out listeners, workers of
  destroyed instances and stopped runs perform a last store on state that belongs to
  their successor.
- **Exactly once.** Each iOS background task must be completed once, while expiration,
  safety timer, user stop and natural completion race for it; every end has to submit the
  next requests and no other step may.
- **Somebody else's process.** The init system's stop may return before the process is
  gone; the GUI's flag says connected for a while after its peer died; a start of a dying
  daemon does nothing.
- **One name, several owners.** Two daemons and one socket file; a chat's notification id that
  messages, pending replies and clean-ups share; a call id under which rings, timeouts and
  connections of different moments are kept.
- **Two clocks.** The watcher's debounce window is shorter than the core's rate limit, and a
  change may fall between the two.
- **Two writers of one temp name.** The file is replaced by rename, which is atomic only
  as long as the temp file has one owner.

What makes each component correct:

| component | it is correct when |
|---|---|
| manager | the token slot names exactly the running uncancelled service; beliefs agree with it; every run ends with its own reason; an acknowledged stop stays; an armed callback fires once and before "not running" is reported; stopped services end |
| status | it says up only if the service was, and down only if it was not, at some moment of the query; a timeout shows until it is dealt with |
| file | the canonical file is absent or parses, at every moment and after every crash; it behaves as an atomic cell |
| IPC | each call gets its own answer or a failure, and gets it; flags and mirror agree with the connection and the daemon; events come in order and the last one is never lost; the client finds its way back |
| daemon | what runs is what the user asked for last, whatever crashed or rebooted; a unit opted out of stays out; a restart replaces the process; every command returns |
| Android | what is left at rest agrees with what happened last: a stop is final, the answer of a start is the truth, a recovery is pending exactly if it is needed |
| iOS | each task is completed once; no thread waits for an answer nobody will give; an expiration reaches the running service; a wanted service stays scheduled and an unwanted one is not scheduled by latecomers |
| socket | a daemon that runs alone can bind whatever an earlier one left |
| watcher | the network that stays was fired for |
| calls | a ring's timeout spares a newer ring; audio is given back when the calls are over; the core hears of each act of the user once |
| messages | an action clears its chat, under whichever id it was posted |

## 3. The modules

| module | role |
|---|---|
| `SingleService` | abstract: at most one current run; a run that is cancelled drains; nobody ends the current run on behalf of another |
| `ServiceManager`, `ServiceManagerProperties` | the actor, its service tasks, the desired state, the native side as a bit, and crashes; the refinement mapping to `SingleService` |
| `ServiceManagerProofs` | the slot and the refinement; reasons, intent, callbacks |
| `LifecycleStatus`, `LifecycleStatusProperties`, `LifecycleStatusProofs` | the status document on Android and iOS |
| `DesiredStateCell` | abstract: a cell that changes in one step |
| `DesiredStateFile`, `DesiredStateFileProofs` | `load` and `save` as concurrent threads perform them on names and inodes; with one saver the file is whole and implements the cell |
| `IpcConnection`, `IpcConnectionProperties`, `IpcConnectionProofs` | the handle, client task, reader task, wire and server task |
| `OsService`, `OsServiceProperties`, `OsServiceProofs` | the daemon, its unit, the GUI's commands and provisioning, the user |
| `AndroidService`, `AndroidServiceProperties`, `AndroidServiceProofs` | the foreground service, the keepalive commands, acknowledgements, recreation and boot |
| `IosBackgroundTask`, `IosBackgroundTaskProperties`, `IosBackgroundTaskProofs` | the Swift handlers, the three starters, the cancel listeners and the runs |
| `IpcSocket` | the socket file among daemons |
| `ConnectivityMonitor` | the network watcher |
| `AndroidCalls` | rings, taps, connections and audio |
| `MessageNotifications` | what is posted and cancelled for a chat |
| `CallKitCalls` | the CallKit controller |
| `MCBeside` | these five and `DesiredStateFile` side by side, for one run |
| `BesideProofs` | proofs about the five, each for itself, and that the run behaves as each of them |
| the other `MC*` | the instances TLC checks |

In each model an operator named `Mut...` stands next to the one it varies. No action
uses it: it is the mistake a change of the code could bring in, and `PROJECT.json` pairs
it with the property that catches it.

### ServiceManager

One actor and one task per generation, interleaved at each access to shared state. `pc` is
where the actor is between two `await`s or locks: `recv` waits for a command, `persist` still
has the desired-state write of its handler to do, `converge`, `tag` and `merge` are the points
inside the native reconciliation, `drain` awaits the shutdown hook, `boot` is before the
replay. A write of the desired state, by the actor or by a task, reaches the disk or fails; the
code only logs a failure and answers `Ok` all the same (`src/manager.rs:1661`, `:1696`), and so
do `Persist` and `SaveIdle`.

| action | code |
|---|---|
| `Start` (`Launch`) then `Persist` | `handle_start`: slot check, generation, callback capture, keepalive, spawn; then `save_desired_running(true)` |
| `Rollback` | `handle_start` when `start_keepalive` fails: token, flag, lifecycle and callback back, the generation keeps its bump |
| `Stop`, `NativeLifecycleEvent` (`StopWith`) | `handle_stop_with_reason`: reason tagged, token taken and cancelled, flag and lifecycle, keepalive, clearing write |
| `SetOnComplete`, `SetDesired`, `Drain` | the commands of the same names; the two enables with and without a config |
| `IsRunningQuery`, `IsRunningConverge`, `IsRunningTag` | `reconcile_running_with_native`, in the order the code has: query, converge and cancel, then tag |
| `StatusQuery`, `StatusMerge` | `build_lifecycle_status`, which leaves the token alone |
| `InitOk`, `MarkRunning`, `InitFails`, `RunReturns`, `Classify`, `SaveIdle`, `FireCallback`, `ClearToken` | the spawned task, in order |
| `Boot`, `Crash` | the replay before the loop; the loss of everything but the file |
| `NativeStops`, `NativeRestarts` | `LifecycleService` changing on its own |

`Platform` selects the branch the code selects by `lifecycle_mode` and bridge. Four history
variables (`stopped`, `outcome`, `natural`, `intent`) record what clients and tasks saw;
no guard reads them. `intent` is the wish of the last command whose write reached the disk:
`run` of a start, `armed` of an enable, `idle` of a stop or a disable.

*Simplified:* the running flag and the lifecycle slot change together, in the cleanup of a task
and in the merge of a status; they are two locations, and `LifecycleStatus` takes the two writes
apart. The keepalive command to the native side is one step, and its answer a choice.

### LifecycleStatus

The manager reduced to its slot, its belief and its service task; the native side in full as
far as a status reads it: on Android the running bit and the durable record, on iOS what the
handlers leave in `UserDefaults`. The bridge is asked once on Android (`QueryAndroid`) and
three times on iOS (`QueryIos`, `ReadScheduling`, `ReadPending`). What follows touches the
belief in separate steps, because no lock spans them: `Load` reads `is_running`
(`src/manager.rs:1910`), `MergeRunning` stores it if the two sides diverge, `MergeLifecycle`
writes the lifecycle, and `AnswerStatus` reads it (`:2057`) and answers; `isRunning` goes the
same way, without an answer but with `Revoke` of the token. Between any two of these steps
background tasks begin, end and expire, the service task moves (its own cleanup is `Unbelieve`,
the flag, then `ClearToken`, the lifecycle), and native events wait in `relay`, from which they
reach the actor or are lost. `AndroidDegraded`, `IosDegraded`, `Phase` and `Reported` are the
merge rules. `doc` is the answered document; it holds the snapshot it was made from, so that a
property can compare the two. `up` and `tasked` collect what was the case at every moment of
the query in progress. `torn` is history: a task's cleanup and a query's merge have crossed, so
that flag and lifecycle may contradict each other, and they have not agreed since.

*Simplified:* one current task and the callback of at most one older one; a save of the wish
succeeds (no property of this module reads it after a failure).

### DesiredStateFile

Names point at inodes, an open file follows its inode, a write is a series of chunks.
Actions are the system calls of `load` and `save`: open, read, stale-temp removal,
create (which truncates what is under the temp name), chunks, rename, the removal after a
failed rename, I/O errors, and the death of the process. fsync and the loss of power are
left out: the code's promise in `desired_state.rs` is about a killed process, and a model
of the disk cache would be one of the file system.

### IpcConnection

One client task, the reader of the current connection, at most one *straggler* (an aborted
reader that has already left its loop and still stores `connected = false`), one server
task, and a call per `PersistentIpcClientHandle` method in progress. The stream is two
sequences. A call passes `queued`, `sent`, `answered`, `returned`; only in the last step,
on the caller's own task, is the `desired_running` mirror written. `Execute` and
`Reply` are two steps, because the connection may break after the daemon has done the
work. The daemon's `desired` changes with a client's Start or Stop, whose save may fail without
the client being told (`Saved`), and by itself (`Clears`): a service that ends by itself clears it
(`src/manager.rs:1261`), and so does the user stop a daemon runs on SIGTERM
(`src/desktop/headless.rs:103`) before `SidecarDies`. `strayed` is history: it says that
`desired` is no longer what the last Start or Stop asked for, and why.

*Simplified:* time, so that each timeout may fire whenever its wait has begun; the daemon's manager,
which may clear the desired state whenever it is set, whether or not a service runs; EnableAutoRestart
and DisableAutoRestart, which write `desired` and the mirror as a start and a stop do and have no
calls of their own.

### OsService

The daemon goes through `booting`, `serving` and `stopping`; it ends by a signal, a failed
bind, a crash or a power loss. Its actor replays at its own pace (`actor`), before its first
command but not before the socket is bound, and a start runs the service before it saves the
wish (`SaveStart`). The service ends with Ok, which clears the wish (`Completes`), or fails in
`init` or `run`, which keeps it (`Fails`); the replay may find nothing to start; every save may
fail; and a run that was stopped just after it had ended by itself still clears the wish, maybe
after a newer start (`late`, `SaveLate`). The init system is what `service_manager.rs` writes
into the unit: restart on failure up to `StartLimitBurst`, start at boot if enabled, and a stop
that waits for the process (`systemctl stop`) or returns at once (launchd), which
`config.stopBlocks` chooses. A GUI command and the provisioning task are a `job` each, with a
program counter from `check` and `grace` over `startUnit`, `stopUnit`, `stopping`, `poll`,
`wait` to the answer. `link` is the client's connection and its lag: after `up` comes `broken`
(the peer is dead, the flag still says connected), `stale` (the reader has cleared the flag,
the client task has not noticed) and `backoff` (it tries to connect again). History: `user` is
the last start or stop a daemon carried out, `termed` that a signal has ended the service
since, `failed` that the service failed in this process, `unsaved` that the user's wish is not
(yet) what the file says, `optedOut` that the unit was taken out without consent, `fresh` that
the process is younger than the last stop of the unit, `seen` that a restart's poll saw the
disconnect of the process it stopped.

*Simplified:* `enableAutoRestart` and `disableAutoRestart` are not among the commands here; a start is
answered after its save in the code, and the model does not make the GUI wait for it.

### AndroidService

`looper` is the queue of the main thread: starts, stops, type updates, the null intent of a
recreated service, `onDestroy`. Each handler is one step (`HandleStart`, `HandleStop`,
`HandleOsRestart`, `HandleUpdateType`, `OnDestroy`), each core start a thread in
`worker` with its own steps (`CallCore`, then `Rejected`, or `Accepted` and `SaveStart`),
each core stop a thread in `stoppers`. A start command passes `waiter`: `lookup` (it looks
its future up by name), `waiting`, `failed`, `saving`, then its answer; `ack` is the future.
`StopSelf` is Android's: a started service is no longer started and its `onDestroy` goes
behind the messages in the queue. `orphan` marks the worker of a destroyed instance, whose
monitor nobody unregisters (`leaked`). `Kill` recreates a started sticky service, `Boot` runs
the receiver. `last` records the last event that decides whether the service should run, and
`raced` that a core start overlapped a stop or another start, or that Android refused a
stop intent: for these runs the code keeps no promise (section 6), and the properties
say so in their premise.

### IosBackgroundTask

Every Swift handler runs on the main queue and is one step. `open` is the task iOS waits
for (one at a time); `completions` counts `setTaskCompleted` per task. `starter` is the
position of the user's start, the cold start probe and the warm listener, which read the
pending record, the desired state and the running flag in separate steps before they
send `SetOnComplete` and `Start`. `listener` is the cancel listener of each run:
`due` (spawned), `blocked` on its invoke, `resolved` by an expiration, `timedout`,
`stopping`, `done`. `pendingCancel` is the one stored invoke, whichever run it belongs
to. `ScheduleNext(ok)` cancels both requests and submits both; `ok` are the accepted ones.
The manager is reduced to its slot and the end of its runs, in the order the code has:
callback, then slot after `run()`, slot, then callback after a failed `init()` (`InitFails`).
`ServiceManager` has the rest.

`lost` and `orphaned` are history: kinds whose request was spent on a task that died
with the process, and runs whose stored invoke was answered by an older run's completion
or an older listener's timeout. They make the two known gaps of the code explicit in
the properties instead of hiding them.

### IpcSocket

A daemon is `probing`, `unlinking`, `binding`, `serving`, `draining`; `bind` of
`transport_unix.rs` is three system calls and so three steps, between which other daemons
move. `Terminate` leaves the file, because the `select!` of `headless_main` drops `run` with
its cleanup; `AcceptFails` removes it, whoever owns it by then. `crossed` is history: daemons
that ran beside another one. Nothing is bounded.

### ConnectivityMonitor

Registering the callback (`Register`) and reading the network as the baseline (`Baseline`) are two
steps of the service's thread under the monitor's lock: callbacks arrive in between and wait for
it. The handler thread is `idle`, has `read` the network but not taken the lock, or is about to
`fire` after it left the lock; those are the gaps of `handleNetworkEvent`. `pending` holds
the delayed runnables with their generation and what is left of their delay. `Tick` is the
clock; ages stop growing where no window depends on them any more. `announced` is history:
the network a fire stood for when it passed the lock.

### AndroidCalls

Each of main thread, core thread and tap worker has a `task` and takes one step per call that
others can cross: `Show`, `Arm`, `Invoke`, `Post`, `Keep` for a ring, `Drop`, `Invoke`, `Clear`
for its cancellation, `TimeoutRuns` and `TimeoutForgets` for a timeout that has left the
looper's queue, `Tell`, `Activate`, `Engage`, `Disconnect` for a connection.
`ringTimeouts.remove(callId)?.invoke()` is two steps, wherever it stands: `held` is the
canceler a thread has taken out and not yet invoked, and `caught` is history: calls of which a
timeout ran while another thread held its canceler. It stays, because such a timeout removes
the entry of the ring after it, whose own timeout then cannot be cancelled either. A
notification is named by the ring that posted it, so that a property can tell a fresh one;
`rungBy` records which threads posted it. `setActive` changes the connection's state and then
runs `onStateChanged` on the caller's thread, hence `Activate` and `Engage`; `raced` records
that a connection was disconnected between the two.

### MessageNotifications

`shade` is what the user sees of a chat: one message posted by the app, one by the headless
core, and the summary. A worker goes `dispatch`, then `present` and `group`, or `list` and
`clear`, and is then free for another tap. `crossed` is history: workers in whose chat
something was posted after they listed it. Messages and taps are not bounded.

### CallKitCalls

The plugin's side is single-threaded. What can cross is CallKit: `reports` are on their way to
it, `callbacks` on their way back, each in order. `system` is how CallKit sees a call. The
notes that only choose the configuration of the audio session are left out.

### MCBeside

The desired-state file and the five modules above share no variable with each other: the
manager sees the file only through `load` and `save`, and what calls, messages, sockets and
the watcher do reaches the core or the system, not one another. `MCBeside` puts them into
one module; `part`, chosen at the start, says which of them moves. Its behaviours are those
of the six modules, one after the other, and every property is the module's own.

### Fairness

Weak fairness for the service and the daemon, and only where the code's runtime gives it:

- the Tokio runtime polls the actor and every spawned task that can move, the iOS main
  queue runs its blocks, every timer fires in the end (IPC: 2 s Hello, 10 s response,
  30 s tick, backoff);
- a cancelled service returns from `run()` and the shutdown hook returns: that is the
  contract of `BackgroundService`;
- iOS expires a task it gave, or kills the process: Apple's contract for `BGTask`;
- Android's main looper runs what is queued, started threads run, and a JNI call returns;
- the daemon's runtime runs, the init system restarts what it promised to restart, a machine
  that goes down comes up, the client connects to a bound socket and notices a dead peer, and
  the steps of a GUI job are taken.

Strong fairness stands in one place: a due runnable of the watcher's handler thread is run
although network callbacks keep the thread busy, because a looper takes its messages in order
of their time. The other modules in `MCBeside` state no fairness.

Nothing is assumed of user commands, of a service nobody stopped, of kills, crashes and
reboots, of Android's time limit, of the daemon coming back (the IPC properties assume it
explicitly, as `<>[]sidecar`), or of the four hours after which a cancel listener gives up.
`LifecycleStatus` states no fairness: it has safety properties only.

## 4. The runs

| run | question | instance |
|---|---|---|
| `desktop` | Can any interleaving of the actor and leftover tasks, or a crash, make the slot, the beliefs, the reasons or the persisted intent wrong? Do stopped services end, is all of it `SingleService` with its liveness? | 2 starts, 1 crash, user stops, saves that fail; fairness |
| `android` | The same core when the native side changes on its own, and start may be refused | 2 starts, notification stops, no other stop commands |
| `status` | Is the status document true, whatever is lost, late or healed? | both mobile platforms, 7 commands, events and deaths |
| `beside` | Six questions about parts that share no state: is the file an atomic cell; can what a daemon left keep the next one from serving; is the last network announced; do timeouts spare newer rings and does audio end with the calls; does an action clear its chat; does the core hear each act once? | file: 1 saver, 2 loaders, texts of 1 and 2 chunks, 4 inodes; 3 daemons; 2 networks, 3 changes, windows of 2, 4 and 1 ticks; 1 call rung twice, 1 tap, 2 callbacks; 1 chat, 2 workers; 2 calls in CallKit |
| `ipc` | Do answers, flags, mirror and events stay consistent over breaking connections and a daemon that changes its mind, does every call return, and does the client find its way back? | 2 calls and 1 loss, or 1 call, 2 events and 1 loss; broadcast capacity 1 |
| `os_service` | Does the daemon follow the user over failing services and saves, crashes, restarts and reboots, and does every command return? | 2 kinds of host, 2 commands, 1 fault, 2 acts of the user, 1 failure in `StartLimitBurst` |
| `android_service` | Does what is left at rest agree with what happened last? | 2 start commands, 1 stop, timeout, type update, kill or reboot, 2 timeout policies |
| `ios` | Completion, listeners, expiration and scheduling under every overlap | five loads, see below |
| `timeout_preserves`, `restart_not_blocked`, `ipc_slot`, `reboot_replays` | each checks one statement of the repository that the code does not keep (section 6) | the smallest instance that shows it |

What each property says is in the comment above it. In short:

- **desktop.** `TokenMeansService`: the token slot names a generation exactly when that
  generation's task is serving and not cancelled, so `Stop` reaches every service that can be
  stopped and no leftover cleanup takes a newer start's token. `BeliefAgrees`: the flag behind
  `IsRunning` and the lifecycle never contradict the slot. `ReasonIsOwn`: a terminal event
  never carries another generation's reason. `ReasonLostOnlyByOverwrite`: it may carry *too
  little* (natural completion for a stopped run) only in the way of finding 1. `StopSticks`:
  once the write of a stop or a disable has reached the disk the file goes on saying so,
  whatever older tasks still write, whichever saves fail and wherever the process dies, until a
  later start or enable is written. It does not say that an acknowledged stop is on disk: a
  save that fails is only logged, and `intent` then stays with the wish before.
  `CallbackBeforeIdle`: a caller that polls until "not running" can rely on the callback having
  run. `StopDrains`, `ImplementsSingleService`: the liveness.
- **android.** `RefinesSingleService` through adoption, auto-heal and native stops that come late.
- **status.** `TimeoutSurfaces`: a foreground timeout degrades every status asked for until
  a start or a stop, though its event was lost, an earlier query has healed the belief, or
  the app was killed since. `StateIsReal`: up is reported only if the service was up, and
  down only if it was down, at some moment of the query; on Android not as long as flag and
  lifecycle are `torn`. `ActiveAccounted`: a background
  task of iOS that ran for the whole query is reported; a reported one ran during it, or
  ended without a record.
- **ipc.** `AnswersLagOnlyByTimeouts`: an answer can be a neighbour's, but at most as
  many requests back as were given up on this connection. `MirrorAgrees`: after conclusive,
  non-overlapping calls the `desired_running` mirror equals the daemon's state, over lost
  connections too, but for the two things no answer tells the client: a wish the daemon has cleared
  by itself since, where the mirror can only be too hopeful, and a save that failed.
  `FlagFollowsReader`, `EventsInOrderLatestKept`, `CallsReturn`, `Reconnects`.
- **os_service.** `ServiceFollowsUser`: a service that runs was started by the user last, and
  a process that may replay, once its actor takes commands, runs what the user started, unless a
  signal ended it since, it failed in this very process, or the wish is `unsaved`.
  `OptOutRespected`: a unit disabled or removed without consent is never provisioned back.
  `RestartReplaces`: a restart that answered ok has a younger process, also where the init
  system's stop does not wait. `JobsReturn`.
- **android_service.** `StopIsFinal`: after a stop no kill, recreation, reboot or late
  acknowledgement brings back the wish, the label or a recovery, and at rest core, flag and
  monitor are down. `AnswerTruthful`: a resolved start runs, recorded and restartable; a
  rejected one was taken down. `RecoveryTruthful`: a recreation leaves a recovery pending
  exactly if the core stayed down, a timeout leaves the service down and on record.
  `StartAnswered`.
- **ios.** `CompletedOnce`, `NoListenerLeaked`, `ExpirationReaches` (outside the
  `orphaned` runs), `WantedIsScheduled` (outside `lost` and recorded refusals),
  `TaskAnswered`, `ExpirationStopsRun`.
- **beside.** `ImplementsCell`: what a load returns changes in one step, to a value being
  saved, whatever fails or dies in between. `StaleNeverBlocks`: a bind fails only for a daemon
  that ran beside another. `SettledIsFired`: a network that was only recorded within the
  debounce window is still fired for. `TimeoutSparesFresh`, as long as one thread does the
  ringing and no timeout of the call was `caught` between a removal and its `invoke`;
  `AudioRestored`, unless a worker was halfway through `setActive`; the premises name what the
  code loses (section 6). `ClearsChat`, unless something was posted behind the listing.
  `CoreHearsOnce`: answer and hang-up, or decline, in this order and once.

### Why the bounds are enough

- `MaxGen = 2`: every hazard of the manager is between one leftover task and one current
  service. A third generation adds a second leftover, which shares nothing with the first
  but the slots the two already contend for; the proofs cover any number.
- `MaxBoots = 1`: a crash loses everything but the file and returns to `Init` with another
  `store`; the second crash starts from a state the first one can also start from.
- Android runs without desktop stop commands: the native events end in the same
  `StopWith`, and the two together only multiply states.
- Status: seven events are a start, its timeout or notification stop, a query, the loss of
  the event, a death, a start and a query again, the longest history a document depends on;
  the proofs cover any number.
- File: two loaders are enough for one that holds the old inode open and one that cleans
  up; a text of two chunks is the shortest that can be half-written; four inodes serve two
  names and the open files.
- IPC: two calls make a late answer and its victim, or a start and a stop between which the daemon
  clears the wish; one loss makes one old reader and one
  new connection; two events over a capacity of one force an overwrite.
  Calls and events are loaded apart because they share only the stream's order, and one
  load has both.
- OS service: two commands are a start and the stop or restart it meets (the invariants were also
  checked with three, 2.9 million states: then a start may meet the clearing a stopped run still
  owes); one fault is a crash
  or a power loss; two acts are a consent given and withdrawn, a unit disabled and a GUI
  launched, or a reboot and a launch. `Burst = 1` lets one crash be restarted and the next
  give the unit up. The two hosts differ in everything a host can differ in: provisioning and
  autostart under an init system whose stop returns at once, neither under one that waits.
- Android service: two commands make a late acknowledgement and its successor, one further
  event makes each of stop, timeout, kill and reboot meet them at every step. The inductive
  invariant behind the proofs was also checked with two events (3.4 million states).
- iOS: a `load` says which starters exist, how many tasks, runs and launches there are and
  which submissions may be accepted: user with two tasks; user with two runs over one task;
  warm listener with two tasks; cold and warm racing; cold start over two launches. Two
  tasks make an old one and a new one, two runs make a stale completion and its victim.
  `ProcessingCap = FALSE` gives a processing task no safety timer, so the
  property has to hold with the system's expiration alone; refresh tasks have the timer.
- Socket: three daemons are one that left the file and two that meet over it.
- Watcher: a tick is a second. Debounce, window and slack keep the order of 2 s, 5 s and 250 ms;
  three changes are a leading fire, a suppressed one and one that meets the trailing fire.
- Calls: two rings make a fresh one and its predecessor's timeout (the inductive invariant of the
  proof was also checked with three); a tap and two callbacks are an
  answer on either path and the hang-up that meets it. CallKit: two calls make one that is up
  and one that is refused for it.
- Messages: two workers meet in one chat; chats share nothing.
- Deadlock is checked for the manager, which can always move. It is not for the
  others: their bounds (calls, losses, commands, acts, runs, tasks, events) simply run out, and
  an idle application may stop.

## 5. The proofs

All for every value of the constants, under the named assumption of the module.

| theorem | says | inductive invariant |
|---|---|---|
| `TypeCorrect` | types of the manager | itself, in two halves (flags, data) |
| `SlotNamesService` | `[]TokenMeansService` | `SlotInv` |
| `ManagerRefines` | `Spec => RefinesSingleService` | `SlotInv` |
| `StaleTasksHarmless` | `StaleHarmless` | `SlotInv` |
| `ReasonsAreOwn` | `[]ReasonIsOwn`, on every platform | `ReasonInv` |
| `ReasonsLostByOverwrite` | `[]ReasonLostOnlyByOverwrite`, off Android | `LostInv` |
| `StopsStick` | `[]StopSticks`, with saves that fail | itself with types |
| `BeliefsAgree`, `CallbacksBeforeIdle` | off Android | `BeliefInv`, `CallbackInv` |
| `CallbacksKept` | `CallbackKept` | `CallbackInv` |
| `StatusTyped` | types of the status model | itself, part by part |
| `TimeoutsSurface` | `[]TimeoutSurfaces` | `TimeoutInv` |
| `StatesAreReal` | `[]StateIsReal` | `IosInv`, `ReadInv`, `HalvesInv`, `WitnessInv` |
| `TasksAccounted` | `[]ActiveAccounted` | `ActiveInv` |
| `OneSaverWhole` | `[](CanonicalWhole /\ LoadsWhole)` with one saver | `FileInv` |
| `OneSaverCell` | `Spec => ImplementsCell` with one saver | `FileInv` |
| `IpcTyped` | types of the connection | with `FlowInv` |
| `AnswersPaired` | `[]AnswersLagOnlyByTimeouts` | `QueueInv`, `PairInv`, `CallInv` |
| `MirrorsAgree` | `[]MirrorAgrees`, with a daemon that clears the wish itself | `MirrorInv`, `StrayInv` on top of these |
| `FlagsFollow` | `[]FlagFollowsReader` | `FlowInv` |
| `EventsInOrder` | `[]EventsInOrderLatestKept` | `EventInv` |
| `OsTyped` | types of the daemon, its unit and the jobs | itself |
| `UserFollowed` | `[]ServiceFollowsUser`, over failing services and saves | `WishInv` |
| `OptingOutHolds` | `[]OptOutRespected` | `OptOutInv` |
| `RestartsReplace` | `[]RestartReplaces` | `RestartInv` |
| `AndroidTyped` | types of the Android service | itself |
| `StopsAreFinal`, `AnswersTruthful`, `RecoveriesTruthful` | `[]StopIsFinal`, `[]AnswerTruthful`, `[]RecoveryTruthful` | `ServiceInv` |
| `IosTypeCorrect` | types of the iOS model | with `RunsInv` |
| `TasksCompletedOnce` | `[]CompletedOnce` | `TaskInv` |
| `WantedStaysScheduled` | `[]WantedIsScheduled` | `WantedInv` |
| `SubmissionsAreDue` | `NoSpuriousSubmission` | types |
| `ListenersAnswered` | `[]NoListenerLeaked` | itself with `RunsInv` |
| `ExpirationsReach` | `[]ExpirationReaches` | itself with types and `RunsInv` |
| `StaleFilesHarmless` | `[]StaleNeverBlocks` | `SocketInv` |
| `QuietIsFired` | at rest the network of the moment was fired for: the safety half of `SettledIsFired` | `WatcherInv` |
| `FiresAreApart` | fires keep their distance, trailing ones the core's | `WatcherInv` |
| `AudioIsRestored` | `[]AudioRestored` | `CallInv` |
| `TimeoutsSpareFresh` | `TimeoutSparesFresh` | `CallInv` |
| `ActionsClear` | `ClearsChat` | `ChatInv` |
| `CoreIsToldOnce` | `[]CoreHearsOnce` | `PhoneInv` |
| `BesideHolds` | all of these seven for `BesideSpec`, the specification of the run | `BesideSpec` implies each part's `Spec` |

The arguments:

- **`SlotInv`.** `TokenMeansService` is not inductive: a cleanup that finds its own number
  in `generation` empties the slot, which is right only if the slot cannot name anyone
  else. So: a held token is the newest generation's, no task beyond the counter exists,
  and nothing beyond it was cancelled. The generation check of the cleanup is then all the
  code needs, and a cleanup maps to `Complete` or `Drained` of `SingleService`.
- **`ReasonInv`.** The slot names a cancelled generation together with the reason that one
  was stopped with. The reconciliation tags *after* it cancelled; the invariant carries what
  the tag will say through that window.
- **`LostInv`** adds that every cancelled generation is at most the slot's: so a stopped
  task that does not find its entry has lost it to a *later* stop. The window of the
  reconciliation breaks this on Android, hence the assumption `Platform # "android"`. It
  also assumes that no client stops with `TaskCompleted`, the reason the code keeps for
  itself.
- **`BeliefInv`, `CallbackInv`** of the manager. Off Android the actor never enters the
  reconciliation; a captured callback belongs to a task that has not passed its callback step.
- **The status.** `TimeoutInv` leaves the actor's belief out altogether: the durable record
  says timeout as long as one is due, and a query that found one due has read that. `ReadInv`
  says what a query has read and what a task under way may still do, `HalvesInv` that the two
  halves of the belief agree where no query or cleanup is between its two writes, unless they
  are `torn`; a status may heal a service whose `init()` is under way, and it stays healed,
  because only the actor or a new process starts the foreground service again. `WitnessInv`
  keeps what a query has read, and what is the case just before its answer, among the moments
  of that query. `ActiveInv` reads the two timestamps: they say active exactly if a task runs
  or one ended unrecorded (`ghost`).
- **`FileInv`.** An inode under the canonical name is whole and is not the one under the
  temp name; a writer's inode is private and holds exactly the chunks written; a reader's
  inode is whole and no one writes to it. `OneSaver`, the theorem's hypothesis, is what makes
  the writer's inode private; section 6 says what happens without it.
- **The connection.** `FlowInv` orders the ends: a connection ends for its reader after it
  ended for the server, and nothing of it outlives the client's return to "down".
  `PairInv` follows a request through its four places (requests, the server's work, frames,
  what the reader holds): whatever is under way for a request lies behind what is under way
  for an earlier one, and the number of requests under way before the awaited one is at most
  what was given up. `MirrorInv` follows a writer the same way: until its request is executed
  mirror and daemon agree; from then on its own answer says which of the two is right. It speaks of
  what the last request carried out has *asked* for, so that a daemon that clears the wish or fails to
  save it changes nothing in it; `StrayInv` says that a wish so cleared is gone.
  `EventInv` keeps the numbers increasing over the three parts of the stream.
- **`WishInv`.** Between processes only the file carries the wish: unless it never got there
  (`unsaved`), the file says start only if the user said so last, and says it unless a signal has
  ended the service since. Then each process's replay does what the user said, or the service has
  failed. A start runs before it is saved, and a stopped run may clear late; both are carried
  through these windows. **`OptOutInv`**: without consent no provisioning
  begins, and of the commands only an install enables the unit. **`RestartInv`**: from the stop
  on, the stopped process is gone or a younger one runs, as soon as a stop that waits has
  returned or the connection to it has been seen to end.
- **`ServiceInv`.** In every run: `DownInv` (a service that was stopped has its `onDestroy` at
  the end of the queue), `OrderInv` (a start is in the queue or with its worker, never both,
  and its future is not completed before the worker is done), `RestartInv` (nothing runs in a
  recreated process before its first message). As long as nothing raced: `FlightInv` (a core
  start has the service to itself: no other start, no stop thread, no `onDestroy` under way),
  `StopInv` (after a stop whatever still runs has its stop on the way, and the label is there
  only for a start on the way), `RollInv` (a rollback's stop is queued or was the last thing
  that happened), `UpInv` and `RecoverInv` (what an acknowledged start, a recreation and a
  timeout leave on the way to rest). At rest the queue is empty, so "on the way" is nowhere,
  and the properties remain.
- **`RunsInv`.** Runs are numbered consecutively, so the run a start takes is fresh and has
  no listener; two starters about to spawn a listener mean different runs.
- **`TaskInv`.** While iOS waits for a task, the reference of its kind names it, the other
  one is empty, the flag is down and it is not completed; when it waits for none, there is
  neither a reference nor a timer.
- **`WantedInv`.** What is missing from the scheduler of a wanted service is the request of
  the task in hand, or of one that died with the process.

- **`ExpirationReaches`** is inductive with types and `RunsInv`, though it names no particular
  listener: a listener on its way to the manager stays on it until it stops the run in the slot,
  whichever listener that is (`ReachFrame`), and a registration puts one there
  (`ReachWitness`). Only a completion takes the stored invoke from a run that goes on, and that
  run is `orphaned` from then on (`ReachCompletion`).
- **`SocketInv`.** Daemons that run together are on record as crossed, and a daemon that runs
  alone finds at each of its three steps the file as its last one left it: only another one that
  runs could have changed it in between. A killed daemon changes no file.
- **`WatcherInv`.** `Reported`: the network of the moment is recorded, or in the hands of the
  handler thread, or a callback for it is posted. `Recorded`: what is recorded was fired for, or
  the trailing fire of the current generation is pending. `OneCurrent`: there is one of that
  generation, and it is due when the last fire is as old as the core's window, which is why
  several pending ones do no harm and why a trailing fire is never too early.
- **`CallInv`.** `AudioInv`: audio focus is held only by active connections, the mode is set only
  beside one, and a thread about to engage audio has an active connection, until a disconnect
  falls into that very gap (`raced`). `RingInv`: of a call only the main thread rings, and
  no timeout of which was `caught`, every scheduled timeout is in the hands of the thread about to
  cancel it (`InHand`), or it is the one kept and that of the ring on show (`InMap`); a timeout that
  has begun finds its own ring or none. Both need the types of the tasks, which say which
  thread can be where.
- **`ChatInv`.** What a worker listed covers what its chat shows, until something is posted there
  (`chatCrossed`).
- **`PhoneInv`.** A call rung once is new to CallKit at most once, so it goes through its stands
  forward only and has at most one action of the user under way. While an answer is under way
  the core has heard nothing; while an end is, it has heard nothing, or an answer that is noted
  unless the plugin has forgotten the call and will refuse the end. `PhoneFrame` covers every
  step that only forgets a call, ends it in CallKit or moves the queues.

Only model-checked: everything under fairness (`StopDrains`, `ImplementsSingleService`,
 `CallsReturn`, `Reconnects`, `JobsReturn`, `StartAnswered`,
`TaskAnswered`, `ExpirationStopsRun`, `SettledIsFired`), because the prover does not do liveness,
and `ImplementsCell` for more than one saver, where it is false. Every invariant and every
action property a passing run checks is a theorem, some under the hypothesis the table names
(off Android, one saver), which the run meets too. Nothing is assumed beyond
the modules' named assumptions on constants (`ConstantsAssumption`, `StatusAssumption`,
`FileAssumption`, `IpcAssumption`, `OsAssumption`, `BoundsAssumption`, `IosAssumption`,
`BesideAssumption`: the windows of the watcher are natural numbers, and no worker of a tap is
the main or the core's thread), which TLC evaluates in the runs, and the hypotheses in the table.

## 6. Where code and words differ

Each of these has a run that shows it and a finding in `PROJECT.json` with the quotation.

1. **`timeout_preserves`.** The reason slot is tagged but single: the stop of generation 2
   overwrites generation 1's entry before that task has read it, so a platform timeout
   looks like natural completion and clears the desired state.
2. **`restart_not_blocked`.** `getLifecycleStatus` converges the flag to the native "stopped"
   and leaves the token; the next start is refused with `AlreadyRunning`.
3. **`ipc_slot`.** A command that times out leaves its sender in the response slot. In a debug
   build the assertion ends the client task; in a release build the next command may get
   the late response.
4. **`reboot_replays`.** SIGTERM runs the same `Stop` as a user does and so clears the wish: a
   reboot, `systemctl stop` or a package upgrade leaves the next daemon nothing to replay. Only
   a crash or a power loss is followed by a replay. `ServiceFollowsUser` says what does hold.

Met while modelling, without a run of their own.

*Manager and file*

- A save of the desired state that fails is only logged (`src/manager.rs:1661`, `:1696`), and the
  command is answered `Ok`: an acknowledged stop may leave a wish on disk that the next boot replays,
  an acknowledged start may leave none. Models whose properties read the file let saves fail.
- `handle_start` spawns the task before it writes `desired_running = true`
  (`src/manager.rs:1307`); a service that completes at once clears first, and the wish of a
  finished service stays on disk.
- Actor and service task save through one temp name; two saves that overlap can rename a
  half-written file. The theorems about the file therefore assume one saver.
- `src/manager.rs:1186` calls the promotion to Running "generation + state guarded"; the two
  guards are not one step. On the desktop `BeliefAgrees` holds nevertheless.
- `src/manager.rs:1847` reconciles with the native side by cancelling first and tagging the
  reason afterwards; a task that ends in between reports natural completion.
- `ARCHITECTURE.md:171` lists the token cleanup, the event and then `on_complete`; the code
  runs event, callback, cleanup, which is what `CallbackBeforeIdle` needs.
- `docs/api-reference.md:1254` promises that `enableAutoRestart` without a config uses the
  last one; `src/manager.rs:1757` stores `None` over it, and the next boot has nothing to
  replay.

*Status*

- The merge of a status or an `isRunning` query stores the running flag and then the lifecycle without
  the token lock (`src/manager.rs:1915`), under which a task's cleanup writes the same two. When they
  cross, the flag may be left "running" with the lifecycle "stopped"; no rule sees a divergence any
  more, and every later status says stopped while the native service runs, other than
  `src/manager.rs:1788` says of the native side's authority. `StateIsReal` excludes statuses that are
  `torn` in this way.
- On iOS the status may report a native task although none runs (`src/manager.rs:1984`,
  `src/mobile.rs:391`): the natural end in `completeBgTask` writes no completion time, a
  `startKeepalive` in the foreground removes it, and a crash during a task leaves none. That is
  `ghost`; everything else is excluded by `ActiveAccounted`. The three calls on iOS can also
  return three different moments.
- A service adopted from the native side has no token, so the next `stop` answers
  `NotRunning`; the natural completion of a task does not stop the keepalive on Android, so the
  next status adopts "Running" again.
- The scheduling marks outlive their cause: the foreground-only mark after a later successful
  scheduling, native scheduling errors after a stop. A running iOS service whose auto-restart
  was disabled is reported stopped outside a background task. A notification stop whose event is
  lost leaves Rust's own wish standing.
- The branch for `ios_out_of_budget` cannot be reached with what the bridge returns, and no
  Kotlin code writes `setup_idle` or `locked_idle`, which `src/manager.rs:2064` reads.

*OS service*

- A service whose `init` or `run` fails keeps the wish (`src/manager.rs:1270`, `:1157`) but is
  not started again before the next boot of the daemon; its unit stays up. `ServiceFollowsUser`
  excepts it (`failed`).
- A run that had ended by itself when it was stopped clears the wish after the stop, and a start that
  came in between is overtaken: the service runs, and the file says it should not (`unsaved`).
- The restart command polls only the connection flag; a flag that is late makes it start the
  unit while the old daemon is still dying, which does nothing where the stop returns at once.
  `RestartReplaces` therefore asks that the disconnect was seen.
- A restart whose start fails after its stop succeeded leaves the service down; consent
  withdrawn in the grace period does not stop the provisioning; an idle client may notice a
  dead peer only after 30 s, longer than the wait for the connection, so
  `docs/release-checklist.md` D8 can fail with a healthy daemon.
- `src/desktop/headless.rs:134` says that the process exits with code 1 when the socket cannot be
  bound; it prints and returns, so it exits with 0 and the init system does not restart it.

*Android*

- `stopSelf()` without a start id ends the service though a newer start is already queued. A core
  start that finishes after a stop writes flag, monitor, label and record of a running service.
  A refused stop intent is reported as success. These are the runs `raced` names.
- An acknowledgement completed before its wait begins is not found (`ack_missing`), and the
  command rolls a good start back. A refused start replaces the whole durable record, history
  included.
- A worker that outlives its instance registers a connectivity monitor nobody unregisters, which
  `LifecycleService.kt:97` says cannot happen.
- `handleUpdateType` returns `START_NOT_STICKY`, so after a type update a killed service is not
  recreated, while its comment (`LifecycleService.kt:412`) persists the type for that recreation.
- A boot start whose promotion or core start fails leaves no recovery pending, other than
  `docs/android.md:438` says of every start that could not be made.
- The event queue drops the *oldest* of 64 events, and the queue dies with the process.

*Calls, messages, network, socket*

- A network that appears between 2 s and 5 s after the last fire fires at once and supersedes the
  trailing fire (`ConnectivityMonitor.kt:157`), although the core drops what comes within 5 s of
  the last nudge it took (`ConnectivityMonitor.kt:43`). Without another change the core is not
  told of the network that stays, which the trailing fire is there for
  (`ConnectivityMonitor.kt:144`). `SettledIsFired` speaks of the fire, not of what the core does.
- `ringTimeouts.remove(callId)?.invoke()` is not one step: a ring's timeout that runs after a tap's
  worker has taken its canceler out, and before the worker invokes it, takes the entry of the ring
  shown since and takes that ring down, other than `IncomingCallNotifier.kt:162` says.
  `TimeoutSparesFresh` excludes calls that were `caught` so.
- A ring's timeout that has left the looper's queue takes down the ring the core's thread has
  shown for the same call since, other than `IncomingCallNotifier.kt:162` says.
- The worker of a tap takes audio focus for a connection Telecom has disconnected between the two
  halves of `setActive`, and nobody releases it (`BackgroundCallConnectionService.kt:274`). A
  remote end cancels the ring; the connection stays registered, other than
  `BackgroundCallConnectionService.kt:324` says.
- Messages, replies presented again and clean-ups use one id per chat without looking at what is
  there: a typed reply (`NotificationActionOutcome.kt:22`), or a message nobody saw, is replaced
  or cancelled.
- A call CallKit refuses stays noted (`BackgroundCallKit.swift:261`).
- A daemon removes the socket of one that still serves (`transport_unix.rs:44`). On a signal the
  accept loop is dropped before its token is cancelled, so the socket file stays, other than
  `ipc_server.rs:104` says; the next bind removes it.

- One call's end sets the audio mode back to normal while another one is active. `onReject`, and
  a decline by notification, leave the connection ringing and registered. A notification answered
  before Telecom has created the connection never engages audio; an answer the core refused still
  makes the connection active and cancels the ring. Telecom's callbacks make the JNI call on the
  main thread, which `CallActionReceiver.kt:83` avoids for taps. The registry entry is removed by
  call id, whichever connection is there.
- A reply whose dispatch throws is only logged. The text of a pending reply is in the body of the
  notification; a retry types it anew. An answer that does not parse counts as permanent though
  the reply may have been sent. A clean-up between the two posts of a message leaves a summary
  alone.
- The watcher compares with the last *recorded* fingerprint, so a network that comes back within
  the debounce window cancels nothing and is announced by the trailing fire all the same.
  Callbacks posted before the teardown still nudge after it. A registration that failed is not
  tried again while the service lives. A nudge held up between lock and call can make the next
  trailing one too early for the core.
- `IpcClient` drops the events that arrive before an answer.

*iOS*

- The end of a background task submits the next requests without a look at the desired state.
- `docs/ios.md:269` says a timed-out invoke is resolved; `cancelCancelListener` rejects it.
- `completeBgTask` and `cancelCancelListener` name no run and answer whichever invoke is
  stored (`orphaned`); `StopWithReason` of a listener stops whoever holds the slot; an
  expiration between `Start` and `waitForCancel` reaches nobody; a cold or warm start that
  read the wish before a stop undoes the stop; `clear_pending_bg_task` may wipe the record of a
  newer task; a task delivered while the warm listener is busy wakes nobody; a record left
  for a service that is already running is consumed by nobody; a request spent on a
  task that dies with the process is submitted again only by a later transition.
- `SetOnComplete` and `Start` are two commands: of two starters one takes the callback
  armed by both, and the other's run has none.

## 7. What is not modelled

- **Android event queue** (`NativeEventQueue.kt`): enqueue and drain both run on the main
  looper, so its one effect is that the actor sees a stop or timeout late, in order, or not at
  all. `ServiceManager` and `LifecycleStatus` take native events exactly so, and a model of the
  list would add nothing a property could tell apart.
- **The wire format** (`src/desktop/ipc.rs`, `transport.rs`): a length prefix and a JSON text. A
  frame is taken whole; sizes, decoding errors, the symlink and peer checks have unit tests.
- **Validation, capabilities, errors, notifier, the service trait**: tables and wording. No
  steps of several actors change anything in them; a model of a table would be the table again,
  and its unit tests go through the entries.
- **The commands that only forward** (most of `src/lib.rs` and `src/mobile.rs`), **JavaScript
  API**: they hold no state. Their effects are the commands of the manager, the calls of the
  client and the steps of the native modules.
- **The short-lived `IpcClient`**: it sends one command on a connection of its own and reads up to
  the answer or the end of the stream, and it keeps nothing. `IpcConnection` has the client whose
  answers can go astray.
- **Presentation** on Android and iOS: notification looks, channels, locales, icons, deep links,
  audio routes, service types and the message notifications of iOS, whose actions go to a host
  handler. No steps of several actors meet in them.
- **The exit handler** of `src/lib.rs:2133` blocks the main thread on the manager while a
  manager command may wait for the main queue. Whether that can block for good depends on Tauri's
  event loop, which is not in the repository; it is a hazard without a property.
- In the modelled parts: commands of the actor that only forward to the bridge; serde; the
  lengths of backoffs and timeouts and the adaptive begin time of iOS requests (numbers no
  property depends on); failing bridge calls on iOS; fsync and power loss under the state file;
  `DesiredStateBackend::clear`, which has no caller; the texts of unit files and the environment
  checks, which only warn; permission requests and notification texts.

`PROJECT.json` maps about 5300 lines of the repository. Well over half of its Rust files is unit
tests at their end (`src/manager.rs` has 2133 lines of code and 5337 of tests, `src/models.rs` 1282
and 3628), and of the rest a large part is types with their serde attributes, documentation
comments and the forwarding commands above. What has state and steps is modelled; the share of
lines that could still be mapped without stretching a definition past what it translates is
small.

## 8. The plan

Done, in this order: `ServiceManager` with `SingleService`, because every platform goes
through it; `DesiredStateFile` with `DesiredStateCell`, what survives it; `IpcConnection`;
`IosBackgroundTask`; `AndroidService`; `OsService`, the exit paths included; `LifecycleStatus`,
where manager and native side meet; `IpcSocket`, `ConnectivityMonitor`, `AndroidCalls`,
`MessageNotifications` and `CallKitCalls`, the parts that stand beside the service; and for each
of them the proofs of section 5.

Left:

1. A composition of `AndroidService` and `ServiceManager` in place of its native bit. Both are
   large, and what crosses between them (start, stop, the running bit, the record, late events)
   is what `LifecycleStatus` already composes; the product is beyond what TLC explores in minutes.
2. Several clients of one daemon, which share the broadcast channel and the manager's queue.

## 9. Running it

    cd tla
    tlasany ServiceManager.tla
    tlc -workers 2 -config MCDesktop.cfg MCServiceManager
    tlapm ServiceManagerProofs.tla

`PROJECT.json` names the module, the configuration and the expected outcome of every run,
the source lines of every definition, the mutants, the hazards and the theorems. The
largest runs (`desktop`, `ipc`, `ios`, `os_service`) take up to a few minutes, as do the proofs
about the connection.
