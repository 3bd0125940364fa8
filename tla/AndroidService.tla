--------------------------- MODULE AndroidService ---------------------------
(***************************************************************************)
(* The Android foreground service: LifecycleService.kt with the commands   *)
(* startKeepalive, stopKeepalive and updateForegroundServiceType of        *)
(* BackgroundServicePlugin.kt, the start acknowledgements of               *)
(* ServiceStartAckRegistry and the recovery starts of BootReceiver.kt.     *)
(*                                                                         *)
(* Actors: the main looper, which runs one queued message at a time; one   *)
(* worker thread per core start, one per core stop, one per awaited        *)
(* acknowledgement; and Android, which delivers intents, kills the         *)
(* process, recreates a sticky service, times a foreground service out and *)
(* reboots.  The actor in manager.rs calls startKeepalive and              *)
(* stopKeepalive one at a time, so the commands do not overlap; the        *)
(* notification's Stop button, timeouts and kills overlap everything.      *)
(*                                                                         *)
(* A load-copy-save of the durable record is one step, but what a worker   *)
(* does before and after it is not.                                        *)
(***************************************************************************)
EXTENDS Naturals, Sequences

CONSTANTS
    Invokes,      \* the startKeepalive commands that may be given
    MaxEvents,    \* bound: stops, timeouts, type updates, kills and reboots together
    Policies      \* androidOnTimeout values considered

ASSUME BoundsAssumption ==
    /\ MaxEvents \in Nat
    /\ Policies \subseteq {"stop", "notifyUser", "scheduleRecovery"}
    /\ Invokes \cap {"boot", "restart", "none", "refused", "stop", "timeout", "killed"} = {}

\* Who may have a core start in flight: a command, the boot receiver, or the
\* recreated service.
Sources == Invokes \cup {"boot", "restart"}

VARIABLES
    durable,      \* DurableState: desiredRunning, recoveryPending, lastNativeState
    prefs,        \* the label is in the bg_service preferences
    isRunning,    \* LifecycleService.isRunning, read by the plugin and by Rust
    isForeground, \* LifecycleService.isForeground
    monitor,      \* the live instance holds a registered connectivity monitor
    leaked,       \* a destroyed instance holds a registered connectivity monitor
    core,         \* the headless core runs (what bridge.start and bridge.stop switch)
    looper,       \* messages waiting for the main thread
    started,      \* Android counts the service as started
    sticky,       \* Android will recreate it after a kill
    alive,        \* an instance exists (between onCreate and onDestroy)
    worker,       \* per source, the core-start thread
    stoppers,     \* core-stop threads that have not run yet
    ack,          \* per command, the registry's future
    waiter,       \* per command, the thread that awaits it
    last,         \* history: the last event that decided whether it should run
    raced,        \* history: a start overlapped a stop or a start, or a stop was refused
    used          \* how much of MaxEvents is used up

vars == <<durable, prefs, isRunning, isForeground, monitor, leaked, core, looper,
          started, sticky, alive, worker, stoppers, ack, waiter, last, raced, used>>

flags    == <<isRunning, isForeground>>
os       == <<started, sticky, alive>>
commands == <<ack, waiter>>

Answered == {"resolved", "rejected", "lost"}

NoWorker == [phase |-> "idle", orphan |-> FALSE]

FreshState == [desired |-> FALSE, recovery |-> FALSE, native |-> "unknown"]

StartInFlight == \E s \in Sources : worker[s].phase # "idle"

StartQueued(q) == \E n \in 1 .. Len(q) : q[n].kind = "start"

Init ==
    /\ durable = FreshState
    /\ prefs = FALSE
    /\ isRunning = FALSE /\ isForeground = FALSE
    /\ monitor = FALSE /\ leaked = FALSE
    /\ core = FALSE
    /\ looper = <<>>
    /\ started = FALSE /\ sticky = FALSE /\ alive = FALSE
    /\ worker = [s \in Sources |-> NoWorker]
    /\ stoppers = 0
    /\ ack = [i \in Invokes |-> "none"]
    /\ waiter = [i \in Invokes |-> "idle"]
    /\ last = "none"
    /\ raced = FALSE
    /\ used = 0

\* One more of the bounded events.
Spend ==
    /\ used < MaxEvents
    /\ used' = used + 1

-----------------------------------------------------------------------------
(* Android: intents, stopSelf, and the durable record                      *)

Message(kind, source) == [kind |-> kind, source |-> source]

\* startForegroundService and startService: the service counts as started and
\* its onStartCommand is queued behind whatever the looper already holds.
Send(kind, source) ==
    /\ looper' = Append(looper, Message(kind, source))
    /\ started' = TRUE

\* A start in flight that meets a stop, a failing promotion or another start.
NoteRace(now) == raced' = (raced \/ now)

\* startServiceGuarded for a stop: a refused intent is logged and nothing else.
SendGuarded(kind, source) ==
    \/ Send(kind, source) /\ NoteRace(StartInFlight)
    \/ UNCHANGED <<looper, started>> /\ NoteRace(TRUE)

\* stopSelf() without a startId, by the current instance: a started service is
\* no longer started and its onDestroy is queued on top of the messages q, also
\* when a newer start is among them.
StopSelf(q) ==
    /\ looper' = IF started THEN Append(q, Message("destroy", "android")) ELSE q
    /\ started' = FALSE

\* What onStartCommand returns: START_NOT_STICKY counts only for the last
\* command delivered so far.
ReturnSticky == sticky' = TRUE
ReturnNotSticky(q) ==
    sticky' = IF \E n \in 1 .. Len(q) : q[n].kind # "destroy" THEN sticky ELSE FALSE

SpawnStart(s) == worker' = [worker EXCEPT ![s] = [phase |-> "call", orphan |-> FALSE]]
SpawnStop == stoppers' = stoppers + 1

BuildStartState(d) == [d EXCEPT !.desired = TRUE, !.native = "running"]
MutBuildStopState(d) == [d EXCEPT !.recovery = FALSE]
BuildStopState(d) == [d EXCEPT !.desired = FALSE, !.recovery = FALSE]
BuildTimeoutState(d) == [d EXCEPT !.native = "timeout"]
MutRecovering(d) == d
Recovering(d) == [d EXCEPT !.recovery = TRUE]

\* ServiceStartAckRegistry.complete: only a future still in the map is completed.
MutComplete(s, result) ==
    ack' = IF s \in Invokes /\ ack[s] = "pending" THEN [ack EXCEPT ![s] = "ok"] ELSE ack
Complete(s, result) ==
    ack' = IF s \in Invokes /\ ack[s] = "pending" THEN [ack EXCEPT ![s] = result] ELSE ack

-----------------------------------------------------------------------------
(* BackgroundServicePlugin: the commands                                   *)

\* The actor gives the next command only after the last one was answered.
CommandsIdle == \A i \in Invokes : waiter[i] \in Answered \cup {"idle"}

\* startKeepalive: the preferences are committed and the acknowledgement is
\* registered before the intent goes out.  A refused intent rolls both back.
StartKeepalive(i) ==
    /\ CommandsIdle /\ waiter[i] = "idle"
    /\ UNCHANGED <<flags, monitor, leaked, core, sticky, alive, worker, stoppers,
                   raced, used>>
    /\ \/ /\ Send("start", i)
          /\ prefs' = TRUE
          /\ ack' = [ack EXCEPT ![i] = "pending"]
          /\ waiter' = [waiter EXCEPT ![i] = "lookup"]
          /\ UNCHANGED <<durable, last>>
       \/ /\ prefs' = FALSE
          /\ durable' = FreshState
          /\ waiter' = [waiter EXCEPT ![i] = "rejected"]
          /\ last' = "refused"
          /\ UNCHANGED <<looper, started, ack>>

\* await: the worker looks its future up by name; a future that is gone, even
\* because the start has been acknowledged already, counts as a failure.
MutFound(i) == IF ack[i] = "pending" THEN "waiting" ELSE "lookup"
Found(i) == IF ack[i] = "pending" THEN "waiting" ELSE "failed"

AwaitLookup(i) ==
    /\ waiter[i] = "lookup"
    /\ waiter' = [waiter EXCEPT ![i] = Found(i)]
    /\ UNCHANGED <<durable, prefs, flags, monitor, leaked, core, looper, os, worker,
                   stoppers, ack, last, raced, used>>

AwaitAnswered(i) ==
    /\ waiter[i] = "waiting" /\ ack[i] # "pending"
    /\ waiter' = [waiter EXCEPT ![i] = IF ack[i] = "ok" THEN "resolved" ELSE "failed"]
    /\ UNCHANGED <<durable, prefs, flags, monitor, leaked, core, looper, os, worker,
                   stoppers, ack, last, raced, used>>

\* START_ACK_TIMEOUT_MS: the future is dropped, a later completion is ignored.
AwaitTimeout(i) ==
    /\ waiter[i] = "waiting" /\ ack[i] = "pending"
    /\ waiter' = [waiter EXCEPT ![i] = "failed"]
    /\ ack' = [ack EXCEPT ![i] = "none"]
    /\ UNCHANGED <<durable, prefs, flags, monitor, leaked, core, looper, os, worker,
                   stoppers, last, raced, used>>

\* onFailure, first half: the preferences are rolled back and ACTION_STOP is
\* sent; a refused intent is only logged.
RollBack(i) ==
    /\ waiter[i] = "failed"
    /\ prefs' = FALSE
    /\ SendGuarded("stop", i)
    /\ waiter' = [waiter EXCEPT ![i] = "saving"]
    /\ UNCHANGED <<durable, flags, monitor, leaked, core, sticky, alive, worker,
                   stoppers, ack, last, used>>

\* onFailure, second half: a fresh durable record is saved and the command fails.
RejectStart(i) ==
    /\ waiter[i] = "saving"
    /\ durable' = FreshState
    /\ waiter' = [waiter EXCEPT ![i] = "rejected"]
    /\ UNCHANGED <<prefs, flags, monitor, leaked, core, looper, os, worker, stoppers,
                   ack, last, raced, used>>

\* stopKeepalive: preferences and the whole durable record are cleared, the
\* stop intent is sent, and the command succeeds even when it is refused.
StopKeepalive ==
    /\ CommandsIdle
    /\ Spend
    /\ prefs' = FALSE
    /\ durable' = FreshState
    /\ SendGuarded("stop", "command")
    /\ last' = "stop"
    /\ UNCHANGED <<flags, monitor, leaked, core, sticky, alive, worker, stoppers, commands>>

\* The Stop action of the service's own notification.
NotificationStop ==
    /\ alive /\ isForeground
    /\ Spend
    /\ Send("stop", "notification")
    /\ UNCHANGED <<durable, prefs, flags, monitor, leaked, core, sticky, alive, worker,
                   stoppers, commands, last, raced>>

\* updateForegroundServiceType rides a running service.
UpdateType ==
    /\ isRunning
    /\ Spend
    /\ Send("type", "command")
    /\ UNCHANGED <<durable, prefs, flags, monitor, leaked, core, sticky, alive, worker,
                   stoppers, commands, last, raced>>

-----------------------------------------------------------------------------
(* LifecycleService.onStartCommand, one queued message at a time           *)

Received(kind) == looper # <<>> /\ Head(looper).kind = kind
Rest == Tail(looper)

\* startForegroundTyped failed: the service stops itself and is not sticky.
PromotionFails ==
    /\ StopSelf(Rest)
    /\ ReturnNotSticky(Rest)
    /\ NoteRace(StartInFlight \/ StartQueued(Rest))

\* A normal start: promotion first, then the core start on a worker.
HandleStart ==
    /\ Received("start")
    /\ alive' = TRUE
    /\ LET s == Head(looper).source IN
       \/ /\ isForeground' = TRUE
          /\ SpawnStart(s)
          /\ looper' = Rest
          /\ ReturnSticky
          /\ last' = s
          /\ NoteRace(stoppers > 0 \/ StartInFlight)
          /\ UNCHANGED <<isRunning, started, ack>>
       \/ /\ isRunning' = FALSE /\ isForeground' = FALSE
          /\ PromotionFails
          /\ Complete(s, "fail")
          /\ last' = s
          /\ UNCHANGED worker
    /\ UNCHANGED <<durable, prefs, monitor, leaked, core, stoppers, waiter, used>>

\* ACTION_STOP: the durable record first, the core stop on a worker, then the
\* teardown.  isRunning stays until onDestroy.
HandleStop ==
    /\ Received("stop")
    /\ alive' = TRUE
    /\ durable' = BuildStopState(durable)
    /\ SpawnStop
    /\ prefs' = FALSE
    /\ isForeground' = FALSE
    /\ StopSelf(Rest)
    /\ ReturnNotSticky(Rest)
    /\ last' = "stop"
    /\ NoteRace(StartInFlight \/ StartQueued(Rest))
    /\ UNCHANGED <<isRunning, monitor, leaked, core, worker, commands, used>>

\* handleOsRestart: a recreated service starts its core again only if the label
\* is still there.
HandleOsRestart ==
    /\ Received("restart")
    /\ alive' = TRUE
    /\ \/ /\ ~prefs
          /\ StopSelf(Rest)
          /\ ReturnNotSticky(Rest)
          /\ NoteRace(StartQueued(Rest))
          /\ UNCHANGED <<durable, isForeground, worker, last>>
       \/ /\ prefs
          /\ durable' = Recovering(durable)
          /\ last' = "restart"
          /\ \/ /\ isForeground' = TRUE
                /\ SpawnStart("restart")
                /\ looper' = Rest
                /\ ReturnSticky
                /\ UNCHANGED <<started, raced>>
             \/ /\ PromotionFails
                /\ UNCHANGED <<isForeground, worker>>
    /\ UNCHANGED <<prefs, isRunning, monitor, leaked, core, stoppers, commands, used>>

\* handleUpdateType: ignored unless foreground, otherwise promoted again; not
\* sticky whatever happens.
HandleUpdateType ==
    /\ Received("type")
    /\ alive' = TRUE
    /\ \/ /\ looper' = Rest
          /\ ReturnNotSticky(Rest)
          /\ UNCHANGED <<started, last, raced>>
       \/ /\ isForeground
          /\ PromotionFails
          /\ last' = "refused"
    /\ UNCHANGED <<durable, prefs, flags, monitor, leaked, core, worker, stoppers,
                   commands, used>>

\* The worker threads of a destroyed instance keep running.
OnDestroy ==
    /\ Received("destroy")
    /\ looper' = Rest
    /\ alive' = FALSE
    /\ monitor' = FALSE
    /\ isRunning' = FALSE /\ isForeground' = FALSE
    /\ worker' = [s \in Sources |->
                     [worker[s] EXCEPT !.orphan = worker[s].phase # "idle"]]
    /\ UNCHANGED <<durable, prefs, leaked, core, started, sticky, stoppers, commands,
                   last, raced, used>>

\* handleTimeout: Android ends the foreground service's time.
OnTimeout(policy) ==
    /\ alive /\ isForeground
    /\ Spend
    /\ durable' = IF policy = "scheduleRecovery"
                  THEN Recovering(BuildTimeoutState(durable))
                  ELSE BuildTimeoutState(durable)
    /\ SpawnStop
    /\ StopSelf(looper)
    /\ isRunning' = FALSE /\ isForeground' = FALSE
    /\ last' = "timeout"
    /\ NoteRace(StartInFlight \/ StartQueued(looper))
    /\ UNCHANGED <<prefs, monitor, leaked, core, sticky, alive, worker, commands>>

-----------------------------------------------------------------------------
(* The worker threads                                                      *)

\* bridge.start and bridge.stop, which switch the core of the process.
CallCore(s) ==
    /\ worker[s].phase = "call"
    /\ \/ /\ core' = TRUE
          /\ worker' = [worker EXCEPT ![s].phase = "accepted"]
       \/ /\ worker' = [worker EXCEPT ![s].phase = "rejected"]
          /\ UNCHANGED core
    /\ UNCHANGED <<durable, prefs, flags, monitor, leaked, looper, os, stoppers,
                   commands, last, raced, used>>

StopCore ==
    /\ stoppers > 0
    /\ stoppers' = stoppers - 1
    /\ core' = FALSE
    /\ UNCHANGED <<durable, prefs, flags, monitor, leaked, looper, os, worker, commands,
                   last, raced, used>>

\* A rejected start takes the service down; one of a recreated service leaves
\* a recovery behind and isRunning as it is.
Rejected(s) ==
    /\ worker[s].phase = "rejected"
    /\ isForeground' = FALSE
    /\ isRunning' = (isRunning /\ s = "restart")
    /\ durable' = [durable EXCEPT !.native = "core_start_failed",
                                  !.recovery = @ \/ s = "restart"]
    /\ Complete(s, "fail")
    /\ IF worker[s].orphan
       THEN UNCHANGED <<monitor, looper, started, raced>>
       ELSE monitor' = FALSE /\ StopSelf(looper) /\ NoteRace(StartQueued(looper))
    /\ worker' = [worker EXCEPT ![s] = NoWorker]
    /\ UNCHANGED <<prefs, leaked, core, sticky, alive, stoppers, waiter, last, used>>

\* An accepted start sets the flag, registers the monitor of its instance and
\* puts the label; the durable record and the acknowledgement follow.
Accepted(s) ==
    /\ worker[s].phase = "accepted"
    /\ isRunning' = TRUE
    /\ IF worker[s].orphan
       THEN leaked' = TRUE /\ UNCHANGED monitor
       ELSE monitor' = TRUE /\ UNCHANGED leaked
    /\ prefs' = (prefs \/ s # "restart")
    /\ worker' = [worker EXCEPT ![s].phase = "saving"]
    /\ UNCHANGED <<durable, isForeground, core, looper, os, stoppers, commands, last, raced, used>>

SaveStart(s) ==
    /\ worker[s].phase = "saving"
    /\ durable' = [BuildStartState(durable) EXCEPT !.recovery = @ /\ s # "restart"]
    /\ Complete(s, "ok")
    /\ worker' = [worker EXCEPT ![s] = NoWorker]
    /\ UNCHANGED <<prefs, flags, monitor, leaked, core, looper, os, stoppers, waiter,
                   last, raced, used>>

-----------------------------------------------------------------------------
(* Kills and reboots                                                       *)

\* What dies with the process.
ProcessGone ==
    /\ isRunning' = FALSE /\ isForeground' = FALSE
    /\ monitor' = FALSE /\ leaked' = FALSE
    /\ core' = FALSE
    /\ alive' = FALSE
    /\ worker' = [s \in Sources |-> NoWorker]
    /\ stoppers' = 0
    /\ ack' = [i \in Invokes |-> "none"]
    /\ waiter' = [i \in Invokes |->
                    IF waiter[i] \in Answered \cup {"idle"} THEN waiter[i] ELSE "lost"]

\* Android kills the process between two messages and recreates a started,
\* sticky service with a null intent.
Kill ==
    /\ alive /\ looper = <<>>
    /\ Spend
    /\ ProcessGone
    /\ looper' = IF started /\ sticky THEN <<Message("restart", "android")>> ELSE <<>>
    /\ started' = (started /\ sticky)
    /\ last' = IF last = "stop" /\ CommandsIdle THEN "stop" ELSE "killed"
    /\ UNCHANGED <<durable, prefs, sticky, raced>>

\* A reboot or a package replacement, and BootReceiver.onReceive: the start it
\* sends is refused by a blocked type, or by Android.
Boot ==
    /\ Spend
    /\ ProcessGone
    /\ sticky' = FALSE
    /\ \/ /\ ~durable.desired
          /\ looper' = <<>> /\ started' = FALSE
          /\ last' = IF last = "stop" /\ CommandsIdle THEN "stop" ELSE "killed"
          /\ UNCHANGED durable
       \/ /\ durable.desired
          /\ last' = "boot"
          /\ \/ /\ looper' = <<Message("start", "boot")>> /\ started' = TRUE
                /\ UNCHANGED durable
             \/ /\ looper' = <<>> /\ started' = FALSE
                /\ durable' = Recovering(durable)
    /\ UNCHANGED <<prefs, raced>>

-----------------------------------------------------------------------------

HandleMessage == HandleStart \/ HandleStop \/ HandleOsRestart \/ HandleUpdateType \/ OnDestroy

Await(i) == AwaitLookup(i) \/ AwaitAnswered(i) \/ AwaitTimeout(i) \/ RollBack(i) \/ RejectStart(i)

CoreStart(s) == CallCore(s) \/ Rejected(s) \/ Accepted(s) \/ SaveStart(s)

Next ==
    \/ \E i \in Invokes : StartKeepalive(i) \/ Await(i)
    \/ StopKeepalive \/ NotificationStop \/ UpdateType
    \/ HandleMessage
    \/ \E policy \in Policies : OnTimeout(policy)
    \/ \E s \in Sources : CoreStart(s)
    \/ StopCore
    \/ Kill \/ Boot

\* The looper runs what is queued, threads run, and the JNI call returns; no
\* fairness for commands, stops, timeouts, kills and boots.
Fairness ==
    /\ WF_vars(HandleMessage)
    /\ WF_vars(StopCore)
    /\ \A s \in Sources : WF_vars(CoreStart(s))
    /\ \A i \in Invokes : WF_vars(Await(i))

Spec == Init /\ [][Next]_vars

FairSpec == Spec /\ Fairness
=============================================================================
