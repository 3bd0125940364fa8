--------------------------- MODULE ServiceManager ---------------------------
(***************************************************************************)
(* The manager actor of the plugin (src/manager.rs): one task that owns    *)
(* ServiceState and handles commands one at a time, the service tasks it   *)
(* spawns (one per generation, running on other threads), the persisted    *)
(* desired state they both write, and on Android the native                *)
(* LifecycleService whose running bit overrides the actor's belief.        *)
(*                                                                         *)
(* The actor and every service task interleave at each access to state     *)
(* they share: the token slot, the generation counter, the terminal-reason *)
(* slot, the lifecycle slot and the desired-state file.  A process may     *)
(* die at any step; it then boots again from the file alone.               *)
(***************************************************************************)
EXTENDS Naturals

CONSTANTS
    Platform,       \* "desktop", "android" or "ios": lifecycle_mode and bridge
    BootConsent,    \* boot_app is given and consent_allows_auto_unlock holds
    StopReasons,    \* the reasons clients stop with
    NativeEvents,   \* the native lifecycle events that stop a service
    MaxGen,         \* bound on the starts of one process
    MaxBoots        \* bound on the deaths of the process

StopReason == {"UserStop", "AppStop", "PlatformTimeout", "PlatformExpiration",
               "NativeNotificationStop", "OsRestart", "BootRecovery",
               "TaskCompleted", "Error", "ProcessExit"}

ASSUME ConstantsAssumption ==
    /\ Platform \in {"desktop", "android", "ios"}
    /\ BootConsent \in BOOLEAN
    /\ StopReasons \subseteq StopReason
    /\ NativeEvents \subseteq {"notificationStop", "timeout"}
    /\ MaxGen \in Nat
    /\ MaxBoots \in Nat

Gens == 1 .. MaxGen
None == 0            \* an empty token slot

VARIABLES
    pc,             \* what the actor is doing; "recv" is rx.recv().await
    job,            \* the desired-state write the handler still has to do
    seen,           \* the native running bit a handler has read
    token,          \* the slot: None, or the generation whose token it holds
    generation,
    isRunning,
    lifecycle,
    lastError,      \* TRUE when last_error is Some
    reasonSlot,     \* terminal_reason: one slot, tagged with a generation
    onComplete,     \* TRUE when a callback is armed for the next start
    task,           \* per generation, where its spawned task is
    runOk,          \* per generation, whether run() returned Ok
    captured,       \* per generation, whether it holds an unfired callback
    cancelled,      \* the generations whose token was cancelled
    store,          \* the persisted desired state
    native,         \* LifecycleService.isRunning (Android)
    nativeEvents,   \* native lifecycle events on their way to the actor
    boots,
    \* history, read by properties only
    stopped,        \* per generation, the reason the actor stopped it with
    outcome,        \* per generation, the terminal event it emitted
    natural,        \* generations that classified their end before any stop
    intent          \* the wish of the last command whose write reached the disk

actorVars == <<pc, job, seen>>
slotVars  == <<token, generation, isRunning, lifecycle, lastError>>
taskVars  == <<task, runOk, captured, cancelled>>
nativeVars == <<native, nativeEvents>>
historyVars == <<stopped, outcome, natural, intent>>
vars == <<actorVars, slotVars, reasonSlot, onComplete, taskVars, store,
          nativeVars, boots, historyVars>>

-----------------------------------------------------------------------------
(* Reasons.                                                                *)

ClearsDesired(r) ==
    r \in {"UserStop", "AppStop", "NativeNotificationStop", "TaskCompleted"}

StopsKeepalive(r) ==
    r \notin {"PlatformExpiration", "PlatformTimeout", "ProcessExit"}

EventReason == [notificationStop |-> "NativeNotificationStop",
                timeout          |-> "PlatformTimeout"]

(* What each desired-state write leaves on disk: desired_running, and      *)
(* whether a last_start_config is persisted.  Both fields are overwritten  *)
(* whatever was loaded, so a write is its result.                          *)
Stored(d, c) == [desired |-> d, config |-> c]
MutWritten(j) == Stored(j # "stop", j \in {"start", "enable"})
Written(j) == Stored(j \in {"start", "enable", "enableBare"},
                     j \in {"start", "enable"})
Wish == [start |-> "run", stop |-> "idle", disable |-> "idle",
         enable |-> "armed", enableBare |-> "armed"]
Jobs == {"start", "stop", "enable", "enableBare", "disable"}

NoReason == [gen |-> None, reason |-> "none"]

Serving(g) ==      \* spawned, and not yet past its own token cleanup
    task[g] \in {"init", "mark", "run", "classify", "save", "callback",
                 "clear", "clearInit"}

(* The guards and effects a service task and the actor share.  An operator *)
(* named Mut... is the one below it with a bug a change could bring in.    *)
MutCurrent(g) == TRUE
Current(g) == generation = g

MutHasReasonAny(g) == reasonSlot.gen # None
MutHasReasonCleared(g) == reasonSlot.gen = g /\ generation = g
HasReason(g) == reasonSlot.gen = g

MutRunningAfter(g) == FALSE
RunningAfter(g) == isRunning /\ ~Current(g)      \* after the cleanup of g

Stoppable == token # None                        \* else Err(NotRunning)

MutCancel == cancelled
Cancel == cancelled \union {token}

CallbackAfterRollback == onComplete

(* The steps a task takes once run(), or init(), has ended.                *)
MutFollowing == [classify |-> "clear", save |-> "clear", clear |-> "callback",
                 callback |-> "done",
                 clearInit |-> "lateCallback", lateCallback |-> "done"]
Following == [classify |-> "callback", save |-> "callback",
              callback |-> "clear", clear |-> "done",
              clearInit |-> "lateCallback", lateCallback |-> "done"]

-----------------------------------------------------------------------------
(* A fresh process: what manager_loop builds before its first command.     *)

Init ==
    /\ pc = "boot" /\ job = "none" /\ seen = FALSE
    /\ token = None /\ generation = 0 /\ isRunning = FALSE
    /\ lifecycle = "Idle" /\ lastError = FALSE
    /\ reasonSlot = NoReason /\ onComplete = FALSE
    /\ task = [g \in Gens |-> "none"] /\ runOk = [g \in Gens |-> FALSE]
    /\ captured = [g \in Gens |-> FALSE] /\ cancelled = {}
    /\ store = Stored(FALSE, FALSE)
    /\ native = FALSE /\ nativeEvents = {}
    /\ boots = 0
    /\ stopped = [g \in Gens |-> "none"] /\ outcome = [g \in Gens |-> "none"]
    /\ natural = {} /\ intent = "idle"

-----------------------------------------------------------------------------
(* handle_start.  The token, the generation and the keepalive are settled  *)
(* and the task spawned before desired_running=true is written (Persist).  *)

Launch ==
    LET g == generation + 1 IN
    /\ token = None
    /\ generation < MaxGen
    /\ generation' = g /\ token' = g
    /\ isRunning' = TRUE /\ lifecycle' = "Initializing" /\ lastError' = FALSE
    /\ captured' = [captured EXCEPT ![g] = onComplete]
    /\ onComplete' = FALSE
    /\ task' = [task EXCEPT ![g] = "init"]
    /\ native' = (Platform = "android" \/ native)
    /\ pc' = "persist" /\ job' = "start"
    /\ UNCHANGED <<seen, reasonSlot, runOk, cancelled, store, nativeEvents,
                   boots, historyVars>>

(* A fatal start_keepalive failure: only the generation keeps its bump.    *)
Rollback ==
    /\ pc = "recv" /\ token = None /\ generation < MaxGen
    /\ Platform = "android"
    /\ generation' = generation + 1
    /\ isRunning' = FALSE /\ lifecycle' = "Idle" /\ lastError' = FALSE
    /\ native' = FALSE /\ onComplete' = CallbackAfterRollback
    /\ UNCHANGED <<actorVars, token, reasonSlot, taskVars, store,
                   nativeEvents, boots, historyVars>>

Start == pc = "recv" /\ Launch

(* The pre-loop replay of a persisted Start, then the command loop.        *)
ReplaysOnBoot == Platform = "desktop" /\ BootConsent
                 /\ store.desired /\ store.config
Boot ==
    /\ pc = "boot"
    /\ \/ ReplaysOnBoot /\ Launch
       \/ /\ ~ReplaysOnBoot \/ generation = MaxGen
          /\ pc' = "recv"
          /\ UNCHANGED <<job, seen, slotVars, reasonSlot, onComplete, taskVars,
                         store, nativeVars, boots, historyVars>>

(* save_desired_running by the actor, the last thing its handlers do       *)
(* before they reply.  A save that fails is only logged, and the command   *)
(* is answered Ok all the same.                                            *)
Persist ==
    /\ pc = "persist"
    /\ \/ store' = Written(job) /\ intent' = Wish[job]
       \/ store' = store /\ intent' = intent
    /\ pc' = "recv" /\ job' = "none"
    /\ UNCHANGED <<seen, slotVars, reasonSlot, onComplete, taskVars,
                   nativeVars, boots, stopped, outcome, natural>>

-----------------------------------------------------------------------------
(* handle_stop_with_reason, and the commands that end in it.               *)

StopWith(r) ==
    /\ Stoppable
    /\ reasonSlot' = [gen |-> generation, reason |-> r]
    /\ cancelled' = Cancel
    /\ stopped' = [stopped EXCEPT ![token] = r]
    /\ token' = None /\ isRunning' = FALSE
    /\ lifecycle' = "Stopped" /\ lastError' = FALSE
    /\ native' \in (IF Platform = "android" /\ StopsKeepalive(r)
                    THEN {FALSE, native} ELSE {native})  \* it may fail
    /\ IF ClearsDesired(r)
       THEN pc' = "persist" /\ job' = "stop"
       ELSE UNCHANGED <<pc, job>>
    /\ UNCHANGED <<seen, generation, onComplete, task, runOk, captured, store,
                   boots, outcome, natural, intent>>

Stop == /\ pc = "recv"
        /\ \E r \in StopReasons : StopWith(r)
        /\ UNCHANGED nativeEvents

(* handle_native_lifecycle_event: a native stop or timeout relayed by the  *)
(* webview, whatever has happened since; NotRunning changes nothing.       *)
NativeLifecycleEvent(e) ==
    /\ pc = "recv" /\ e \in nativeEvents
    /\ nativeEvents' = nativeEvents \ {e}
    /\ \/ StopWith(EventReason[e])
       \/ /\ ~Stoppable
          /\ UNCHANGED <<actorVars, slotVars, reasonSlot, onComplete, taskVars,
                         store, native, boots, historyVars>>

-----------------------------------------------------------------------------
(* The other commands.                                                     *)

SetOnComplete ==
    /\ pc = "recv" /\ onComplete' = TRUE
    /\ UNCHANGED <<actorVars, slotVars, reasonSlot, taskVars, store,
                   nativeVars, boots, historyVars>>

(* SetDesiredRunning, EnableAutoRestart, DisableAutoRestart: the wish is   *)
(* persisted, nothing is started or stopped.  Without a config the two     *)
(* enabling commands overwrite the persisted one with None.                *)
SetDesired ==
    /\ pc = "recv" /\ pc' = "persist"
    /\ job' \in {"enable", "enableBare", "disable"}
    /\ UNCHANGED <<seen, slotVars, reasonSlot, onComplete, taskVars, store,
                   nativeVars, boots, historyVars>>

(* ShutdownGracefully awaits the service's hook inside the actor loop.     *)
Drain ==
    /\ generation > 0
    /\ \/ pc = "recv" /\ pc' = "drain"
       \/ pc = "drain" /\ pc' = "recv"
    /\ UNCHANGED <<job, seen, slotVars, reasonSlot, onComplete, taskVars,
                   store, nativeVars, boots, historyVars>>

-----------------------------------------------------------------------------
(* The native authority (Android).  IsRunning reads the actor's belief,    *)
(* queries the bridge, and on a divergence converges; the stop reason is   *)
(* tagged only after the token is cancelled.  GetLifecycleStatus queries   *)
(* the bridge first and merges into the belief, leaving the token alone.   *)

IsRunningQuery ==
    /\ pc = "recv" /\ Platform = "android" /\ native # isRunning
    /\ seen' = native /\ pc' = "converge"
    /\ UNCHANGED <<job, slotVars, reasonSlot, onComplete, taskVars, store,
                   nativeVars, boots, historyVars>>

Believed == IF seen THEN "Running" ELSE "Stopped"

IsRunningConverge ==
    /\ pc = "converge"
    /\ isRunning' = seen /\ lifecycle' = Believed /\ seen' = FALSE
    /\ IF ~seen /\ token # None
       THEN /\ token' = None
            /\ cancelled' = Cancel
            /\ stopped' = [stopped EXCEPT ![token] = "NativeNotificationStop"]
            /\ pc' = "tag"
       ELSE /\ pc' = "recv"
            /\ UNCHANGED <<token, cancelled, stopped>>
    /\ UNCHANGED <<job, generation, lastError, reasonSlot, onComplete,
                   task, runOk, captured, store, nativeVars, boots,
                   outcome, natural, intent>>

IsRunningTag ==
    /\ pc = "tag"
    /\ reasonSlot' = [gen |-> generation, reason |-> "NativeNotificationStop"]
    /\ pc' = "recv"
    /\ UNCHANGED <<job, seen, slotVars, onComplete, taskVars, store,
                   nativeVars, boots, historyVars>>

StatusQuery ==
    /\ pc = "recv" /\ Platform = "android"
    /\ seen' = native /\ pc' = "merge"
    /\ UNCHANGED <<job, slotVars, reasonSlot, onComplete, taskVars, store,
                   nativeVars, boots, historyVars>>

StatusMerge ==
    /\ pc = "merge" /\ pc' = "recv"
    /\ isRunning' = seen /\ seen' = FALSE
    /\ lifecycle' = IF seen = isRunning THEN lifecycle ELSE Believed
    /\ UNCHANGED <<job, token, generation, lastError, reasonSlot,
                   onComplete, taskVars, store, nativeVars, boots, historyVars>>

(* LifecycleService: a notification stop or an FGS timeout, whose event    *)
(* the webview may not be there to relay; an OS restart or boot recovery.  *)
NativeStops(e) ==
    /\ Platform = "android" /\ native /\ native' = FALSE
    /\ nativeEvents' \in {nativeEvents, nativeEvents \union {e}}
    /\ UNCHANGED <<actorVars, slotVars, reasonSlot, onComplete, taskVars,
                   store, boots, historyVars>>

NativeRestarts ==
    /\ Platform = "android" /\ ~native /\ native' = TRUE
    /\ UNCHANGED <<actorVars, slotVars, reasonSlot, onComplete, taskVars,
                   store, nativeEvents, boots, historyVars>>

-----------------------------------------------------------------------------
(* The spawned task of generation g.                                       *)

(* init() returns Ok; the generation is checked, then Initializing is      *)
(* promoted in a step of its own: no lock spans the two.                   *)
InitOk(g) ==
    /\ task[g] = "init"
    /\ task' = [task EXCEPT ![g] = IF Current(g) THEN "mark" ELSE "run"]
    /\ UNCHANGED <<actorVars, slotVars, reasonSlot, onComplete, runOk,
                   captured, cancelled, store, nativeVars, boots, historyVars>>

MarkRunning(g) ==
    /\ task[g] = "mark"
    /\ task' = [task EXCEPT ![g] = "run"]
    /\ lifecycle' = IF lifecycle = "Initializing" THEN "Running" ELSE lifecycle
    /\ UNCHANGED <<actorVars, token, generation, isRunning, lastError,
                   reasonSlot, onComplete, runOk, captured, cancelled, store,
                   nativeVars, boots, historyVars>>

InitFails(g) ==
    /\ task[g] = "init"
    /\ task' = [task EXCEPT ![g] = "clearInit"]
    /\ outcome' = [outcome EXCEPT ![g] = "failed"]
    /\ UNCHANGED <<actorVars, slotVars, reasonSlot, onComplete, runOk,
                   captured, cancelled, store, nativeVars, boots,
                   stopped, natural, intent>>

RunReturns(g) ==
    /\ task[g] = "run"
    /\ task' = [task EXCEPT ![g] = "classify"]
    /\ \E ok \in BOOLEAN : runOk' = [runOk EXCEPT ![g] = ok]
    /\ UNCHANGED <<actorVars, slotVars, reasonSlot, onComplete, captured,
                   cancelled, store, nativeVars, boots, historyVars>>

(* The terminal event: an explicit reason of this generation, if the slot  *)
(* still holds one, else the result of run().                              *)
Classify(g) ==
    /\ task[g] = "classify"
    /\ outcome' = [outcome EXCEPT ![g] =
                     IF HasReason(g) THEN reasonSlot.reason
                     ELSE IF runOk[g] THEN "TaskCompleted" ELSE "failed"]
    /\ task' = [task EXCEPT ![g] = IF ~HasReason(g) /\ runOk[g] THEN "save"
                                   ELSE Following["classify"]]
    /\ natural' = IF stopped[g] = "none" THEN natural \union {g} ELSE natural
    /\ UNCHANGED <<actorVars, slotVars, reasonSlot, onComplete, runOk,
                   captured, cancelled, store, nativeVars, boots,
                   stopped, intent>>

(* save_desired_running_via: natural completion clears the desired state,  *)
(* without a look at the generation, and without one at a failing save.    *)
SaveIdle(g) ==
    /\ task[g] = "save"
    /\ task' = [task EXCEPT ![g] = Following["save"]]
    /\ store' \in {Stored(FALSE, FALSE), store}
    /\ UNCHANGED <<actorVars, slotVars, reasonSlot, onComplete, runOk,
                   captured, cancelled, nativeVars, boots, historyVars>>

FireCallback(g) ==
    /\ task[g] \in {"callback", "lateCallback"}
    /\ task' = [task EXCEPT ![g] = Following[task[g]]]
    /\ captured' = [captured EXCEPT ![g] = FALSE]
    /\ UNCHANGED <<actorVars, slotVars, reasonSlot, onComplete, runOk,
                   cancelled, store, nativeVars, boots, historyVars>>

(* The cleanup under the token lock, for the generation it belongs to.     *)
ClearToken(g) ==
    /\ task[g] \in {"clear", "clearInit"}
    /\ task' = [task EXCEPT ![g] = Following[task[g]]]
    /\ isRunning' = RunningAfter(g)
    /\ IF Current(g)
       THEN /\ token' = None
            /\ lifecycle' = IF \/ lifecycle = "Initializing"
                               \/ lifecycle = "Running" /\ task[g] = "clear"
                            THEN "Stopped" ELSE lifecycle
            /\ lastError' = (lastError \/ ~runOk[g])
       ELSE UNCHANGED <<token, lifecycle, lastError>>
    /\ runOk' = [runOk EXCEPT ![g] = FALSE]        \* dropped with the task
    /\ UNCHANGED <<actorVars, generation, reasonSlot, onComplete, captured,
                   cancelled, store, nativeVars, boots, historyVars>>

-----------------------------------------------------------------------------
(* The process dies; what it had in memory goes with it.                   *)
Crash ==
    /\ boots < MaxBoots /\ boots' = boots + 1
    /\ pc' = "boot" /\ job' = "none" /\ seen' = FALSE
    /\ token' = None /\ generation' = 0 /\ isRunning' = FALSE
    /\ lifecycle' = "Idle" /\ lastError' = FALSE
    /\ reasonSlot' = NoReason /\ onComplete' = FALSE
    /\ task' = [g \in Gens |-> "none"] /\ runOk' = [g \in Gens |-> FALSE]
    /\ captured' = [g \in Gens |-> FALSE] /\ cancelled' = {}
    /\ native' = FALSE /\ nativeEvents' = {}
    /\ stopped' = [g \in Gens |-> "none"] /\ outcome' = [g \in Gens |-> "none"]
    /\ natural' = {}
    /\ UNCHANGED <<store, intent>>

-----------------------------------------------------------------------------
ActorFinishes == \/ Boot \/ Persist
                 \/ IsRunningConverge \/ IsRunningTag \/ StatusMerge
                 \/ pc = "drain" /\ Drain

Command == \/ Start \/ Rollback \/ Stop \/ SetOnComplete \/ SetDesired
           \/ pc = "recv" /\ Drain
           \/ IsRunningQuery \/ StatusQuery
           \/ \E e \in NativeEvents : NativeLifecycleEvent(e)

TaskFinishes(g) == \/ InitOk(g) \/ InitFails(g) \/ MarkRunning(g)
                   \/ Classify(g) \/ SaveIdle(g) \/ FireCallback(g)
                   \/ ClearToken(g)

Native == NativeRestarts \/ \E e \in NativeEvents : NativeStops(e)

Next == \/ Command \/ ActorFinishes \/ Native \/ Crash
        \/ \E g \in Gens : TaskFinishes(g) \/ RunReturns(g)

(* The runtime schedules the actor and every task; init() and the shutdown *)
(* hook return; run() returns once its token is cancelled (the contract of *)
(* BackgroundService::run).  Commands, run() of a service nobody stopped,  *)
(* the native side and crashes owe nothing.                                *)
Fairness ==
    /\ WF_vars(ActorFinishes)
    /\ \A g \in Gens : /\ WF_vars(TaskFinishes(g))
                       /\ WF_vars(g \in cancelled /\ RunReturns(g))

Spec == Init /\ [][Next]_vars
FairSpec == Spec /\ Fairness
=============================================================================
