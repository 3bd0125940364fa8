-------------------------- MODULE IosBackgroundTask --------------------------
(***************************************************************************)
(* The service on iOS: BGTaskScheduler delivers a background task to the   *)
(* Swift plugin (BackgroundServicePlugin.swift), Rust starts the service   *)
(* for it (lib.rs, the cold and the warm start), a cancel listener carries *)
(* the expiration back to the manager, and the end of the run completes    *)
(* the task and schedules the next one.                                    *)
(*                                                                         *)
(* Every Swift handler runs on the main queue and is one step.  The        *)
(* manager is seen through its token slot and the runs it has started;     *)
(* module ServiceManager has the rest of it.  iOS itself is external: it   *)
(* gives a submitted task to the process one at a time, expires it, and    *)
(* kills and launches the process.                                         *)
(***************************************************************************)
EXTENDS Naturals, Sequences, FiniteSets

CONSTANTS
    MaxTasks,      \* bound: background tasks iOS delivers
    MaxRuns,       \* bound: successful starts of the service
    Loads,         \* bounds: what may happen in one behaviour, see load
    ProcessingCap  \* ios_processing_safety_timeout_secs is positive

Kinds    == {"refresh", "processing"}
Runs     == 1 .. MaxRuns
Starters == {"user", "cold", "warm"}

ASSUME IosAssumption ==
    /\ MaxTasks \in Nat /\ MaxRuns \in Nat
    /\ Loads \subseteq [starters : SUBSET Starters, tasks : 0 .. MaxTasks,
                       runs : 0 .. MaxRuns, boots : Nat,
                       outcomes : SUBSET SUBSET Kinds]
    /\ ProcessingCap \in BOOLEAN

NoTask   == [k \in Kinds |-> 0]

VARIABLES
    load,          \* the ways to start; the tasks, runs and launches there
                   \* may be; what a scheduling attempt may get accepted
    alive, boots,  \* the process, and how often it was launched
    tasks,         \* the kinds of the tasks iOS has delivered, in order
    open,          \* the delivered task iOS waits for, 0 if none
    completions,   \* calls of setTaskCompleted per task
    submitted,     \* requests waiting in BGTaskScheduler
    unscheduled,   \* ios_last_schedule_error is set
    lost,          \* kinds whose task died with the process, not resubmitted
    desired,       \* ios_desired_running
    configured,    \* ios_last_start_config is set
    pending,       \* the task of the ios_pending_task_* record, 0 if none
    current,       \* currentRefreshTask and currentProcessingTask
    taskCompleted, timer,
    pendingCancel, \* the run whose listener's invoke is stored, 0 if none
    pendingWarm,   \* the warm listener's invoke is stored
    armed,         \* the manager holds an on_complete callback
    slot,          \* the run whose token the manager holds, 0 if none
    run,           \* where the task of each run is
    callback,      \* the run captured an on_complete callback
    listener,      \* where the cancel listener of each run is
    starter,       \* where the user's, the cold and the warm start are
    target,        \* the run a cold or a warm start has just started
    orphaned       \* runs whose listener's invoke an older run took away

osVars       == <<load, alive, boots, tasks>>
taskVars     == <<open, completions, current, taskCompleted, timer>>
scheduleVars == <<submitted, unscheduled, lost>>
intentVars   == <<desired, configured>>
managerVars  == <<armed, slot, callback>>
startVars    == <<starter, target>>
vars == <<osVars, taskVars, scheduleVars, intentVars, pending, pendingCancel,
          pendingWarm, managerVars, run, listener, startVars, orphaned>>

Away     == [s \in Starters |-> "away"]
Launched == [user |-> "idle", cold |-> "read", warm |-> "due"]

\* An installed application before its first launch.
Init ==
    /\ load \in Loads
    /\ alive = FALSE /\ boots = 0 /\ tasks = <<>>
    /\ open = 0 /\ completions = [t \in 1 .. MaxTasks |-> 0]
    /\ current = NoTask /\ taskCompleted = FALSE /\ timer = FALSE
    /\ submitted = {} /\ unscheduled = FALSE /\ lost = {}
    /\ desired = FALSE /\ configured = FALSE /\ pending = 0
    /\ pendingCancel = 0 /\ pendingWarm = FALSE
    /\ armed = FALSE /\ slot = 0
    /\ callback = [g \in Runs |-> FALSE]
    /\ run = [g \in Runs |-> "none"]
    /\ listener = [g \in Runs |-> "none"]
    /\ starter = Away /\ target = [s \in Starters |-> 0]
    /\ orphaned = {}

Started == {g \in Runs : run[g] # "none"}
HasTask == current # NoTask

-----------------------------------------------------------------------------
(* Helpers of the Swift handlers.                                          *)

\* completeActiveTask: the refresh reference goes before the processing one.
ActiveTask ==
    IF current["refresh"] # 0 THEN current["refresh"] ELSE current["processing"]

MutCompletable == current["refresh"] # 0
Completable == HasTask

CompleteActiveTask ==
    IF Completable /\ ~taskCompleted
    THEN /\ taskCompleted' = TRUE
         /\ completions' = [completions EXCEPT ![ActiveTask] = @ + 1]
         /\ open' = IF open = ActiveTask THEN 0 ELSE open
    ELSE UNCHANGED <<taskCompleted, completions, open>>

\* scheduleNext: cancel both requests and submit both again; ok are the
\* submissions BGTaskScheduler accepts.
ScheduleNext(ok) ==
    /\ submitted' = ok
    /\ unscheduled' = (ok # Kinds)
    /\ lost' = {}

CancelRequests == submitted' = {} /\ UNCHANGED <<unscheduled, lost>>

\* cleanup, the references it drops
Cleanup == current' = NoTask /\ timer' = FALSE /\ pendingCancel' = 0

\* finishRun, hadActiveTask
MutForgotten == FALSE
Reschedules == HasTask

FinishRun(ok) ==
    /\ CompleteActiveTask
    /\ IF Reschedules THEN ScheduleNext(ok) ELSE UNCHANGED scheduleVars
    /\ Cleanup

\* The listeners after the stored cancel invoke is answered.  A listener that
\* has timed out no longer awaits the answer.
Answered(answer) ==
    [g \in Runs |-> IF g = pendingCancel /\ listener[g] = "blocked"
                    THEN answer ELSE listener[g]]

-----------------------------------------------------------------------------
(* iOS and the BGTask handlers.                                            *)

\* Launch by the user or for a task: load(), then setup spawns the cold start
\* probe and the warm listener.
Boot ==
    /\ ~alive /\ boots < load.boots
    /\ alive' = TRUE /\ boots' = boots + 1
    /\ starter' = [s \in Starters |->
                     IF s \notin load.starters THEN "away" ELSE Launched[s]]
    /\ UNCHANGED <<load, tasks, taskVars, scheduleVars, intentVars, pending,
                   pendingCancel, pendingWarm, managerVars, run, listener,
                   target, orphaned>>

\* iOS kills the process: everything in memory is gone, and so is the request
\* of the task that was running.
Die ==
    /\ alive
    /\ alive' = FALSE
    /\ lost' = IF open = 0 THEN lost ELSE lost \cup {tasks[open]}
    /\ open' = 0 /\ current' = NoTask /\ taskCompleted' = FALSE
    /\ timer' = FALSE /\ pendingCancel' = 0 /\ pendingWarm' = FALSE
    /\ armed' = FALSE /\ slot' = 0
    /\ run' = [g \in Runs |-> IF g \in Started THEN "ended" ELSE "none"]
    /\ listener' = [g \in Runs |-> IF g \in Started THEN "done" ELSE "none"]
    /\ starter' = Away
    /\ target' = [s \in Starters |-> 0]
    /\ UNCHANGED <<load, boots, tasks, completions, submitted, unscheduled,
                   intentVars, pending, callback, orphaned>>

\* The one-shot flag comes down with every new task.
MutFlagOnDelivery == taskCompleted
FlagOnDelivery == FALSE

\* handleBackgroundTask and handleProcessingTask: iOS hands over a task, one
\* at a time, and the warm listener's invoke is resolved.
Deliver(k) ==
    /\ alive /\ open = 0 /\ k \in submitted /\ Len(tasks) < load.tasks
    /\ submitted' = submitted \ {k}
    /\ tasks' = Append(tasks, k)
    /\ open' = Len(tasks')
    /\ current' = [current EXCEPT ![k] = Len(tasks')]
    /\ taskCompleted' = FlagOnDelivery
    /\ pending' = Len(tasks')
    /\ timer' = (timer \/ k = "refresh" \/ ProcessingCap)
    /\ pendingWarm' = FALSE
    /\ starter' = IF pendingWarm THEN [starter EXCEPT !["warm"] = "read"]
                  ELSE starter
    /\ UNCHANGED <<load, alive, boots, completions, unscheduled, lost, intentVars,
                   pendingCancel, managerVars, run, listener, target,
                   orphaned>>

\* The stored cancel invoke is resolved, not rejected.
MutExpiryAnswer == "done"
ExpiryAnswer == "resolved"

\* handleExpiration and the body of handleSafetyTimerExpiration: without an
\* active task nothing is answered, completed or scheduled.
Expired(ok) ==
    /\ HasTask
    /\ listener' = Answered(ExpiryAnswer)
    /\ FinishRun(ok)

\* The system's expiration of the task it has given.
Expire ==
    /\ alive /\ open # 0
    /\ \E ok \in load.outcomes : Expired(ok)
    /\ UNCHANGED <<osVars, intentVars, pending, pendingWarm, managerVars, run,
                   startVars, orphaned>>

\* The plugin's own timer fires, once.
SafetyTimer ==
    /\ alive /\ timer
    /\ \E ok \in load.outcomes : Expired(ok)
    /\ UNCHANGED <<osVars, intentVars, pending, pendingWarm, managerVars, run,
                   startVars, orphaned>>

\* appDidEnterBackground
EnterBackground ==
    /\ alive /\ desired /\ ~HasTask
    /\ \E ok \in load.outcomes : ScheduleNext(ok)
    /\ UNCHANGED <<osVars, taskVars, intentVars, pending, pendingCancel,
                   pendingWarm, managerVars, run, listener, startVars,
                   orphaned>>

\* appWillEnterForeground
EnterForeground ==
    /\ alive /\ ~HasTask
    /\ timer' = FALSE
    /\ \/ desired /\ \E ok \in load.outcomes : ScheduleNext(ok)
       \/ ~desired /\ UNCHANGED scheduleVars
    /\ UNCHANGED <<osVars, open, completions, current, taskCompleted,
                   intentVars, pending, pendingCancel, pendingWarm,
                   managerVars, run, listener, startVars, orphaned>>

-----------------------------------------------------------------------------
(* The three ways to start: the start command, the cold start probe and    *)
(* the warm listener.  Each one sends SetOnComplete and then Start.        *)

Goto(s, where) ==
    /\ starter' = [starter EXCEPT ![s] = where]
    /\ UNCHANGED target

\* Where a start that did not happen leaves its starter.
Home(s) == CASE s = "user" -> "idle" [] s = "cold" -> "away" [] s = "warm" -> "due"

\* wait_for_bg_task: there is one warm listener, so nothing is superseded.
WarmBlock ==
    /\ starter["warm"] = "due"
    /\ pendingWarm' = TRUE
    /\ Goto("warm", "blocked")
    /\ UNCHANGED <<osVars, taskVars, scheduleVars, intentVars, pending,
                   pendingCancel, managerVars, run, listener, orphaned>>

\* get_pending_bg_task
ReadPending(s) ==
    /\ starter[s] = "read"
    /\ Goto(s, IF pending = 0 THEN Home(s) ELSE "check")
    /\ UNCHANGED <<osVars, taskVars, scheduleVars, intentVars, pending,
                   pendingCancel, pendingWarm, managerVars, run, listener,
                   orphaned>>

\* get_desired_state_status: a start needs the wish and a stored config.  The
\* cold start goes on to clear the record, the warm start leaves it.
ReadDesired(s) ==
    /\ starter[s] = "check"
    /\ Goto(s, IF desired /\ configured
               THEN (IF s = "cold" THEN "arm" ELSE "query")
               ELSE (IF s = "cold" THEN "clear" ELSE Home(s)))
    /\ UNCHANGED <<osVars, taskVars, scheduleVars, intentVars, pending,
                   pendingCancel, pendingWarm, managerVars, run, listener,
                   orphaned>>

ColdClear ==
    /\ starter["cold"] = "clear"
    /\ pending' = 0
    /\ Goto("cold", Home("cold"))
    /\ UNCHANGED <<osVars, taskVars, scheduleVars, intentVars, pendingCancel,
                   pendingWarm, managerVars, run, listener, orphaned>>

\* The IsRunning guard of run_warm_start.
WarmQuery ==
    /\ starter["warm"] = "query"
    /\ Goto("warm", IF slot = 0 THEN "arm" ELSE Home("warm"))
    /\ UNCHANGED <<osVars, taskVars, scheduleVars, intentVars, pending,
                   pendingCancel, pendingWarm, managerVars, run, listener,
                   orphaned>>

\* SetOnComplete, on a user's start or on the way of the other two.
SetOnComplete(s) ==
    /\ \/ s = "user" /\ starter[s] = "idle" /\ Cardinality(Started) < load.runs
       \/ starter[s] = "arm"
    /\ armed' = TRUE
    /\ Goto(s, "armed")
    /\ UNCHANGED <<osVars, taskVars, scheduleVars, intentVars, pending,
                   pendingCancel, pendingWarm, slot, callback, run, listener,
                   orphaned>>

\* handle_start: AlreadyRunning, or the token, the callback and startKeepalive,
\* whose scheduling failure is advisory.
StartRejected(s) ==
    /\ starter[s] = "armed" /\ slot # 0
    /\ Goto(s, Home(s))
    /\ UNCHANGED <<osVars, taskVars, scheduleVars, intentVars, pending,
                   pendingCancel, pendingWarm, managerVars, run, listener,
                   orphaned>>

Start(s) ==
    LET g == Cardinality(Started) + 1 IN
    /\ starter[s] = "armed" /\ slot = 0 /\ g <= load.runs
    /\ slot' = g
    /\ run' = [run EXCEPT ![g] = "running"]
    /\ callback' = [callback EXCEPT ![g] = armed]
    /\ armed' = FALSE
    /\ desired' = TRUE /\ configured' = TRUE
    /\ \E ok \in load.outcomes : ScheduleNext(ok)
    /\ IF s = "user"
       THEN /\ listener' = [listener EXCEPT ![g] = "due"]
            /\ Goto(s, "idle")
       ELSE /\ UNCHANGED listener
            /\ starter' = [starter EXCEPT ![s] = "consume"]
            /\ target' = [target EXCEPT ![s] = g]
    /\ UNCHANGED <<osVars, taskVars, pending, pendingCancel, pendingWarm,
                   orphaned>>

\* on_success of run_auto_start and run_warm_start: clear_pending_bg_task,
\* whatever task the record names by now, then spawn the cancel listener.
Consume(s) ==
    /\ starter[s] = "consume"
    /\ pending' = 0
    /\ listener' = [listener EXCEPT ![target[s]] = "due"]
    /\ starter' = [starter EXCEPT ![s] = Home(s)]
    /\ target' = [target EXCEPT ![s] = 0]
    /\ UNCHANGED <<osVars, taskVars, scheduleVars, intentVars, pendingCancel,
                   pendingWarm, managerVars, run, orphaned>>

-----------------------------------------------------------------------------
(* The cancel listener of each run.                                        *)

\* waitForCancel: a stored invoke is rejected as superseded, then the new one
\* is stored.
MutSuperseded == listener
Superseded == Answered("done")

WaitForCancel(g) ==
    /\ listener[g] = "due"
    /\ listener' = [Superseded EXCEPT ![g] = "blocked"]
    /\ pendingCancel' = g
    /\ UNCHANGED <<osVars, taskVars, scheduleVars, intentVars, pending,
                   pendingWarm, managerVars, run, startVars, orphaned>>

\* ios_cancel_listener_timeout_secs elapse.
ListenerTimeout(g) ==
    /\ listener[g] = "blocked"
    /\ listener' = [listener EXCEPT ![g] = "timedout"]
    /\ UNCHANGED <<osVars, taskVars, scheduleVars, intentVars, pending,
                   pendingCancel, pendingWarm, managerVars, run, startVars,
                   orphaned>>

\* The runs that lose their listener because run g answers whatever invoke is
\* stored: the one in the slot, if it is not g.
Orphans(g) == IF pendingCancel # 0 /\ slot \notin {0, g} THEN {slot} ELSE {}

\* cancelCancelListener of a listener that timed out.
CancelListener(g) ==
    /\ listener[g] = "timedout"
    /\ listener' = [Answered("done") EXCEPT ![g] = "stopping"]
    /\ pendingCancel' = 0
    /\ orphaned' = orphaned \cup Orphans(g)
    /\ UNCHANGED <<osVars, taskVars, scheduleVars, intentVars, pending,
                   pendingWarm, managerVars, run, startVars>>

\* The manager takes the token of the slot, whoever asks, and cancels it.
MutCancelled == "running"
Cancelled == "cancelled"

StopRun ==
    /\ slot' = 0
    /\ run' = [g \in Runs |-> IF g = slot /\ run[g] = "running"
                              THEN Cancelled ELSE run[g]]
    /\ UNCHANGED <<armed, callback>>

\* StopWithReason(PlatformExpiration): intent and requests stay.
ListenerExpired(g) ==
    /\ listener[g] = "resolved"
    /\ listener' = [listener EXCEPT ![g] = "done"]
    /\ StopRun
    /\ UNCHANGED <<osVars, taskVars, scheduleVars, intentVars, pending,
                   pendingCancel, pendingWarm, startVars, orphaned>>

\* StopWithReason(PlatformTimeout): the requests are submitted again when a
\* run was stopped and the service is still wanted.
ListenerTimedOut(g) ==
    /\ listener[g] = "stopping"
    /\ listener' = [listener EXCEPT ![g] = "done"]
    /\ StopRun
    /\ IF slot # 0 /\ desired
       THEN \E ok \in load.outcomes : ScheduleNext(ok)
       ELSE UNCHANGED scheduleVars
    /\ UNCHANGED <<osVars, taskVars, intentVars, pending, pendingCancel,
                   pendingWarm, startVars, orphaned>>

-----------------------------------------------------------------------------
(* Commands of the application.                                            *)

\* Stop: the manager takes the token, then stopKeepalive.
UserStop ==
    /\ slot # 0
    /\ StopRun
    /\ desired' = FALSE /\ UNCHANGED configured
    /\ CancelRequests
    /\ listener' = Answered("done")
    /\ CompleteActiveTask
    /\ Cleanup
    /\ UNCHANGED <<osVars, pending, pendingWarm, startVars, orphaned>>

\* setDesiredRunning for enableAutoRestart, with or without a config.
Enable ==
    /\ alive
    /\ desired' = TRUE
    /\ configured' \in {configured, TRUE}
    /\ \E ok \in load.outcomes : ScheduleNext(ok)
    /\ UNCHANGED <<osVars, taskVars, pending, pendingCancel, pendingWarm,
                   managerVars, run, listener, startVars, orphaned>>

\* setDesiredRunning for disableAutoRestart.
Disable ==
    /\ alive
    /\ desired' = FALSE /\ UNCHANGED configured
    /\ CancelRequests
    /\ UNCHANGED <<osVars, taskVars, pending, pendingCancel, pendingWarm,
                   managerVars, run, listener, startVars, orphaned>>

-----------------------------------------------------------------------------
(* The task of a run, from the return of the service's init() or run().    *)

RunStep(g, from, to) ==
    /\ run[g] = from
    /\ run' = [run EXCEPT ![g] = to]

\* The generation-guarded release of the token.
Released(g) == IF slot = g THEN 0 ELSE slot

\* init() fails: here the token goes before the callback, and no wish with it.
InitFails(g) ==
    /\ \/ RunStep(g, "running", "failing")
       \/ RunStep(g, "cancelled", "failing")
    /\ slot' = Released(g)
    /\ UNCHANGED <<osVars, taskVars, scheduleVars, intentVars, pending,
                   pendingCancel, pendingWarm, armed, callback, listener,
                   startVars, orphaned>>

\* run() returns Ok with no stop recorded for it, fails, or was cancelled.
RunReturns(g) ==
    /\ \/ RunStep(g, "running", "returned")
       \/ RunStep(g, "running", "completing")
       \/ RunStep(g, "cancelled", "completing")
    /\ UNCHANGED <<osVars, taskVars, scheduleVars, intentVars, pending,
                   pendingCancel, pendingWarm, managerVars, listener,
                   startVars, orphaned>>

\* save_desired_running_via(false): natural completion gives up the wish.
ClearDesired(g) ==
    /\ RunStep(g, "returned", "completing")
    /\ desired' = FALSE /\ UNCHANGED configured
    /\ CancelRequests
    /\ UNCHANGED <<osVars, taskVars, pending, pendingCancel, pendingWarm,
                   managerVars, listener, startVars, orphaned>>

\* on_complete: completeBgTask rejects the stored cancel invoke, completes the
\* active task and schedules the next one if there was a task.
CompleteBgTask(g) ==
    /\ RunStep(g, "completing", "clearing") \/ RunStep(g, "failing", "ended")
    /\ IF callback[g]
       THEN /\ listener' = Answered("done")
            /\ orphaned' = orphaned \cup Orphans(g)
            /\ \E ok \in load.outcomes : FinishRun(ok)
       ELSE UNCHANGED <<listener, orphaned, taskVars, scheduleVars,
                        pendingCancel>>
    /\ UNCHANGED <<osVars, intentVars, pending, pendingWarm, managerVars,
                   startVars>>

\* After the callback the task releases the token, if it is still its own.
ClearSlot(g) ==
    /\ RunStep(g, "clearing", "ended")
    /\ slot' = Released(g)
    /\ UNCHANGED <<osVars, taskVars, scheduleVars, intentVars, pending,
                   pendingCancel, pendingWarm, armed, callback, listener,
                   startVars, orphaned>>

-----------------------------------------------------------------------------
StarterNext(s) ==
    \/ ReadPending(s) \/ ReadDesired(s) \/ StartRejected(s) \/ Start(s)
    \/ Consume(s)

ListenerNext(g) ==
    \/ WaitForCancel(g) \/ CancelListener(g)
    \/ ListenerExpired(g) \/ ListenerTimedOut(g)

RunNext(g) == ClearDesired(g) \/ CompleteBgTask(g) \/ ClearSlot(g)

Next ==
    \/ Boot \/ Die \/ Expire \/ SafetyTimer
    \/ \E k \in Kinds : Deliver(k)
    \/ EnterBackground \/ EnterForeground \/ UserStop \/ Enable \/ Disable
    \/ WarmBlock \/ ColdClear \/ WarmQuery
    \/ \E s \in Starters : SetOnComplete(s) \/ StarterNext(s)
    \/ \E g \in Runs :
          \/ ListenerNext(g) \/ ListenerTimeout(g)
          \/ InitFails(g) \/ RunReturns(g) \/ RunNext(g)

Spec == Init /\ [][Next]_vars

\* iOS expires every task it has given (or kills the process); the tasks of
\* the runtime and the main queue are scheduled; a cancelled service returns.
Fairness ==
    /\ WF_vars(Expire)
    /\ \A g \in Runs :
          /\ WF_vars(ListenerNext(g))
          /\ WF_vars(RunNext(g))
          /\ WF_vars(run[g] = "cancelled" /\ RunReturns(g))

FairSpec == Spec /\ Fairness
=============================================================================
