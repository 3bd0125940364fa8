--------------------------- MODULE LifecycleStatus ---------------------------
(***************************************************************************)
(* The status document of getLifecycleStatus: build_lifecycle_status       *)
(* (manager.rs) asks the platform what it knows and merges the answer with *)
(* the belief of the manager actor.  On Android the platform's record is   *)
(* the running bit and the durable state of LifecycleService; on iOS it is *)
(* put together from three queries of what the BGTask handlers have left   *)
(* in UserDefaults (mobile.rs, BackgroundServicePlugin.swift).             *)
(*                                                                         *)
(* The actor handles one command at a time and is busy while it waits for  *)
(* the bridge; its service task, Android, iOS and the main queue go on     *)
(* meanwhile, and native events reach the actor late or never.  The actor  *)
(* is its token slot, its belief and the current service task; module      *)
(* ServiceManager has the rest of it.                                      *)
(***************************************************************************)
EXTENDS Naturals

CONSTANTS
    Platforms,   \* the platforms considered
    Refusals,    \* what a scheduling attempt on iOS may get refused
    MaxEvents    \* bound: commands, native events and deaths together

Kinds == {"refresh", "processing"}

ASSUME StatusAssumption ==
    /\ Platforms \subseteq {"android", "ios"}
    /\ Refusals \subseteq SUBSET Kinds
    /\ MaxEvents \in Nat

VARIABLES
    platform,
    pc,         \* what the actor is doing; "recv" is rx.recv().await
    snap,       \* what the query in progress has read so far
    actor,      \* token slot taken, is_running, lifecycle, scheduling_degraded
    task,       \* the service task of the current generation
    leftover,   \* an older task has its on_complete still to call
    wish,       \* desired_running in the state file of Rust
    android,    \* isRunning, and the durable record
    relay,      \* native events on their way to the actor
    ios,        \* what UserDefaults holds
    open,       \* a background task of iOS is running
    doc,        \* the status the last step answered, if it answered one
    used,       \* how much of MaxEvents is used up
    \* history, read by properties only
    timedOut,   \* Android timed the service out and nothing started it since
    ghost,      \* a task that has ended is not on record as ended
    up,         \* whether the service was up, and whether a background task
    tasked,     \* was running, at the moments of the last query
    torn        \* a task's cleanup crossed a merge, and the belief shows it yet

query == <<pc, snap>>
taskVars == <<task, leftover>>
native == <<android, ios, open, timedOut, ghost>>

\* rust is the actor's belief as the query loaded it; due and ghost only
\* remember how things stood when it was asked.
NoAnswer == [known |-> FALSE, rust |-> FALSE, due |-> FALSE,
             running |-> FALSE, state |-> "unknown", recovery |-> FALSE,
             desired |-> FALSE, active |-> FALSE, ghost |-> FALSE,
             refused |-> {}, pending |-> FALSE]

NoDoc == [snap |-> NoAnswer, state |-> "idle", recovery |-> FALSE,
          native |-> FALSE, adopted |-> FALSE, degraded |-> "no", phase |-> "none",
          up |-> {}, tasked |-> {}, torn |-> FALSE]

Idle == [token |-> FALSE, running |-> FALSE, lifecycle |-> "idle", foregroundOnly |-> FALSE]

FreshRecord == [running |-> FALSE, desired |-> FALSE, state |-> "unknown", recovery |-> FALSE]

Init ==
    /\ platform \in Platforms
    /\ pc = "recv" /\ snap = NoAnswer
    /\ actor = Idle /\ task = "none" /\ leftover = FALSE
    /\ wish = FALSE
    /\ android = FreshRecord
    /\ relay = {}
    /\ ios = [desired |-> FALSE, begun |-> FALSE, ended |-> FALSE, pending |-> FALSE,
              refused |-> {}]
    /\ open = FALSE
    /\ doc = NoDoc
    /\ used = 0
    /\ timedOut = FALSE /\ ghost = FALSE
    /\ up = {} /\ tasked = {} /\ torn = FALSE

\* One more of the bounded events.
Spend == used < MaxEvents /\ used' = used + 1

\* Whether the service is up, as the platform's own code sees it.
Up == IF platform = "android" THEN android.running ELSE actor.token

\* The cleanup of a service task is between its store of is_running and its
\* write of the lifecycle, with the token lock held.
Cleaning == task \in {"clearing", "failing"}

\* A query is between its load, or store, of is_running and its last use of the
\* lifecycle; it holds no lock.
Merging == pc \in {"merge", "believe", "adjust", "report"}

UpStates == {"initializing", "running"}
Whole == actor.running <=> actor.lifecycle \in UpStates

\* The moments of a query, from the step that begins it to the one before the
\* answer.
Witness ==
    /\ IF pc' = "recv"
       THEN UNCHANGED <<up, tasked>>
       ELSE /\ up' = {Up'} \cup (IF pc = "recv" THEN {Up} ELSE up)
            /\ tasked' = {open'} \cup (IF pc = "recv" THEN {open} ELSE tasked)
    /\ torn' = \/ (Cleaning /\ Merging)'
               \/ torn /\ (Cleaning \/ Merging \/ ~Whole)'

-----------------------------------------------------------------------------
(* What the native side writes.                                            *)

\* scheduleNext and persistSchedulingResult: each attempt replaces the errors
\* of the one before.
Submitted(s, refused) == [s EXCEPT !.refused = refused]

\* persistPendingTaskInfo, persistTaskKind and persistTaskStartedAt
TaskBegins(s) == [s EXCEPT !.begun = TRUE, !.ended = FALSE, !.pending = TRUE]

\* persistTaskCompletedAt
MutTaskEnds(s) == s
TaskEnds(s) == [s EXCEPT !.ended = TRUE]

\* startKeepalive removes lastTaskCompletedAt.
ForgetsEnd(s) == [s EXCEPT !.ended = FALSE]

\* get_ios_native_state: a task is active when it started more recently than
\* one last completed, or started and none has completed.
Active(s) == s.begun /\ ~s.ended

\* stopKeepalive: the record is cleared even if the stop intent is refused.
Cleared == {[FreshRecord EXCEPT !.running = r] : r \in {FALSE, android.running}}

-----------------------------------------------------------------------------
(* Commands of the actor.                                                  *)

\* The commands that look at the token slot wait for its lock.
Receives == pc = "recv"
SlotFree == ~Cleaning

Launched(foregroundOnly) ==
    /\ actor' = [token |-> TRUE, running |-> TRUE, lifecycle |-> "initializing",
                 foregroundOnly |-> foregroundOnly]
    /\ task' = "init"
    /\ leftover' = (leftover \/ task \in {"callback", "late"})
    /\ wish' = TRUE

\* handle_start on Android: the platform may refuse, and all is rolled back
\* but the generation, which makes a leftover task stale.
StartAndroid ==
    /\ Receives /\ platform = "android" /\ SlotFree /\ ~actor.token
    /\ Spend
    /\ \/ /\ Launched(FALSE)
          /\ android' = [FreshRecord EXCEPT !.running = TRUE, !.desired = TRUE, !.state = "running",
                                     !.recovery = android.recovery]
       \/ /\ actor' = Idle
          /\ task' = "none"
          /\ leftover' = (leftover \/ task \in {"callback", "late"})
          /\ android' \in Cleared
          /\ UNCHANGED wish
    /\ timedOut' = FALSE
    /\ UNCHANGED <<platform, query, relay, ios, open, ghost>>

\* handle_start on iOS: a refused scheduling is advisory, the service runs
\* foreground-only.  A start for a delivered task clears its pending record.
StartIos ==
    /\ Receives /\ platform = "ios" /\ SlotFree /\ ~actor.token
    /\ Spend
    /\ \E refused \in Refusals, consumed \in BOOLEAN :
          /\ Launched(refused = Kinds)
          /\ ios' = [Submitted(ForgetsEnd(ios), refused)
                       EXCEPT !.desired = TRUE, !.pending = @ /\ ~consumed]
    /\ ghost' = (ios.begun /\ ~open)
    /\ UNCHANGED <<platform, query, android, relay, open, timedOut>>

\* handle_stop_with_reason: the slot and the belief.  A cancelled task has its
\* callback and its cleanup left to do.
Release ==
    /\ SlotFree /\ actor.token
    /\ actor' = [Idle EXCEPT !.lifecycle = "stopped"]
    /\ task' = IF task \in {"init", "run"} THEN "callback" ELSE task
    /\ UNCHANGED leftover

\* stop, with stopKeepalive: on iOS the running task is completed and recorded
\* as ended.
Stop ==
    /\ Receives /\ Release
    /\ Spend
    /\ wish' = FALSE
    /\ \/ /\ platform = "android"
          /\ android' \in Cleared
          /\ timedOut' = FALSE
          /\ UNCHANGED <<ios, open, ghost>>
       \/ /\ platform = "ios"
          /\ ios' = [TaskEnds(ios) EXCEPT !.desired = FALSE]
          /\ open' = FALSE /\ ghost' = FALSE
          /\ UNCHANGED <<android, timedOut>>
    /\ UNCHANGED <<platform, query, relay>>

\* set_desired_running and its mirror on iOS: nothing is started or stopped.
SetDesired(d) ==
    /\ Receives
    /\ Spend
    /\ wish' = d
    /\ \E refused \in Refusals :
          ios' = IF platform # "ios" THEN ios
                 ELSE IF d THEN [Submitted(ios, refused) EXCEPT !.desired = TRUE]
                 ELSE [ios EXCEPT !.desired = FALSE]
    /\ UNCHANGED <<platform, query, actor, taskVars, android, relay, open,
                   timedOut, ghost>>

\* handle_native_lifecycle_event, whatever has happened since: a notification
\* stop clears the wish and stops the keepalive, a timeout does neither.
NativeLifecycleEvent(e) ==
    /\ Receives /\ e \in relay
    /\ relay' = relay \ {e}
    /\ \/ /\ Release
          /\ IF e = "timeout"
             THEN UNCHANGED <<wish, android, timedOut>>
             ELSE wish' = FALSE /\ android' \in Cleared /\ timedOut' = FALSE
       \/ /\ SlotFree /\ ~actor.token
          /\ UNCHANGED <<actor, taskVars, wish, android, timedOut>>
    /\ UNCHANGED <<platform, query, ios, open, used, ghost>>

-----------------------------------------------------------------------------
(* The native query.                                                       *)

Reads == UNCHANGED <<platform, actor, taskVars, wish, native, relay, used>>

\* query_native_state on Android: one call, which may fail.
QueryAndroid(then) ==
    /\ Receives /\ platform = "android"
    /\ pc' = then
    /\ \/ snap' = NoAnswer
       \/ snap' = [NoAnswer EXCEPT !.known = TRUE, !.due = timedOut,
                                   !.rust = actor.running,
                                   !.running = android.running, !.state = android.state,
                                   !.recovery = android.recovery]
    /\ Reads

\* get_ios_native_state: getDesiredStateStatus, getSchedulingStatus and
\* getPendingBgTask, each of them a turn of the main queue.
QueryIos ==
    /\ Receives /\ platform = "ios"
    /\ \/ pc' = "answer" /\ snap' = NoAnswer
       \/ /\ pc' = "scheduling"
          /\ snap' = [NoAnswer EXCEPT !.known = TRUE, !.desired = ios.desired,
                                      !.active = Active(ios), !.ghost = ghost]
    /\ Reads

ReadScheduling ==
    /\ pc = "scheduling" /\ pc' = "pending"
    /\ snap' = [snap EXCEPT !.refused = ios.refused]
    /\ Reads

ReadPending ==
    /\ pc = "pending" /\ pc' = "answer"
    /\ snap' = [snap EXCEPT !.pending = ios.pending]
    /\ Reads

-----------------------------------------------------------------------------
(* The merge and the answer.                                               *)

Adopts == snap.running /\ ~snap.rust
Heals == snap.rust /\ ~snap.running
Diverges == platform = "android" /\ snap.known /\ (Adopts \/ Heals)

\* Rules 1 and 2, and reconcile_running_with_native: on Android the native side
\* wins.  The status loads is_running here, the isRunning query has done so
\* before it asked; both store it, and then the lifecycle.
Load ==
    /\ pc = "answer" /\ pc' = "merge"
    /\ snap' = [snap EXCEPT !.rust = actor.running]
    /\ Reads

MergeRunning ==
    /\ pc \in {"merge", "converge"}
    /\ actor' = IF Diverges THEN [actor EXCEPT !.running = snap.running] ELSE actor
    /\ pc' = IF pc = "merge" THEN (IF Diverges THEN "believe" ELSE "report")
             ELSE (IF Diverges THEN "adjust" ELSE "recv")
    /\ snap' = IF pc' = "recv" THEN NoAnswer ELSE snap
    /\ UNCHANGED <<platform, taskVars, wish, native, relay, used>>

MutBelieved == actor.lifecycle
Believed == IF snap.running THEN "running" ELSE "stopped"

MergeLifecycle ==
    /\ pc \in {"believe", "adjust"}
    /\ actor' = [actor EXCEPT !.lifecycle = Believed]
    /\ pc' = IF pc = "believe" THEN "report"
             ELSE IF snap.running THEN "recv" ELSE "revoke"
    /\ snap' = IF pc' = "recv" THEN NoAnswer ELSE snap
    /\ UNCHANGED <<platform, taskVars, wish, native, relay, used>>

\* A service the native side has stopped loses its token.
Revoke ==
    /\ pc = "revoke" /\ pc' = "recv"
    /\ SlotFree
    /\ actor' = [actor EXCEPT !.token = FALSE]
    /\ task' = IF actor.token /\ task \in {"init", "run"} THEN "callback" ELSE task
    /\ snap' = NoAnswer
    /\ UNCHANGED <<platform, leftover, wish, native, relay, used>>

\* Rule 5: a timeout on record shows whatever the actor believes.
MutTimeoutShows == snap.state = "timeout" /\ snap.rust
TimeoutShows == snap.state = "timeout"

AndroidDegraded ==
    IF ~snap.known THEN "no"
    ELSE IF Heals THEN "native_stopped_rust_running"
    ELSE IF TimeoutShows THEN (IF snap.rust THEN "native_timeout" ELSE "stale_timeout")
    ELSE "no"

\* A refused kind has its error on record, and out of budget are both refused.
IosDegraded ==
    IF snap.known /\ snap.refused # {} THEN "ios_scheduling_error"
    ELSE IF snap.known /\ snap.desired /\ snap.refused = Kinds THEN "ios_out_of_budget"
    ELSE IF actor.foregroundOnly THEN "scheduling_degraded_foreground_only"
    ELSE "no"

Phase ==
    IF snap.active THEN "running"
    ELSE IF snap.pending THEN "pendingBgTask"
    ELSE IF snap.desired THEN "waitingForBgTask"
    ELSE "stopped"

\* iOS: no stale Running when nothing executes and the service is not desired.
Reported ==
    IF platform = "ios" /\ snap.known /\ ~snap.active /\ ~snap.desired
    THEN "stopped" ELSE actor.lifecycle

\* build_lifecycle_status, from its read of the lifecycle on.
AnswerStatus ==
    /\ pc = "report" /\ pc' = "recv"
    /\ doc' = [snap |-> snap,
               state |-> Reported,
               recovery |-> snap.recovery,
               native |-> IF platform = "android" THEN snap.running ELSE snap.active,
               adopted |-> platform = "android" /\ Adopts,
               degraded |-> IF platform = "android" THEN AndroidDegraded ELSE IosDegraded,
               phase |-> IF platform = "ios" /\ snap.known THEN Phase ELSE "none",
               up |-> up, tasked |-> tasked, torn |-> torn]
    /\ snap' = NoAnswer
    /\ Reads

-----------------------------------------------------------------------------
(* The service task.                                                       *)

OnlyTask == UNCHANGED <<platform, query, android, relay, used, timedOut>>

InitOk ==
    /\ task = "init" /\ task' = "run"
    /\ actor' = [actor EXCEPT !.lifecycle = IF @ = "initializing" THEN "running" ELSE @]
    /\ UNCHANGED <<leftover, wish, ios, open, ghost>> /\ OnlyTask

\* The cleanup, after init() has failed or the callback was called, under the
\* token lock: is_running, which queries load without the lock, and then the
\* lifecycle.  The slot is seen empty when the lock is released.
Unbelieve ==
    /\ task \in {"init", "clear"}
    /\ task' = IF task = "init" THEN "failing" ELSE "clearing"
    /\ actor' = [actor EXCEPT !.running = FALSE]
    /\ UNCHANGED <<leftover, wish, ios, open, ghost>> /\ OnlyTask

Stoppable == IF task = "failing" THEN {"initializing"} ELSE UpStates

ClearToken ==
    /\ Cleaning
    /\ task' = IF task = "failing" THEN "late" ELSE "none"
    /\ actor' = [actor EXCEPT !.token = FALSE,
                              !.lifecycle = IF @ \in Stoppable THEN "stopped" ELSE @]
    /\ UNCHANGED <<leftover, wish, ios, open, ghost>> /\ OnlyTask

\* run() returns on its own: Ok clears the wish here and on iOS, an error
\* keeps it.
RunReturns ==
    /\ task = "run" /\ task' = "callback"
    /\ \/ /\ wish' = FALSE
          /\ ios' = IF platform = "ios" THEN [ios EXCEPT !.desired = FALSE] ELSE ios
       \/ UNCHANGED <<wish, ios>>
    /\ UNCHANGED <<actor, leftover, open, ghost>> /\ OnlyTask

\* on_complete, on iOS completeBgTask: the running task is completed and the
\* next one scheduled, and lastTaskCompletedAt stays as it was.
OnComplete ==
    /\ \/ /\ task \in {"callback", "late"}
          /\ task' = IF task = "callback" THEN "clear" ELSE "none"
          /\ UNCHANGED leftover
       \/ leftover /\ leftover' = FALSE /\ UNCHANGED task
    /\ open' = FALSE
    /\ ghost' = (ghost \/ open)
    /\ \E refused \in Refusals : ios' = IF open THEN Submitted(ios, refused) ELSE ios
    /\ UNCHANGED <<actor, wish>> /\ OnlyTask

ServiceTask == InitOk \/ Unbelieve \/ RunReturns \/ OnComplete \/ ClearToken

-----------------------------------------------------------------------------
(* Android, iOS, and the death of the process.                             *)

\* What native code does on its own leaves the actor alone.
OnItsOwn == Spend /\ UNCHANGED <<platform, query, actor, taskVars, wish>>

\* The notification's Stop, and a timeout with either recovery policy.  The
\* webview may not be there to relay the event.
NotificationStop ==
    /\ android.running
    /\ android' = [android EXCEPT !.running = FALSE, !.desired = FALSE, !.recovery = FALSE]
    /\ relay' \in {relay, relay \cup {"notificationStop"}}
    /\ UNCHANGED <<ios, open, timedOut, ghost>> /\ OnItsOwn

Timeout ==
    /\ android.running
    /\ android' \in {[android EXCEPT !.running = FALSE, !.state = "timeout", !.recovery = r] :
                        r \in {TRUE, android.recovery}}
    /\ timedOut' = TRUE
    /\ relay' \in {relay, relay \cup {"timeout"}}
    /\ UNCHANGED <<ios, open, ghost>> /\ OnItsOwn

\* handleBackgroundTask and handleProcessingTask; iOS gives one task at a time.
Deliver ==
    /\ platform = "ios" /\ ~open
    /\ open' = TRUE /\ ghost' = FALSE
    /\ ios' = TaskBegins(ios)
    /\ UNCHANGED <<android, relay, timedOut>> /\ OnItsOwn

\* handleExpiration, and handleSafetyTimerExpiration the same way.
Expire ==
    /\ open
    /\ open' = FALSE
    /\ \E refused \in Refusals : ios' = Submitted(TaskEnds(ios), refused)
    /\ UNCHANGED <<android, relay, timedOut, ghost>> /\ OnItsOwn

\* appDidEnterBackground and appWillEnterForeground, with the service desired.
Transition ==
    /\ platform = "ios" /\ ~open /\ ios.desired
    /\ \E refused \in Refusals : ios' = Submitted(ios, refused)
    /\ UNCHANGED <<android, relay, open, timedOut, ghost>> /\ OnItsOwn

\* The process dies and the next one runs; Android, or the boot receiver, may
\* have restarted a service that is on record as desired, or failed to.
Die ==
    /\ Spend
    /\ pc' = "recv" /\ snap' = NoAnswer
    /\ actor' = Idle /\ task' = "none" /\ leftover' = FALSE
    /\ relay' = {}
    /\ open' = FALSE /\ ghost' = (ghost \/ open)
    /\ \/ android' = [android EXCEPT !.running = FALSE] /\ UNCHANGED timedOut
       \/ /\ android.desired
          /\ timedOut' = FALSE
          /\ \/ android' = [android EXCEPT !.running = TRUE, !.state = "running",
                                           !.recovery = FALSE]
             \/ android' = [android EXCEPT !.running = FALSE, !.state = "core_start_failed",
                                           !.recovery = TRUE]
    /\ UNCHANGED <<platform, wish, ios>>

-----------------------------------------------------------------------------
Command ==
    \/ StartAndroid \/ StartIos \/ Stop
    \/ \E d \in BOOLEAN : SetDesired(d)
    \/ \E e \in {"notificationStop", "timeout"} : NativeLifecycleEvent(e)
    \/ \E then \in {"answer", "converge"} : QueryAndroid(then)
    \/ QueryIos

Query ==
    \/ ReadScheduling \/ ReadPending
    \/ Load \/ MergeRunning \/ MergeLifecycle \/ Revoke

Native == NotificationStop \/ Timeout \/ Deliver \/ Expire \/ Transition

Next ==
    /\ \/ AnswerStatus
       \/ (Command \/ Query \/ ServiceTask \/ Native \/ Die) /\ doc' = NoDoc
    /\ Witness

vars == <<platform, query, actor, taskVars, wish, native, relay, doc, used, up, tasked, torn>>

Spec == Init /\ [][Next]_vars
=============================================================================
