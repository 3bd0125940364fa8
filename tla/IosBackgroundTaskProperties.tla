--------------------- MODULE IosBackgroundTaskProperties ---------------------
(***************************************************************************)
(* What the service on iOS promises about background tasks, listeners and  *)
(* scheduling.                                                             *)
(***************************************************************************)
EXTENDS IosBackgroundTask

OsTypes ==
    /\ load \in Loads /\ alive \in BOOLEAN /\ boots \in 0 .. load.boots
    /\ tasks \in Seq(Kinds) /\ Len(tasks) <= load.tasks
    /\ pending \in 0 .. Len(tasks)

TaskTypes ==
    /\ open \in 0 .. Len(tasks)
    /\ completions \in [1 .. MaxTasks -> Nat]
    /\ current \in [Kinds -> 0 .. Len(tasks)]
    /\ taskCompleted \in BOOLEAN /\ timer \in BOOLEAN

ScheduleTypes ==
    /\ submitted \subseteq Kinds /\ lost \subseteq Kinds
    /\ unscheduled \in BOOLEAN
    /\ desired \in BOOLEAN /\ configured \in BOOLEAN

RunTypes ==
    /\ run \in [Runs -> {"none", "running", "cancelled", "returned",
                         "completing", "clearing", "failing", "ended"}]
    /\ slot \in {0} \cup {g \in Started :
                          run[g] \notin {"cancelled", "failing", "ended"}}
    /\ callback \in [Runs -> BOOLEAN] /\ armed \in BOOLEAN

ListenerTypes ==
    /\ listener \in [Runs -> {"none", "due", "blocked", "resolved", "timedout",
                              "stopping", "done"}]
    /\ pendingCancel \in {0} \cup Started /\ pendingWarm \in BOOLEAN
    /\ orphaned \subseteq Runs

StarterTypes ==
    /\ starter \in [Starters -> {"idle", "away", "due", "blocked", "read",
                                 "check", "clear", "query", "arm", "armed",
                                 "consume"}]
    /\ target \in [Starters -> 0 .. MaxRuns]

\* Every variable stays in the set of values it is meant to hold; the slot
\* and the stored invoke name a run, the slot one that still has its token.
IosTypeOK ==
    /\ OsTypes /\ TaskTypes /\ ScheduleTypes
    /\ RunTypes /\ ListenerTypes /\ StarterTypes

\* setTaskCompleted is called at most once for a task, and as long as iOS
\* waits for a task the plugin can still complete that very task: one
\* reference names it and the one-shot flag is down.  The safety timer runs
\* only for such a task.  Expiration, safety
\* timer, stop and completion race for it (docs/ios.md, Completion Safety).
CompletedOnce ==
    /\ \A t \in 1 .. MaxTasks : completions[t] <= 1
    /\ open # 0 => ~taskCompleted /\ ActiveTask = open
    /\ \A k \in Kinds : current[k] \in {0, open}
    /\ timer => HasTask

\* No Rust thread is left blocked on a cancel invoke the plugin has forgotten:
\* whatever is superseded, rejected or cleaned up has been answered.
NoListenerLeaked ==
    \A g \in Runs :
        /\ listener[g] = "blocked" => pendingCancel = g
        /\ pendingCancel = g => listener[g] \in {"blocked", "timedout"}

\* A running service whose listener has come as far as waitForCancel is
\* reached by an expiration: some invoke is stored or an answer is on its way
\* to the manager.  The exceptions are the runs whose invoke was answered by
\* an older run's completion or by an older listener's timeout.
ExpirationReaches ==
    \A g \in Runs \ orphaned :
        slot = g /\ run[g] = "running" /\ listener[g] \notin {"none", "due"} =>
            \E h \in Runs :
                listener[h] \in {"blocked", "resolved", "timedout", "stopping"}

\* While the service is wanted and no task is running, both requests wait in
\* the scheduler, but for the kinds whose task died with the process; a
\* refused submission is on record.  Otherwise background delivery would end
\* silently.
WantedIsScheduled ==
    desired /\ ~HasTask /\ ~unscheduled => submitted \cup lost = Kinds

\* Requests are submitted only for a service that is wanted or at the end of a
\* task: a late completion or expiration with nothing active submits nothing
\* (BackgroundServicePlugin.swift, finishRun: no spurious BGTask request).
NoSpuriousSubmission ==
    [][~(submitted' \subseteq submitted) => desired' \/ HasTask]_vars

\* A task iOS has given is completed, or the process is gone.
TaskAnswered == \A t \in 1 .. MaxTasks : open = t ~> open # t

\* An expiration the listener has been told of stops the run in the slot, and
\* that run gives up the slot for good.
ExpirationStopsRun ==
    \A g \in Runs :
        slot = g /\ run[g] = "running" /\ listener[g] = "resolved"
            ~> run[g] = "ended"
=============================================================================
