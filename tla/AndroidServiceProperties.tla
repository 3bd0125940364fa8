---------------------- MODULE AndroidServiceProperties ----------------------
(***************************************************************************)
(* What the Android service must keep true: what is left once everything   *)
(* has come to rest agrees with what happened last, through lost races of  *)
(* acknowledgements, timeouts, kills, recreations and reboots.             *)
(*                                                                         *)
(* The premise ~raced leaves out the runs where a core start overlapped a  *)
(* stop or a stop intent was refused: there the code keeps no promise.     *)
(***************************************************************************)
EXTENDS AndroidService

Messages ==
    [kind : {"start"}, source : Invokes \cup {"boot"}]
      \cup [kind : {"stop", "restart", "type", "destroy"},
            source : Invokes \cup {"command", "notification", "android"}]

Records ==
    [desired : BOOLEAN, recovery : BOOLEAN,
     native : {"unknown", "running", "timeout", "core_start_failed"}]

ServiceTypes ==
    /\ durable \in Records
    /\ prefs \in BOOLEAN /\ isRunning \in BOOLEAN /\ isForeground \in BOOLEAN
    /\ monitor \in BOOLEAN /\ leaked \in BOOLEAN /\ core \in BOOLEAN

LooperTypes ==
    /\ looper \in Seq(Messages)
    /\ started \in BOOLEAN /\ sticky \in BOOLEAN /\ alive \in BOOLEAN
    /\ raced \in BOOLEAN /\ used \in 0 .. MaxEvents

ThreadTypes ==
    /\ worker \in [Sources -> [phase : {"idle", "call", "accepted", "rejected", "saving"},
                               orphan : BOOLEAN]]
    /\ stoppers \in Nat
    /\ ack \in [Invokes -> {"none", "pending", "ok", "fail"}]
    /\ waiter \in [Invokes -> {"idle", "lookup", "waiting", "failed", "saving"} \cup Answered]
    /\ last \in Sources \cup {"none", "refused", "stop", "timeout", "killed"}

\* The type invariant.
AndroidTypeOK == ServiceTypes /\ LooperTypes /\ ThreadTypes

AtRest == looper = <<>> /\ stoppers = 0 /\ ~StartInFlight /\ CommandsIdle

\* A stop is final: until something starts the service again, neither a kill,
\* nor a recreation, nor a reboot, nor a late acknowledgement brings back the
\* wish, the label or a recovery, and at rest the core is down and no
\* connectivity monitor is left registered.
StopIsFinal ==
    last = "stop" /\ ~raced =>
        /\ CommandsIdle => ~durable.desired /\ ~durable.recovery /\ ~prefs /\ ~StartInFlight
        /\ AtRest => ~core /\ ~isRunning /\ ~monitor /\ ~leaked

\* A start's answer is the truth once everything is at rest: resolved means
\* that the core runs, flagged, recorded and restartable; rejected means that
\* the stop of its rollback was the last thing that happened to the service,
\* although the acknowledgement may have been missed or have come too late.
AnswerTruthful ==
    \A i \in Invokes :
        last = i /\ AtRest /\ ~raced =>
            /\ waiter[i] # "rejected"
            /\ waiter[i] = "resolved" =>
                  core /\ isRunning /\ prefs /\ monitor /\ durable.desired /\ started

\* A recreation after a kill leaves a recovery pending exactly when the core
\* did not come up again, and a timeout leaves the service down and recorded
\* as timed out: what the status and the recovery of the app read.
RecoveryTruthful ==
    AtRest /\ ~raced =>
        /\ last = "restart" => (durable.recovery <=> ~core)
        /\ last = "timeout" => ~core /\ ~isRunning /\ ~started /\ durable.native = "timeout"

\* Every start command is answered, also when the acknowledgement came before
\* the wait for it, or never comes, unless the process dies.
StartAnswered == \A i \in Invokes : (waiter[i] = "lookup") ~> (waiter[i] \in Answered)
=============================================================================
