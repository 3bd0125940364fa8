------------------------------- MODULE OsService -------------------------------
(***************************************************************************)
(* The desktop's OS-service mode: the headless daemon (desktop/            *)
(* headless.rs), the unit the init system supervises it by (desktop/       *)
(* service_manager.rs), and the GUI's commands and auto-provisioning       *)
(* (lib.rs), which install, start, stop and restart that unit.             *)
(*                                                                         *)
(* Actors: the daemon's actor and its signal handler; the init system,     *)
(* which restarts a daemon that failed and starts an enabled one at boot;  *)
(* the GUI's connection to the daemon; one command of the GUI at a time    *)
(* and, beside it, the provisioning task of its setup; and the user, who   *)
(* grants and withdraws consent, disables the unit, opens and closes the   *)
(* GUI, and reboots.                                                       *)
(*                                                                         *)
(* The manager is seen through what a Start, a Stop and a boot replay do   *)
(* to the service and the desired state (module ServiceManager), the       *)
(* connection through its flag and what it is connected to (module         *)
(* IpcConnection).                                                         *)
(***************************************************************************)
EXTENDS Naturals, FiniteSets

CONSTANTS
    Configs,   \* configurations and init systems considered, see config
    Commands,  \* the commands the GUI may give
    Burst,     \* StartLimitBurst: failures after which the unit is given up
    Limits     \* bounds on commands, faults of the machine, acts of the user

ASSUME OsAssumption ==
    /\ Configs \subseteq [startIfMissing : BOOLEAN, autostart : BOOLEAN, stopBlocks : BOOLEAN]
    /\ Commands \subseteq {"start", "stop", "install", "uninstall", "startOs", "stopOs", "restartOs"}
    /\ Burst \in Nat
    /\ Limits \in [{"commands", "faults", "acts"} -> Nat]

VARIABLES
    config,    \* desktopStartServiceIfMissing, desktopServiceAutostart, and
               \* whether the init system's stop waits for the process
    unit,      \* absent, disabled (no autostart) or enabled
    failures,  \* failures the init system has counted in its interval
    pending,   \* the init system is about to restart the daemon
    up,        \* the machine is up (FALSE while it goes down and boots)
    phase,     \* the daemon process
    fresh,     \* history: this process was started after the last stop of the unit
    mayReplay, \* this process read consent.enabled and consent.auto_unlock at its start
    actor,     \* its actor before the boot replay, in a start not yet saved, or ready
    stopped,   \* its signal handler's Stop has been carried out
    service,   \* the background service runs in it
    late,      \* a run stopped after its end still owes its clearing of the desired state
    failed,    \* history: the service ended with an error since this process started it
    desired,   \* desired_running on disk
    consent,   \* the user's consent record on disk
    gui,       \* the GUI process runs
    link,      \* its persistent client
    job,       \* the provisioning task and the current command
    seen,      \* history: the client was connected to the process a restart stopped,
               \* and the wait for the disconnect was not cut short
    user,      \* history: the last start or stop of the user a daemon carried out
    termed,    \* history: a signal ended the service since
    unsaved,   \* history: the save of that wish has not come, has failed, or was overtaken
    optedOut,  \* history: unit disabled or removed without consent, and nobody asked for it since
    used       \* how much of Limits is used up

daemonVars == <<phase, fresh, mayReplay, actor, stopped, service, late, failed>>
initVars   == <<failures, pending>>
wishVars   == <<desired, user, termed, unsaved>>
vars == <<config, unit, initVars, up, daemonVars, wishVars, consent, gui, link, job,
          seen, optedOut, used>>

Jobs == {"provision", "command"}
NoJob == [kind |-> "none", pc |-> "idle", answer |-> "none"]
Busy(j) == job[j].pc \notin {"idle", "done"}

Alive == phase # "dead"

\* The actor takes commands.
Ready == Alive /\ actor = "ready"

\* AtomicBool connected: the reader has not noticed yet that its peer is gone.
Connected == link \in {"up", "broken"}

Init ==
    /\ config \in Configs
    /\ unit \in {"absent", "enabled"}
    /\ failures = 0 /\ pending = FALSE /\ up = TRUE
    /\ phase = "dead" /\ fresh = FALSE
    /\ mayReplay = FALSE /\ actor = "boot" /\ stopped = FALSE
    /\ service = FALSE /\ late = FALSE /\ failed = FALSE
    /\ desired = FALSE /\ user = "none" /\ termed = FALSE /\ unsaved = FALSE
    /\ consent \in {{}, {"enabled", "autoUnlock"}}
    /\ gui = FALSE /\ link = "off"
    /\ job = [j \in Jobs |-> NoJob]
    /\ seen = FALSE
    /\ optedOut = FALSE
    /\ used = [l \in DOMAIN Limits |-> 0]

Spend(l) ==
    /\ used[l] < Limits[l]
    /\ used' = [used EXCEPT ![l] = @ + 1]

-----------------------------------------------------------------------------
(* The daemon: headless_main_with_desired_state                            *)

\* A process starts: consent is read once, the actor is spawned before the
\* socket is bound.
Spawn ==
    /\ phase' = "booting" /\ fresh' = TRUE
    /\ mayReplay' = ({"enabled", "autoUnlock"} \subseteq consent)
    /\ actor' = "boot" /\ stopped' = FALSE
    /\ service' = FALSE /\ late' = FALSE /\ failed' = FALSE

Broken == IF link = "up" THEN "broken" ELSE link

\* The process is gone, its connections with it.
Died ==
    /\ phase' = "dead"
    /\ mayReplay' = FALSE /\ actor' = "boot" /\ stopped' = FALSE
    /\ service' = FALSE /\ late' = FALSE /\ failed' = FALSE

Ended == Died /\ link' = Broken

\* save_desired_running: a save that fails is only logged.  Afterwards the
\* user's wish is not in the file if the save overtook it, or lost it.
Save(wanted, overtook, lost) ==
    \/ desired' = wanted /\ unsaved' = overtook
    \/ UNCHANGED desired /\ unsaved' = lost

\* should_replay_on_boot, under this process's consent.
MutReplays == mayReplay
Replays == mayReplay /\ desired

\* The actor replays before it takes its first command, whatever the socket
\* does.  A file that cannot be read, or whose start configuration is missing or
\* malformed, is replayed by nothing, which is only logged.
Replay ==
    /\ Alive /\ actor = "boot"
    /\ service' \in {Replays, FALSE}
    /\ failed' = (Replays /\ ~service')
    /\ actor' = IF service' THEN "saving" ELSE "ready"
    /\ UNCHANGED <<config, unit, initVars, up, phase, fresh, mayReplay, stopped, late,
                   wishVars, consent, gui, link, job, seen, optedOut, used>>

\* The end of handle_start: the task has been running since it was spawned.
SaveStart ==
    /\ Alive /\ actor = "saving"
    /\ actor' = "ready"
    /\ Save(TRUE, user # "start", unsaved)
    /\ UNCHANGED <<config, unit, initVars, up, phase, fresh, mayReplay, stopped, service,
                   late, failed, user, termed, consent, gui, link, job, seen, optedOut, used>>

\* IpcServer::bind and the signal handlers.
Bind ==
    /\ phase = "booting"
    /\ phase' = "serving"
    /\ UNCHANGED <<config, unit, initVars, up, fresh, mayReplay, actor, stopped, service,
                   late, failed, wishVars, consent, gui, link, job, seen, optedOut, used>>

\* A bind or an accept that fails is printed, and main returns: exit code 0,
\* which the init system takes for a deliberate end.
EndsQuietly ==
    /\ phase \in {"booting", "serving"}
    /\ Spend("faults")
    /\ Ended
    /\ UNCHANGED <<config, unit, initVars, up, fresh, wishVars, consent, gui, job, seen, optedOut>>

\* What a Stop does to a service that runs: cancelled, it may have ended by
\* itself just before, and then clears the desired state once more.
Stops ==
    /\ service' = FALSE
    /\ late' \in {late, service \/ late}

\* graceful_sigterm_shutdown, its Stop: bookkeeping of a user stop if the
\* service runs, NotRunning tolerated if not.
GracefulStop ==
    /\ phase = "stopping" /\ actor = "ready" /\ ~stopped
    /\ stopped' = TRUE
    /\ Stops
    /\ termed' = (termed \/ service)
    /\ IF service
       THEN Save(FALSE, FALSE, unsaved)
       ELSE UNCHANGED <<desired, unsaved>>
    /\ UNCHANGED <<config, unit, initVars, up, phase, fresh, mayReplay, actor, failed,
                   user, consent, gui, link, job, seen, optedOut, used>>

\* ShutdownGracefully is over, the runtime goes away with the connections.
Exit ==
    /\ phase = "stopping" /\ stopped
    /\ Ended
    /\ UNCHANGED <<config, unit, initVars, up, fresh, wishVars, consent, gui, job, seen,
                   optedOut, used>>

\* The service ends by itself, which clears the desired state.
Completes ==
    /\ service
    /\ Spend("acts")
    /\ service' = FALSE /\ user' = "none"
    /\ Save(FALSE, FALSE, TRUE)
    /\ UNCHANGED <<config, unit, initVars, up, phase, fresh, mayReplay, actor, stopped,
                   late, failed, termed, consent, gui, link, job, seen, optedOut>>

\* The clearing owed by a run that had ended when it was stopped: it also
\* overtakes a start that came since.
SaveLate ==
    /\ late
    /\ late' = FALSE
    /\ Save(FALSE, user = "start", unsaved)
    /\ UNCHANGED <<config, unit, initVars, up, phase, fresh, mayReplay, actor, stopped,
                   service, failed, user, termed, consent, gui, link, job, seen, optedOut, used>>

\* init() or run() fails.  The desired state stays, for a recovery that on the
\* desktop is the next replay at boot.
Fails ==
    /\ service
    /\ Spend("acts")
    /\ service' = FALSE /\ failed' = TRUE
    /\ UNCHANGED <<config, unit, initVars, up, phase, fresh, mayReplay, actor, stopped,
                   late, wishVars, consent, gui, link, job, seen, optedOut>>

-----------------------------------------------------------------------------
(* The init system, and DesktopServiceManager over it                      *)

\* Restart=on-failure within StartLimitBurst.  systemd counts no failure of a
\* unit it is stopping.
Restartable ==
    /\ up /\ unit # "absent" /\ failures < Burst
    /\ config.stopBlocks => phase # "stopping"

Crash ==
    /\ Alive
    /\ Spend("faults")
    /\ Ended
    /\ pending' = Restartable
    /\ failures' = IF Restartable THEN failures + 1 ELSE failures
    /\ UNCHANGED <<config, unit, up, fresh, wishVars, consent, gui, job, seen, optedOut>>

Restart ==
    /\ pending /\ up /\ phase = "dead"
    /\ pending' = FALSE
    /\ Spawn
    /\ UNCHANGED <<config, unit, failures, up, wishVars, consent, gui, link, job, seen,
                   optedOut, used>>

\* SIGTERM: before its handler is installed it kills, afterwards it is handled.
Terminated ==
    CASE phase = "booting" -> Ended
      [] phase = "serving" -> /\ phase' = "stopping"
                              /\ UNCHANGED <<mayReplay, actor, stopped, service, late, failed, link>>
      [] OTHER -> UNCHANGED <<phase, mayReplay, actor, stopped, service, late, failed, link>>

\* start() of an active unit does nothing.
StartUnit == IF Alive THEN UNCHANGED daemonVars ELSE Spawn

\* A unit that is not there or has failed too often does not start.
Startable == unit # "absent" /\ (Alive \/ failures < Burst)

-----------------------------------------------------------------------------
(* The GUI's connection                                                    *)

Connect ==
    /\ gui /\ link = "backoff" /\ phase = "serving"
    /\ link' = "up"
    /\ UNCHANGED <<config, unit, initVars, up, daemonVars, wishVars, consent, gui, job,
                   seen, optedOut, used>>

\* The reader clears the flag; the client task notices at its next tick or send.
NoticeLoss ==
    /\ \/ link = "broken" /\ link' = "stale"
       \/ link = "stale" /\ link' = "backoff"
    /\ UNCHANGED <<config, unit, initVars, up, daemonVars, wishVars, consent, gui, job,
                   seen, optedOut, used>>

-----------------------------------------------------------------------------
(* The GUI's jobs                                                          *)

Goto(j, pc) == job' = [job EXCEPT ![j].pc = pc]
End(j, answer) == job' = [job EXCEPT ![j].pc = "done", ![j].answer = answer]

\* should_auto_provision: asked once, at setup.
MutAllowed == config.startIfMissing
Allowed == config.startIfMissing /\ "enabled" \in consent

\* Setup in OS-service mode: the client, and the provisioning task.
LaunchGui ==
    /\ ~gui /\ up
    /\ Spend("acts")
    /\ gui' = TRUE /\ link' = "backoff"
    /\ job' = [job EXCEPT !["provision"] =
                  IF Allowed THEN [kind |-> "provision", pc |-> "grace", answer |-> "none"]
                             ELSE NoJob]
    /\ UNCHANGED <<config, unit, initVars, up, daemonVars, wishVars, consent, seen, optedOut>>

\* The Exit handler leaves the daemon alone; the GUI's tasks die.
GuiGone ==
    /\ gui' = FALSE /\ link' = "off"
    /\ job' = [j \in Jobs |-> NoJob]

QuitGui ==
    /\ gui
    /\ Spend("acts")
    /\ GuiGone
    /\ UNCHANGED <<config, unit, initVars, up, daemonVars, wishVars, consent, seen, optedOut>>

\* The first step of each command.
FirstStep(kind) ==
    CASE kind = "start" -> "check"
      [] kind = "stop" -> "sendStop"
      [] kind = "install" -> "validate"
      [] kind = "uninstall" -> "remove"
      [] kind = "startOs" -> "startUnit"
      [] kind \in {"stopOs", "restartOs"} -> "stopUnit"

Command(kind) ==
    /\ gui /\ ~Busy("command")
    /\ Spend("commands")
    /\ job' = [job EXCEPT !["command"] =
                  [kind |-> kind, pc |-> FirstStep(kind), answer |-> "none"]]
    /\ UNCHANGED <<config, unit, initVars, up, daemonVars, wishVars, consent, gui, link,
                   seen, optedOut>>

\* start, in OS-service mode.
CheckConnected(j) ==
    /\ job[j].pc = "check"
    /\ CASE Connected -> Goto(j, "sendStart")
         [] ~Connected /\ config.startIfMissing -> Goto(j, "startUnit")
         [] OTHER -> End(j, "error")
    /\ UNCHANGED <<config, unit, initVars, up, daemonVars, wishVars, consent, gui, link,
                   seen, optedOut, used>>

\* The grace period of the provisioning task.
GraceEnds(j) ==
    /\ job[j].pc = "grace"
    /\ IF Connected THEN End(j, "ok") ELSE Goto(j, "validate")
    /\ UNCHANGED <<config, unit, initVars, up, daemonVars, wishVars, consent, gui, link,
                   seen, optedOut, used>>

\* install_service_inner: the executable answers, fails, or is too slow, which
\* only warns.
Validate(j) ==
    /\ job[j].pc = "validate"
    /\ Goto(j, "install") \/ End(j, "error")
    /\ UNCHANGED <<config, unit, initVars, up, daemonVars, wishVars, consent, gui, link,
                   seen, optedOut, used>>

Installed ==
    IF config.autostart THEN "enabled" ELSE IF unit = "absent" THEN "disabled" ELSE unit

Install(j) ==
    /\ job[j].pc = "install"
    /\ \/ /\ Goto(j, "settle")
          /\ unit' = Installed
          /\ optedOut' = (optedOut /\ job[j].kind = "provision")
       \/ End(j, "error") /\ UNCHANGED <<unit, optedOut>>
    /\ UNCHANGED <<config, initVars, up, daemonVars, wishVars, consent, gui, link, seen, used>>

\* wait_for_connected after an install: its result is not looked at.
Settle(j) ==
    /\ job[j].pc = "settle"
    /\ IF job[j].kind = "provision" THEN Goto(j, "startUnit") ELSE End(j, "ok")
    /\ UNCHANGED <<config, unit, initVars, up, daemonVars, wishVars, consent, gui, link,
                   seen, optedOut, used>>

Remove(j) ==
    /\ job[j].pc = "remove"
    /\ \/ /\ End(j, "ok")
          /\ unit' = "absent"
          /\ optedOut' = ("enabled" \notin consent /\ ~Busy("provision"))
       \/ End(j, "error") /\ UNCHANGED <<unit, optedOut>>
    /\ UNCHANGED <<config, initVars, up, daemonVars, wishVars, consent, gui, link, seen, used>>

StartsUnit(j) ==
    /\ job[j].pc = "startUnit"
    /\ \/ Startable /\ StartUnit /\ Goto(j, "wait")
       \/ End(j, "error") /\ UNCHANGED daemonVars
    /\ UNCHANGED <<config, unit, initVars, up, wishVars, consent, gui, link, seen,
                   optedOut, used>>

\* wait_for_connected: connected, or the timeout.  Only start looks at which.
WaitEnds(j) ==
    /\ job[j].pc = "wait"
    /\ IF job[j].kind = "start"
       THEN IF Connected THEN Goto(j, "sendStart") ELSE End(j, "error")
       ELSE End(j, "ok")
    /\ UNCHANGED <<config, unit, initVars, up, daemonVars, wishVars, consent, gui, link,
                   seen, optedOut, used>>

\* stop_os_service and restart_os_service: the unit is stopped, which also
\* cancels a pending restart; launchd takes a process killed by the signal for
\* one that failed.
StopsUnit(j) ==
    /\ job[j].pc = "stopUnit"
    /\ \/ /\ Terminated
          /\ fresh' = FALSE
          /\ pending' = (phase = "booting" /\ ~config.stopBlocks /\ Restartable)
          /\ seen' = (link = "up" /\ job[j].kind = "restartOs")
          /\ Goto(j, IF config.stopBlocks THEN "stopping"
                     ELSE IF job[j].kind = "restartOs" THEN "poll" ELSE "stopped")
       \/ End(j, "error") /\ UNCHANGED <<daemonVars, link, pending, seen>>
    /\ UNCHANGED <<config, unit, failures, up, wishVars, consent, gui, optedOut, used>>

\* A stop that blocks returns when the process it stopped is gone.
StopReturns(j) ==
    /\ \/ job[j].pc = "stopping" /\ (phase = "dead" \/ fresh)
       \/ job[j].pc = "stopped"
    /\ IF job[j].kind = "restartOs" THEN Goto(j, "poll") ELSE End(j, "ok")
    /\ UNCHANGED <<config, unit, initVars, up, daemonVars, wishVars, consent, gui, link,
                   seen, optedOut, used>>

\* The bounded wait of restart_os_service for the disconnect.
MutPolled == TRUE
Polled == ~Connected

MutDeadline == FALSE
Deadline == Connected

PollEnds(j) ==
    /\ job[j].pc = "poll"
    /\ \/ Polled /\ UNCHANGED seen
       \/ Deadline /\ seen' = FALSE
    /\ Goto(j, "startUnit")
    /\ UNCHANGED <<config, unit, initVars, up, daemonVars, wishVars, consent, gui, link,
                   optedOut, used>>

\* client.start() and client.stop().  stop() is refused while disconnected; a
\* start waits in the queue, and every answer may be lost with its connection.
\* A start is answered after its save, which nothing here waits for.
SendStart(j) ==
    /\ job[j].pc = "sendStart"
    /\ \/ /\ link = "up" /\ actor = "ready"
          /\ service' = TRUE
          /\ IF service
             THEN UNCHANGED <<wishVars, actor, failed>>
             ELSE /\ actor' = "saving" /\ failed' = FALSE
                  /\ user' = "start" /\ termed' = FALSE /\ unsaved' = TRUE
                  /\ UNCHANGED desired
          /\ End(j, IF service THEN "error" ELSE "ok")
          /\ UNCHANGED link
       \/ /\ link \in {"broken", "stale"}
          /\ End(j, "error")
          /\ link' = "backoff"
          /\ UNCHANGED <<wishVars, service, actor, failed>>
    /\ UNCHANGED <<config, unit, initVars, up, phase, fresh, mayReplay, stopped, late,
                   consent, gui, seen, optedOut, used>>

SendStop(j) ==
    /\ job[j].pc = "sendStop"
    /\ \/ /\ link = "up" /\ actor = "ready"
          /\ Stops
          /\ IF service
             THEN Save(FALSE, FALSE, TRUE) /\ user' = "stop" /\ UNCHANGED termed
             ELSE UNCHANGED wishVars
          /\ End(j, IF service THEN "ok" ELSE "error")
          /\ UNCHANGED link
       \/ /\ link # "up"
          /\ End(j, "error")
          /\ link' = IF link = "broken" THEN "backoff" ELSE link
          /\ UNCHANGED <<wishVars, service, late>>
    /\ UNCHANGED <<config, unit, initVars, up, phase, fresh, mayReplay, actor, stopped, failed,
                   consent, gui, seen, optedOut, used>>

-----------------------------------------------------------------------------
(* The user and the machine                                                *)

\* Granting consent, or withdrawing it.
Consent(c) ==
    /\ consent # c
    /\ Spend("acts")
    /\ consent' = c
    /\ optedOut' = (optedOut /\ "enabled" \notin c)
    /\ UNCHANGED <<config, unit, initVars, up, daemonVars, wishVars, gui, link, job, seen>>

\* systemctl --user disable, or its like.
Disable ==
    /\ unit = "enabled"
    /\ Spend("acts")
    /\ unit' = "disabled"
    /\ optedOut' = ("enabled" \notin consent /\ ~Busy("provision"))
    /\ UNCHANGED <<config, initVars, up, daemonVars, wishVars, consent, gui, link, job, seen>>

\* A reboot, or the end of the session: the daemon is told to end, the GUI is gone.
GoDown ==
    /\ up
    /\ Spend("faults")
    /\ up' = FALSE
    /\ pending' = FALSE
    /\ GuiGone
    /\ IF phase = "booting"
       THEN Died
       ELSE /\ phase' = IF phase = "serving" THEN "stopping" ELSE phase
            /\ UNCHANGED <<mayReplay, actor, stopped, service, late, failed>>
    /\ UNCHANGED <<config, unit, failures, fresh, wishVars, consent, seen, optedOut>>

\* The power goes: nobody is told.
PowerLoss ==
    /\ up
    /\ Spend("faults")
    /\ up' = FALSE
    /\ pending' = FALSE
    /\ GuiGone
    /\ Died
    /\ UNCHANGED <<config, unit, failures, fresh, wishVars, consent, seen, optedOut>>

ComeUp ==
    /\ ~up /\ phase = "dead"
    /\ up' = TRUE
    /\ failures' = 0
    /\ IF unit = "enabled" THEN Spawn ELSE UNCHANGED daemonVars
    /\ UNCHANGED <<config, unit, pending, wishVars, consent, gui, link, job, seen, optedOut, used>>

-----------------------------------------------------------------------------

Daemon == Replay \/ SaveStart \/ SaveLate \/ Bind \/ GracefulStop \/ Exit

Step(j) ==
    \/ CheckConnected(j) \/ GraceEnds(j) \/ Validate(j) \/ Install(j) \/ Settle(j)
    \/ Remove(j) \/ StartsUnit(j) \/ WaitEnds(j) \/ StopsUnit(j) \/ StopReturns(j)
    \/ PollEnds(j) \/ SendStart(j) \/ SendStop(j)

User ==
    \/ LaunchGui \/ QuitGui \/ Disable
    \/ \E kind \in Commands : Command(kind)
    \/ \E c \in {{}, {"enabled"}, {"enabled", "autoUnlock"}} : Consent(c)

Next ==
    \/ Daemon \/ Completes \/ Fails
    \/ EndsQuietly \/ Crash \/ Restart
    \/ Connect \/ NoticeLoss
    \/ \E j \in Jobs : Step(j)
    \/ User
    \/ GoDown \/ PowerLoss \/ ComeUp

\* The daemon's runtime and the GUI's run; the init system restarts what it
\* promised to; the user, crashes and reboots owe nothing.
Fairness ==
    /\ WF_vars(Daemon)
    /\ WF_vars(Restart) /\ WF_vars(ComeUp)
    /\ WF_vars(Connect) /\ WF_vars(NoticeLoss)
    /\ \A j \in Jobs : WF_vars(Step(j))

Spec == Init /\ [][Next]_vars

FairSpec == Spec /\ Fairness
=============================================================================
