-------------------------- MODULE OsServiceProperties --------------------------
(***************************************************************************)
(* What OS-service mode must keep true across crashes of the daemon,       *)
(* restarts of its unit, closed and reopened GUIs and power losses.        *)
(***************************************************************************)
EXTENDS OsService

\* The steps each job of the GUI takes.
Path(kind) ==
    CASE kind = "none" -> {"idle"}
      [] kind = "provision" -> {"grace", "validate", "install", "settle", "startUnit", "wait", "done"}
      [] kind = "start" -> {"check", "startUnit", "wait", "sendStart", "done"}
      [] kind = "stop" -> {"sendStop", "done"}
      [] kind = "install" -> {"validate", "install", "settle", "done"}
      [] kind = "uninstall" -> {"remove", "done"}
      [] kind = "startOs" -> {"startUnit", "wait", "done"}
      [] kind = "stopOs" -> {"stopUnit", "stopping", "stopped", "done"}
      [] kind = "restartOs" -> {"stopUnit", "stopping", "poll", "startUnit", "wait", "done"}

JobKinds == {"none", "provision", "start", "stop", "install", "uninstall", "startOs",
             "stopOs", "restartOs"}

JobTypes ==
    /\ job \in [Jobs -> [kind : JobKinds, answer : {"none", "ok", "error"},
                         pc : UNION {Path(k) : k \in JobKinds}]]
    /\ \A j \in Jobs : job[j].pc \in Path(job[j].kind)
    /\ job["provision"].kind \in {"none", "provision"}
    /\ job["command"].kind # "provision"

\* A service runs in a daemon past its replay, a connection leads to a daemon
\* that has bound its socket, and only a GUI has one.
DaemonTypes ==
    /\ phase \in {"dead", "booting", "serving", "stopping"}
    /\ {fresh, mayReplay, stopped, service, late, failed, gui} \subseteq BOOLEAN
    /\ actor \in {"boot", "saving", "ready"}
    /\ link \in {"off", "backoff", "up", "broken", "stale"}
    /\ service \/ late \/ failed => Alive /\ actor # "boot"
    /\ link = "up" => phase \in {"serving", "stopping"}
    /\ gui <=> link # "off"

WorldTypes ==
    /\ config \in Configs
    /\ unit \in {"absent", "disabled", "enabled"}
    /\ failures \in 0 .. Burst
    /\ {pending, up, desired, termed, unsaved, seen, optedOut} \subseteq BOOLEAN
    /\ consent \subseteq {"enabled", "autoUnlock"}
    /\ user \in {"none", "start", "stop"}
    /\ used \in [{"commands", "faults", "acts"} -> Nat]
    /\ \A l \in {"commands", "faults", "acts"} : used[l] <= Limits[l]

\* The type invariant.
OsTypeOK == JobTypes /\ DaemonTypes /\ WorldTypes

\* However often the daemon crashed and its unit was stopped, restarted or
\* booted, a service that runs is one the user started last; and a process that
\* may replay runs what the user started, once its actor takes commands.  What
\* can part them is named: a signal ended the service (headless.rs:103-110); the
\* service failed, or its replay did, in this very process (manager.rs:1157-1187,
\* 1270, 800-836); or the wish never reached the file, because its save failed
\* or crossed the clearing of a run that ended by itself (manager.rs:1261-1269,
\* 1661, 1696).
ServiceFollowsUser ==
    Ready /\ ~unsaved =>
        /\ service => user = "start"
        /\ mayReplay /\ user = "start" /\ ~termed => service \/ failed

\* lib.rs:1335-1340: with consent withheld, a unit the user disabled or removed
\* stays that way over every later launch of the GUI, until the user asks for
\* it or consents.  (A provisioning under way at that moment is the exception.)
OptOutRespected == optedOut => unit # "enabled"

\* A restart that answered ok and was not cut short by its deadline has a
\* daemon process younger than the one it stopped, also where the init
\* system's stop returns at once and a start of a dying daemon does nothing.
RestartReplaces ==
    LET c == job["command"] IN
    c.kind = "restartOs" /\ c.pc = "done" /\ c.answer = "ok"
        /\ (config.stopBlocks \/ seen)
      => fresh

\* Every command and every provisioning comes back or is down to a request on
\* the connection, whose return is the matter of module IpcConnection.
JobsReturn ==
    \A j \in Jobs : Busy(j) ~> (~Busy(j) \/ job[j].pc = "sendStart")

\* README.md:23 and manager.rs:778-780: what the user left running is started
\* again at boot, with an enabled unit and consent (and a disk that took the wish
\* and a service that did not fail).
RebootReplays ==
    phase = "serving" /\ Ready /\ mayReplay /\ user = "start" /\ ~unsaved
      => service \/ failed
=============================================================================
