--------------------------- MODULE OsServiceProofs ---------------------------
(***************************************************************************)
(* Proofs about the daemon, its unit and the GUI's jobs, for any number of *)
(* commands, crashes, reboots and acts of the user.                        *)
(***************************************************************************)
EXTENDS OsServiceProperties, TLAPS

-----------------------------------------------------------------------------
(* Jobs.  Each goes through the steps of its kind, and nothing else moves  *)
(* it.                                                                     *)

LEMMA Kinds == Commands \subseteq JobKinds \ {"none", "provision"}
  BY OsAssumption DEF OsAssumption, JobKinds

LEMMA Goes ==
    ASSUME JobTypes, NEW j \in Jobs, NEW q, q \in Path(job[j].kind), Goto(j, q)
    PROVE  JobTypes'
<1>1. \A i \in Jobs : job'[i].kind = job[i].kind
  BY DEF Goto, JobTypes
<1>2. job'[j] = [job[j] EXCEPT !.pc = q] /\ \A i \in Jobs : i # j => job'[i] = job[i]
  BY DEF Goto, JobTypes
<1>3. job[j].kind \in JobKinds
  BY DEF JobTypes
<1>4. q \in UNION {Path(k) : k \in JobKinds}
  BY <1>3
<1> QED BY <1>1, <1>2, <1>4 DEF Goto, JobTypes, Jobs

LEMMA Ends ==
    ASSUME JobTypes, NEW j \in Jobs, NEW a \in {"ok", "error"}, End(j, a),
           job[j].kind # "none"
    PROVE  JobTypes'
<1>1. job' = [job EXCEPT ![j] = [job[j] EXCEPT !.pc = "done", !.answer = a]]
  BY DEF End, JobTypes
<1>2. \A i \in Jobs : job'[i].kind = job[i].kind
  BY <1>1 DEF JobTypes
<1>3. job'[j].pc = "done" /\ \A i \in Jobs : i # j => job'[i] = job[i]
  BY <1>1 DEF JobTypes
<1>4. job[j].kind \in JobKinds
  BY DEF JobTypes
<1>5. "done" \in Path(job[j].kind)
  BY <1>4 DEF Path, JobKinds
<1>6. "done" \in UNION {Path(k) : k \in JobKinds}
  BY <1>4, <1>5
<1> QED BY <1>1, <1>2, <1>3, <1>5, <1>6 DEF JobTypes, Jobs

(* A job that is under way is of a kind that takes the step it is at.      *)
LEMMA AtStep ==
    ASSUME JobTypes, NEW j \in Jobs
    PROVE  /\ job[j].kind = "none" <=> job[j].pc = "idle"
           /\ job[j].pc = "check" => job[j].kind = "start"
           /\ job[j].pc = "grace" => job[j].kind = "provision"
           /\ job[j].pc \in {"validate", "install", "settle"}
                 => job[j].kind \in {"provision", "install"}
           /\ job[j].pc = "remove" => job[j].kind = "uninstall"
           /\ job[j].pc \in {"startUnit", "wait"}
                 => job[j].kind \in {"provision", "start", "startOs", "restartOs"}
           /\ job[j].pc \in {"stopUnit", "stopping"} => job[j].kind \in {"stopOs", "restartOs"}
           /\ job[j].pc = "stopped" => job[j].kind = "stopOs"
           /\ job[j].pc = "poll" => job[j].kind = "restartOs"
           /\ job[j].pc = "sendStart" => job[j].kind = "start"
           /\ job[j].pc = "sendStop" => job[j].kind = "stop"
<1>1. job[j].kind \in JobKinds /\ job[j].pc \in Path(job[j].kind)
  BY DEF JobTypes
<1> QED BY <1>1 DEF Path, JobKinds

LEMMA StepTyped ==
    ASSUME JobTypes, NEW j \in Jobs, Step(j) PROVE JobTypes'
<1> USE AtStep, Goes, Ends DEF Path
<1>1. CASE CheckConnected(j)
  BY <1>1 DEF CheckConnected
<1>2. CASE GraceEnds(j)
  BY <1>2 DEF GraceEnds
<1>3. CASE Validate(j)
  BY <1>3 DEF Validate
<1>4. CASE Install(j)
  BY <1>4 DEF Install
<1>5. CASE Settle(j)
  BY <1>5 DEF Settle
<1>6. CASE Remove(j)
  BY <1>6 DEF Remove
<1>7. CASE StartsUnit(j)
  BY <1>7 DEF StartsUnit
<1>8. CASE WaitEnds(j)
  BY <1>8 DEF WaitEnds
<1>9. CASE StopsUnit(j)
  BY <1>9 DEF StopsUnit
<1>10. CASE StopReturns(j)
  BY <1>10 DEF StopReturns
<1>11. CASE PollEnds(j)
  BY <1>11 DEF PollEnds
<1>12. CASE SendStart(j)
  BY <1>12 DEF SendStart
<1>13. CASE SendStop(j)
  BY <1>13 DEF SendStop
<1> QED BY <1>1, <1>2, <1>3, <1>4, <1>5, <1>6, <1>7, <1>8, <1>9, <1>10, <1>11, <1>12, <1>13
        DEF Step

LEMMA NoJobTyped == job' = [j \in Jobs |-> NoJob] => JobTypes'
<1>1. "idle" \in Path("none")
  BY DEF Path
<1> QED BY <1>1 DEF JobTypes, NoJob, JobKinds, Jobs

LEMMA BeginsTyped ==
    ASSUME JobTypes, NEW j \in Jobs, NEW k \in JobKinds, NEW q \in Path(k),
           job' = [job EXCEPT ![j] = [kind |-> k, pc |-> q, answer |-> "none"]],
           k = "provision" => j = "provision",
           j = "provision" => k \in {"none", "provision"}
    PROVE  JobTypes'
<1>1. q \in UNION {Path(i) : i \in JobKinds}
  OBVIOUS
<1> QED BY <1>1 DEF JobTypes, Jobs

LEMMA JobTyped ==
    ASSUME JobTypes, [Next]_vars PROVE JobTypes'
<1>1. ASSUME job' = job PROVE JobTypes'
  BY <1>1 DEF JobTypes
<1>2. CASE Daemon \/ Completes \/ Fails \/ EndsQuietly \/ Crash \/ Restart \/ Connect \/ NoticeLoss
  BY <1>1, <1>2 DEF Daemon, Replay, SaveStart, SaveLate, Bind, GracefulStop, Exit, Completes,
                    Fails, EndsQuietly, Crash, Restart, Connect, NoticeLoss
<1>3. CASE \E j \in Jobs : Step(j)
  BY <1>3, StepTyped
<1>4. CASE LaunchGui
  <2>1. "grace" \in Path("provision") /\ "idle" \in Path("none")
    BY DEF Path
  <2>2. "provision" \in Jobs /\ {"provision", "none"} \subseteq JobKinds
    BY DEF Jobs, JobKinds
  <2>3. CASE Allowed
    BY <1>4, <2>1, <2>2, <2>3, BeginsTyped DEF LaunchGui
  <2>4. CASE ~Allowed
    <3>1. job' = [job EXCEPT !["provision"] = [kind |-> "none", pc |-> "idle", answer |-> "none"]]
      BY <1>4, <2>4 DEF LaunchGui, NoJob
    <3> QED BY <2>1, <2>2, <3>1, BeginsTyped
  <2> QED BY <2>3, <2>4
<1>5. CASE QuitGui \/ GoDown \/ PowerLoss
  BY <1>5, NoJobTyped DEF QuitGui, GoDown, PowerLoss, GuiGone
<1>6. ASSUME NEW k \in Commands, Command(k) PROVE JobTypes'
  <2>1. k \in JobKinds \ {"none", "provision"}
    BY Kinds
  <2>2. FirstStep(k) \in Path(k)
    BY <2>1 DEF FirstStep, Path, JobKinds
  <2>3. "command" \in Jobs /\ "command" # "provision"
    BY DEF Jobs
  <2> QED BY <1>6, <2>1, <2>2, <2>3, BeginsTyped DEF Command
<1>7. CASE Disable \/ \E c \in {{}, {"enabled"}, {"enabled", "autoUnlock"}} : Consent(c)
  BY <1>1, <1>7 DEF Disable, Consent
<1>8. CASE ComeUp
  BY <1>1, <1>8 DEF ComeUp
<1>9. CASE UNCHANGED vars
  BY <1>1, <1>9 DEF vars
<1> QED BY <1>2, <1>3, <1>4, <1>5, <1>6, <1>7, <1>8, <1>9 DEF Next, User

-----------------------------------------------------------------------------
(* The daemon and its connections                                          *)

LEMMA EndedTyped ==
    ASSUME DaemonTypes, Ended, UNCHANGED <<fresh, gui>> PROVE DaemonTypes'
  BY DEF DaemonTypes, Ended, Died, Broken, Alive

LEMMA SpawnTyped ==
    ASSUME DaemonTypes, Spawn, ~Alive, UNCHANGED <<link, gui>> PROVE DaemonTypes'
  BY DEF DaemonTypes, Spawn, Alive

LEMMA DaemonStepTyped ==
    ASSUME DaemonTypes, NEW j \in Jobs, Step(j) PROVE DaemonTypes'
<1>1. ASSUME UNCHANGED <<daemonVars, link, gui>> PROVE DaemonTypes'
  BY <1>1 DEF DaemonTypes, daemonVars, Alive
<1>2. CASE CheckConnected(j) \/ GraceEnds(j) \/ Validate(j)
  BY <1>1, <1>2 DEF CheckConnected, GraceEnds, Validate
<1>3. CASE Install(j) \/ Settle(j) \/ Remove(j)
  BY <1>1, <1>3 DEF Install, Settle, Remove
<1>4. CASE WaitEnds(j) \/ StopReturns(j) \/ PollEnds(j)
  BY <1>1, <1>4 DEF WaitEnds, StopReturns, PollEnds
<1>5. CASE StartsUnit(j)
  BY <1>1, <1>5, SpawnTyped DEF StartsUnit, StartUnit
<1>6. CASE StopsUnit(j)
  <2>1. CASE Terminated /\ fresh' = FALSE /\ gui' = gui
    BY <2>1 DEF Terminated, DaemonTypes, Ended, Died, Broken, Alive
  <2>2. CASE UNCHANGED <<daemonVars, link, gui>>
    BY <1>1, <2>2
  <2> QED BY <1>6, <2>1, <2>2 DEF StopsUnit
<1>7. CASE SendStart(j)
  <2>1. UNCHANGED <<phase, fresh, mayReplay, stopped, late, gui>>
    BY <1>7 DEF SendStart
  <2>2. CASE /\ link = "up" /\ actor = "ready" /\ service' = TRUE /\ link' = link
             /\ \/ UNCHANGED <<actor, failed>>
                \/ actor' = "saving" /\ failed' = FALSE
    BY <2>1, <2>2 DEF DaemonTypes, Alive
  <2>3. CASE /\ link \in {"broken", "stale"} /\ link' = "backoff"
             /\ UNCHANGED <<service, actor, failed>>
    BY <2>1, <2>3 DEF DaemonTypes, Alive
  <2> QED BY <1>7, <2>2, <2>3 DEF SendStart, wishVars
<1>8. CASE SendStop(j)
  <2>1. UNCHANGED <<phase, fresh, mayReplay, actor, stopped, failed, gui>>
    BY <1>8 DEF SendStop
  <2>2. CASE Stops /\ actor = "ready" /\ link = "up" /\ link' = link
    BY <2>1, <2>2 DEF DaemonTypes, Alive, Stops
  <2>3. CASE /\ link # "up" /\ UNCHANGED <<service, late>>
             /\ link' = IF link = "broken" THEN "backoff" ELSE link
    BY <2>1, <2>3 DEF DaemonTypes, Alive
  <2> QED BY <1>8, <2>2, <2>3 DEF SendStop
<1> QED BY <1>2, <1>3, <1>4, <1>5, <1>6, <1>7, <1>8 DEF Step

LEMMA DaemonTyped ==
    ASSUME OsTypeOK, [Next]_vars PROVE DaemonTypes'
<1> USE DEF OsTypeOK
<1>1. ASSUME UNCHANGED <<daemonVars, link, gui>> PROVE DaemonTypes'
  BY <1>1 DEF DaemonTypes, daemonVars, Alive
<1>2. CASE Replay
  BY <1>2 DEF Replay, Replays, DaemonTypes, WorldTypes, Alive
<1>3. CASE Bind
  BY <1>3 DEF Bind, DaemonTypes, Alive
<1>2a. CASE SaveStart
  BY <1>2a DEF SaveStart, DaemonTypes, Alive
<1>2b. CASE SaveLate
  BY <1>2b DEF SaveLate, DaemonTypes, Alive
<1>3a. CASE GracefulStop
  BY <1>3a DEF GracefulStop, Stops, DaemonTypes, Alive
<1>4. CASE Exit \/ EndsQuietly \/ Crash
  BY <1>4, EndedTyped DEF Exit, EndsQuietly, Crash
<1>5. CASE Completes
  BY <1>5 DEF Completes, DaemonTypes, Alive
<1>5a. CASE Fails
  BY <1>5a DEF Fails, DaemonTypes, Alive
<1>6. CASE Restart
  BY <1>6, SpawnTyped DEF Restart, Alive
<1>7. CASE Connect \/ NoticeLoss
  BY <1>7 DEF Connect, NoticeLoss, DaemonTypes, daemonVars, Alive
<1>8. CASE \E j \in Jobs : Step(j)
  BY <1>8, DaemonStepTyped
<1>9. CASE LaunchGui
  BY <1>9 DEF LaunchGui, DaemonTypes, daemonVars, Alive
<1>9a. CASE QuitGui
  BY <1>9a DEF QuitGui, GuiGone, DaemonTypes, daemonVars, Alive
<1>10. CASE \/ \E k \in Commands : Command(k)
            \/ Disable
            \/ \E c \in {{}, {"enabled"}, {"enabled", "autoUnlock"}} : Consent(c)
  BY <1>1, <1>10 DEF Command, Disable, Consent
<1>11. CASE GoDown
  BY <1>11 DEF GoDown, GuiGone, Died, DaemonTypes, Alive
<1>12. CASE PowerLoss
  BY <1>12 DEF PowerLoss, GuiGone, Died, DaemonTypes, Alive
<1>13. CASE ComeUp
  BY <1>1, <1>13, SpawnTyped DEF ComeUp, Alive
<1>14. CASE UNCHANGED vars
  BY <1>1, <1>14 DEF vars
<1> QED BY <1>2, <1>2a, <1>2b, <1>3, <1>3a, <1>4, <1>5, <1>5a, <1>6, <1>7, <1>8, <1>9, <1>9a, <1>10, <1>11, <1>12,
           <1>13, <1>14 DEF Next, Daemon, User

-----------------------------------------------------------------------------
(* The rest of the world                                                   *)

LEMMA SpendTyped ==
    ASSUME WorldTypes, NEW l \in {"commands", "faults", "acts"}, Spend(l)
    PROVE  /\ used' \in [{"commands", "faults", "acts"} -> Nat]
           /\ \A m \in {"commands", "faults", "acts"} : used'[m] <= Limits[m]
<1>1. Limits \in [{"commands", "faults", "acts"} -> Nat]
  BY OsAssumption DEF OsAssumption
<1> QED BY <1>1 DEF WorldTypes, Spend

LEMMA WorldTyped ==
    ASSUME OsTypeOK, [Next]_vars PROVE WorldTypes'
<1> USE OsAssumption DEF OsTypeOK, OsAssumption
<1>1. WorldTypes
  OBVIOUS
<1>2. ASSUME UNCHANGED <<config, unit, failures, pending, up, desired, termed, unsaved,
                         seen, optedOut, consent, user, used>>
      PROVE WorldTypes'
  BY <1>2 DEF WorldTypes
<1> USE DEF initVars, wishVars
<1>2a. ASSUME NEW w \in BOOLEAN, NEW o \in BOOLEAN, NEW l \in BOOLEAN, Save(w, o, l)
       PROVE  {desired', unsaved'} \subseteq BOOLEAN
  BY <1>2a DEF Save, WorldTypes
<1>2b. {unsaved, user # "start", user = "start"} \subseteq BOOLEAN
  BY DEF WorldTypes
<1>3. CASE Replay \/ Bind \/ Exit \/ Connect \/ NoticeLoss
  BY <1>2, <1>3 DEF Replay, Bind, Exit, Connect, NoticeLoss
<1>4. CASE GracefulStop
  <2>1. {desired', unsaved'} \subseteq BOOLEAN
    BY <1>2a, <1>2b, <1>4 DEF GracefulStop, WorldTypes
  <2> QED BY <1>4, <2>1 DEF GracefulStop, WorldTypes, DaemonTypes
<1>4a. CASE SaveStart \/ SaveLate
  <2>1. {desired', unsaved'} \subseteq BOOLEAN
    BY <1>2a, <1>2b, <1>4a DEF SaveStart, SaveLate
  <2> QED BY <1>4a, <2>1 DEF SaveStart, SaveLate, WorldTypes
<1>5. CASE Completes
  <2>1. {desired', unsaved'} \subseteq BOOLEAN
    BY <1>2a, <1>5 DEF Completes
  <2> QED BY <1>5, <2>1, SpendTyped DEF Completes, WorldTypes
<1>5a. CASE Fails \/ EndsQuietly
  BY <1>5a, SpendTyped DEF Fails, EndsQuietly, WorldTypes
<1>6. CASE Crash
  <2>1. failures' \in 0 .. Burst /\ pending' \in BOOLEAN
    BY <1>6 DEF Crash, Restartable, WorldTypes
  <2> QED BY <1>6, <2>1, SpendTyped DEF Crash, WorldTypes
<1>7. CASE Restart
  BY <1>7 DEF Restart, WorldTypes
<1>8. ASSUME NEW j \in Jobs, CheckConnected(j) \/ GraceEnds(j) \/ Validate(j) \/ Settle(j)
      PROVE WorldTypes'
  BY <1>2, <1>8 DEF CheckConnected, GraceEnds, Validate, Settle
<1>9. ASSUME NEW j \in Jobs, StartsUnit(j) \/ WaitEnds(j) \/ StopReturns(j)
      PROVE WorldTypes'
  BY <1>2, <1>9 DEF StartsUnit, WaitEnds, StopReturns
<1>10. ASSUME NEW j \in Jobs, Install(j) \/ Remove(j) PROVE WorldTypes'
  BY <1>10 DEF Install, Installed, Remove, WorldTypes
<1>11. ASSUME NEW j \in Jobs, StopsUnit(j) \/ PollEnds(j) PROVE WorldTypes'
  BY <1>11 DEF StopsUnit, PollEnds, WorldTypes
<1>12. ASSUME NEW j \in Jobs, SendStart(j) PROVE WorldTypes'
  BY <1>12 DEF SendStart, WorldTypes
<1>12a. ASSUME NEW j \in Jobs, SendStop(j) PROVE WorldTypes'
  <2>1. /\ {desired', unsaved'} \subseteq BOOLEAN /\ termed' = termed
        /\ user' \in {user, "stop"}
    BY <1>2a, <1>12a DEF SendStop, WorldTypes
  <2> QED BY <1>12a, <2>1 DEF SendStop, WorldTypes
<1>13. CASE LaunchGui \/ QuitGui \/ GoDown \/ PowerLoss \/ \E k \in Commands : Command(k)
  BY <1>13, SpendTyped DEF LaunchGui, QuitGui, GoDown, PowerLoss, Command, WorldTypes
<1>14. CASE Disable \/ \E c \in {{}, {"enabled"}, {"enabled", "autoUnlock"}} : Consent(c)
  BY <1>14, SpendTyped DEF Disable, Consent, WorldTypes
<1>15. CASE ComeUp
  BY <1>15 DEF ComeUp, WorldTypes
<1>16. CASE UNCHANGED vars
  BY <1>2, <1>16 DEF vars
<1> QED BY <1>3, <1>4, <1>4a, <1>5, <1>5a, <1>6, <1>7, <1>8, <1>9, <1>10, <1>11, <1>12,
           <1>12a, <1>13, <1>14, <1>15, <1>16 DEF Next, Daemon, User, Step

\* Daemon, unit, jobs and what they leave on disk keep their types; a service
\* runs past a replay only, and a connection leads to a bound daemon.
THEOREM OsTyped == Spec => []OsTypeOK
<1>1. Init => OsTypeOK
  <2> SUFFICES ASSUME Init PROVE OsTypeOK
    OBVIOUS
  <2>1. JobTypes
    <3>1. job = [j \in Jobs |-> NoJob] /\ "idle" \in Path("none")
      BY DEF Init, Path
    <3> QED BY <3>1 DEF JobTypes, NoJob, JobKinds, Jobs
  <2>2. DaemonTypes
    BY DEF Init, DaemonTypes, Alive
  <2>3. used \in [{"commands", "faults", "acts"} -> Nat]
        /\ \A l \in {"commands", "faults", "acts"} : used[l] <= Limits[l]
    BY OsAssumption DEF Init, OsAssumption
  <2>4. failures \in 0 .. Burst
    BY OsAssumption DEF Init, OsAssumption
  <2>5. consent \subseteq {"enabled", "autoUnlock"} /\ unit \in {"absent", "disabled", "enabled"}
    BY DEF Init
  <2>6. WorldTypes
    BY <2>3, <2>4, <2>5 DEF Init, WorldTypes
  <2> QED BY <2>1, <2>2, <2>6 DEF OsTypeOK
<1>2. OsTypeOK /\ [Next]_vars => OsTypeOK'
  BY JobTyped, DaemonTyped, WorldTyped DEF OsTypeOK
<1> QED BY <1>1, <1>2, PTL DEF Spec

-----------------------------------------------------------------------------
(* The service follows the user.  Between the processes the file carries   *)
(* the wish: unless it never reached the file, the file says start only if *)
(* the user said so last, and says it if no signal has ended the service   *)
(* since.  Then the replay of every later process does what the user said. *)
(* A start whose save is under way runs, or has failed; a run that still    *)
(* owes its clearing is of a service the user stopped.                     *)

WishInv ==
    /\ ~unsaved =>
          /\ desired => user = "start"
          /\ user = "start" /\ ~termed => desired
          /\ service => user = "start"
          /\ Ready /\ mayReplay /\ user = "start" /\ ~termed => service \/ failed
    /\ Alive /\ actor = "saving" /\ user = "start" /\ ~termed => service \/ failed
    /\ late /\ service => user = "start"

LEMMA WishStep ==
    ASSUME OsTypeOK, WishInv, [Next]_vars PROVE WishInv'
<1> USE DEF WishInv, Alive, Ready, wishVars, daemonVars
<1>1. ASSUME UNCHANGED <<wishVars, phase, actor, mayReplay, service, late, failed>>
      PROVE WishInv'
  BY <1>1
<1>2. ASSUME UNCHANGED wishVars, service' = FALSE, phase' = "dead" \/ actor' = "boot"
      PROVE WishInv'
  BY <1>2
<1>3. CASE Replay
  <2>1. {desired, mayReplay, unsaved} \subseteq BOOLEAN
    BY DEF OsTypeOK, DaemonTypes, WorldTypes
  <2>2. UNCHANGED <<wishVars, mayReplay, phase, late>> /\ ~late
    BY <1>3 DEF Replay, OsTypeOK, DaemonTypes
  <2>3. CASE service' = TRUE /\ mayReplay /\ desired /\ actor' = "saving"
    BY <2>2, <2>3
  <2>4. CASE service' = FALSE /\ actor' = "ready" /\ (failed' <=> mayReplay /\ desired)
    BY <2>2, <2>4
  <2>5. service' \in {Replays, FALSE} /\ failed' = (Replays /\ ~service')
    BY <1>3 DEF Replay
  <2>6. actor' = IF service' THEN "saving" ELSE "ready"
    BY <1>3 DEF Replay
  <2> QED BY <2>1, <2>3, <2>4, <2>5, <2>6 DEF Replays
<1>3a. CASE SaveStart
  <2>1. UNCHANGED <<user, termed, phase, mayReplay, service, late, failed>> /\ actor' = "ready"
    BY <1>3a DEF SaveStart
  <2>2. actor = "saving" /\ Alive
    BY <1>3a DEF SaveStart
  <2>3. CASE desired' = TRUE /\ (unsaved' <=> user # "start")
    BY <2>1, <2>2, <2>3
  <2>4. CASE UNCHANGED <<desired, unsaved>>
    BY <2>1, <2>2, <2>4
  <2>5. \/ desired' = TRUE /\ unsaved' = (user # "start")
        \/ UNCHANGED <<desired, unsaved>>
    BY <1>3a DEF SaveStart, Save
  <2> QED BY <2>3, <2>4, <2>5
<1>3b. CASE SaveLate
  <2>1. UNCHANGED <<user, termed, phase, mayReplay, actor, service, failed>>
    BY <1>3b DEF SaveLate
  <2>2. late /\ late' = FALSE
    BY <1>3b DEF SaveLate
  <2>3. CASE desired' = FALSE /\ (unsaved' <=> user = "start")
    BY <2>1, <2>2, <2>3
  <2>4. CASE UNCHANGED <<desired, unsaved>>
    BY <2>1, <2>2, <2>4
  <2>5. \/ desired' = FALSE /\ unsaved' = (user = "start")
        \/ UNCHANGED <<desired, unsaved>>
    BY <1>3b DEF SaveLate, Save
  <2> QED BY <2>3, <2>4, <2>5
<1>4. CASE Bind \/ Connect \/ NoticeLoss
  BY <1>1, <1>4 DEF Bind, Connect, NoticeLoss
<1>5. CASE GracefulStop
  BY <1>5 DEF GracefulStop, Stops, Save
<1>6. CASE Exit \/ EndsQuietly \/ Crash
  BY <1>2, <1>6 DEF Exit, EndsQuietly, Crash, Ended, Died
<1>7. CASE Completes
  BY <1>7 DEF Completes, Save
<1>7a. CASE Fails
  BY <1>7a DEF Fails
<1>8. CASE Restart
  BY <1>2, <1>8 DEF Restart, Spawn
<1>9. ASSUME NEW j \in Jobs, Step(j) PROVE WishInv'
  <2>1. CASE CheckConnected(j) \/ GraceEnds(j) \/ Validate(j)
    BY <1>1, <2>1 DEF CheckConnected, GraceEnds, Validate
  <2>2. CASE Install(j) \/ Settle(j) \/ Remove(j)
    BY <1>1, <2>2 DEF Install, Settle, Remove
  <2>3. CASE WaitEnds(j) \/ StopReturns(j) \/ PollEnds(j)
    BY <1>1, <2>3 DEF WaitEnds, StopReturns, PollEnds
  <2>4. CASE StartsUnit(j)
    BY <1>1, <1>2, <2>4 DEF StartsUnit, StartUnit, Spawn
  <2>5. CASE StopsUnit(j)
    <3>1. CASE Terminated /\ UNCHANGED wishVars
      BY <3>1 DEF Terminated, Ended, Died
    <3>2. CASE UNCHANGED <<daemonVars, wishVars>>
      BY <1>1, <3>2
    <3> QED BY <2>5, <3>1, <3>2 DEF StopsUnit
  <2>6. CASE SendStart(j)
    BY <2>6 DEF SendStart
  <2>7. CASE SendStop(j)
    BY <2>7 DEF SendStop, Stops, Save
  <2> QED BY <1>9, <2>1, <2>2, <2>3, <2>4, <2>5, <2>6, <2>7 DEF Step
<1>10. CASE \/ LaunchGui \/ QuitGui \/ Disable
            \/ \E k \in Commands : Command(k)
            \/ \E c \in {{}, {"enabled"}, {"enabled", "autoUnlock"}} : Consent(c)
  BY <1>1, <1>10 DEF LaunchGui, QuitGui, Disable, Command, Consent
<1>11. CASE GoDown
  BY <1>11 DEF GoDown, Died
<1>12. CASE PowerLoss
  BY <1>2, <1>12 DEF PowerLoss, Died
<1>13. CASE ComeUp
  BY <1>1, <1>2, <1>13 DEF ComeUp, Spawn
<1>14. CASE UNCHANGED vars
  BY <1>1, <1>14 DEF vars
<1> QED BY <1>3, <1>3a, <1>3b, <1>4, <1>5, <1>6, <1>7, <1>7a, <1>8, <1>9, <1>10, <1>11, <1>12,
           <1>13, <1>14 DEF Next, Daemon, User

\* However often the daemon crashes and is started again, what runs is what the
\* user asked for last, as long as that reached the file; what was asked for
\* runs, unless a signal ended it or it failed in this very process.
THEOREM UserFollowed == Spec => []ServiceFollowsUser
<1>1. Init => WishInv
  BY DEF Init, WishInv, Alive, Ready
<1>2. OsTypeOK /\ WishInv /\ [Next]_vars => WishInv'
  BY WishStep
<1>3. WishInv => ServiceFollowsUser
  BY DEF WishInv, ServiceFollowsUser
<1> QED BY <1>1, <1>2, <1>3, OsTyped, PTL DEF Spec

-----------------------------------------------------------------------------
(* Opting out.  Without consent no provisioning begins, one under way was  *)
(* the exception, and of the commands only an install enables the unit.    *)

OptOutInv ==
    optedOut => /\ unit # "enabled"
                /\ "enabled" \notin consent
                /\ ~Busy("provision")

LEMMA OptOutStep ==
    ASSUME OsTypeOK, OptOutInv, [Next]_vars PROVE OptOutInv'
<1> USE DEF OsTypeOK, OptOutInv
<1>1. ASSUME UNCHANGED <<optedOut, unit, consent>>, job'["provision"] = job["provision"]
      PROVE OptOutInv'
  BY <1>1 DEF Busy
<1>2. CASE Daemon \/ Completes \/ Fails \/ EndsQuietly \/ Crash \/ Restart \/ Connect \/ NoticeLoss
  BY <1>1, <1>2 DEF Daemon, Replay, SaveStart, SaveLate, Bind, GracefulStop, Exit, Completes,
                    Fails, EndsQuietly, Crash, Restart, Connect, NoticeLoss
<1>3. ASSUME Step("provision") PROVE OptOutInv'
  <2>1. Busy("provision") /\ job["provision"].kind = "provision"
    BY <1>3, AtStep DEF Step, CheckConnected, GraceEnds, Validate, Install, Settle, Remove,
       StartsUnit, WaitEnds, StopsUnit, StopReturns, PollEnds, SendStart, SendStop, Busy,
       JobTypes, Jobs
  <2>2. ~optedOut
    BY <2>1
  <2>3. ~optedOut'
    BY <1>3, <2>1, <2>2 DEF Step, CheckConnected, GraceEnds, Validate, Install, Settle,
       Remove, StartsUnit, WaitEnds, StopsUnit, StopReturns, PollEnds, SendStart, SendStop
  <2> QED BY <2>3
<1>4. ASSUME Step("command") PROVE OptOutInv'
  <2>1. job'["provision"] = job["provision"]
    BY <1>4 DEF Step, CheckConnected, GraceEnds, Validate, Install, Settle, Remove,
       StartsUnit, WaitEnds, StopsUnit, StopReturns, PollEnds, SendStart, SendStop, Goto,
       End, JobTypes, Jobs
  <2>2. CASE UNCHANGED <<optedOut, unit, consent>>
    BY <1>1, <2>1, <2>2
  <2>3. CASE Install("command")
    <3>1. optedOut' = FALSE \/ UNCHANGED <<optedOut, unit>>
      BY <2>3 DEF Install, JobTypes
    <3> QED BY <2>1, <2>2, <2>3, <3>1 DEF Install
  <2>4. CASE Remove("command")
    <3>1. CASE unit' = "absent" /\ optedOut' = ("enabled" \notin consent /\ ~Busy("provision"))
      BY <2>1, <2>4, <3>1 DEF Remove, Busy
    <3>2. CASE UNCHANGED <<optedOut, unit>>
      BY <2>2, <2>4, <3>2 DEF Remove
    <3> QED BY <2>4, <3>1, <3>2 DEF Remove
  <2> QED BY <1>4, <2>2, <2>3, <2>4
          DEF Step, CheckConnected, GraceEnds, Validate, Settle, StartsUnit, WaitEnds,
              StopsUnit, StopReturns, PollEnds, SendStart, SendStop
<1>5. CASE LaunchGui
  <2>1. UNCHANGED <<optedOut, unit, consent>>
    BY <1>5 DEF LaunchGui
  <2>2. optedOut => ~Allowed
    BY DEF Allowed
  <2>3. optedOut => job'["provision"] = NoJob
    BY <1>5, <2>2 DEF LaunchGui, JobTypes, Jobs
  <2> QED BY <2>1, <2>3 DEF Busy, NoJob
<1>6. CASE QuitGui \/ GoDown \/ PowerLoss
  <2>1. job'["provision"].pc = "idle" /\ UNCHANGED <<optedOut, unit, consent>>
    BY <1>6 DEF QuitGui, GoDown, PowerLoss, GuiGone, NoJob, Jobs
  <2> QED BY <2>1 DEF Busy
<1>7. CASE \E k \in Commands : Command(k)
  BY <1>1, <1>7 DEF Command, JobTypes
<1>8. CASE Disable
  BY <1>8 DEF Disable, Busy
<1>9. CASE \E c \in {{}, {"enabled"}, {"enabled", "autoUnlock"}} : Consent(c)
  BY <1>9 DEF Consent, Busy
<1>10. CASE ComeUp \/ UNCHANGED vars
  BY <1>1, <1>10 DEF ComeUp, vars
<1> QED BY <1>2, <1>3, <1>4, <1>5, <1>6, <1>7, <1>8, <1>9, <1>10 DEF Next, User, Jobs

\* A unit disabled or removed without consent stays so until the user asks for
\* it, or consents.
THEOREM OptingOutHolds == Spec => []OptOutRespected
<1>1. Init => OptOutInv
  BY DEF Init, OptOutInv
<1>2. OsTypeOK /\ OptOutInv /\ [Next]_vars => OptOutInv'
  BY OptOutStep
<1>3. OptOutInv => OptOutRespected
  BY DEF OptOutInv, OptOutRespected
<1> QED BY <1>1, <1>2, <1>3, OsTyped, PTL DEF Spec

-----------------------------------------------------------------------------
(* Restarts.  From the stop on, the process that was stopped is gone or a  *)
(* younger one runs, as soon as a stop that waits has returned or a        *)
(* connection to it has been seen to end; starting the unit keeps that.    *)

RestartInv ==
    LET c == job["command"] IN
    /\ c.pc = "stopping" => config.stopBlocks
    /\ c.kind = "restartOs" =>
          /\ c.pc = "poll" /\ config.stopBlocks => ~Alive \/ fresh
          /\ c.pc = "poll" /\ seen => link = "up" \/ ~Alive \/ fresh
          /\ c.pc = "startUnit" /\ (config.stopBlocks \/ seen) => ~Alive \/ fresh
          /\ c.pc = "wait" /\ (config.stopBlocks \/ seen) => fresh
          /\ c.pc = "done" /\ c.answer = "ok" /\ (config.stopBlocks \/ seen) => fresh

(* The command does not move, and the process is the same or a new one.    *)
LEMMA RestartFrame ==
    ASSUME RestartInv, job'["command"] = job["command"], UNCHANGED <<config, seen>>,
           fresh => fresh', Alive' => Alive \/ fresh',
           link = "up" => link' = "up" \/ ~Alive'
    PROVE  RestartInv'
  BY DEF RestartInv

LEMMA CommandStep ==
    ASSUME OsTypeOK, RestartInv, Step("command") PROVE RestartInv'
<1> DEFINE c == job["command"]
<1> USE DEF RestartInv, OsTypeOK, Alive
<1>1. "command" \in Jobs
  BY DEF Jobs
<1>2. ASSUME NEW q, Goto("command", q) PROVE c'.kind = c.kind /\ c'.pc = q
  BY <1>1, <1>2 DEF Goto, JobTypes
<1>3. ASSUME NEW a, End("command", a)
      PROVE  c'.kind = c.kind /\ c'.pc = "done" /\ c'.answer = a
  BY <1>1, <1>3 DEF End, JobTypes
<1>4. c'.kind # "restartOs" /\ c'.pc # "stopping" => RestartInv'
  OBVIOUS
<1>5. CASE CheckConnected("command")
  BY <1>1, <1>2, <1>3, <1>5, AtStep DEF CheckConnected
<1>6. CASE GraceEnds("command") \/ Validate("command")
  BY <1>1, <1>2, <1>3, <1>6, AtStep DEF GraceEnds, Validate
<1>7. CASE Install("command") \/ Settle("command")
  BY <1>1, <1>2, <1>3, <1>7, AtStep DEF Install, Settle
<1>8. CASE Remove("command")
  BY <1>1, <1>2, <1>3, <1>8, AtStep DEF Remove
<1>9. CASE StartsUnit("command")
  <2>1. CASE StartUnit /\ Goto("command", "wait")
    <3>1. c'.kind = c.kind /\ c'.pc = "wait"
      BY <1>2, <2>1
    <3>2. Alive => fresh' = fresh
      BY <2>1 DEF StartUnit, daemonVars
    <3>3. ~Alive => fresh'
      BY <2>1 DEF StartUnit, Spawn
    <3> QED BY <1>9, <3>1, <3>2, <3>3 DEF StartsUnit
  <2>2. CASE End("command", "error")
    BY <1>3, <1>9, <2>2
  <2> QED BY <1>9, <2>1, <2>2 DEF StartsUnit
<1>10. CASE WaitEnds("command")
  <2>1. UNCHANGED <<config, seen, fresh>> /\ c.pc = "wait"
    BY <1>10 DEF WaitEnds, daemonVars
  <2>2. c'.kind = c.kind /\ c'.pc \in {"sendStart", "done"}
    BY <1>2, <1>3, <1>10 DEF WaitEnds
  <2> QED BY <2>1, <2>2
<1>11. CASE StopsUnit("command")
  <2>1. config' = config /\ c'.kind = c.kind /\ c.kind \in {"stopOs", "restartOs"}
    BY <1>1, <1>2, <1>3, <1>11, AtStep DEF StopsUnit
  <2>2. CASE End("command", "error")
    BY <1>3, <2>1, <2>2
  <2>3. CASE /\ Terminated
             /\ seen' = (link = "up" /\ c.kind = "restartOs")
             /\ Goto("command", IF config.stopBlocks THEN "stopping"
                                ELSE IF c.kind = "restartOs" THEN "poll" ELSE "stopped")
    <3>1. c'.pc = IF config.stopBlocks THEN "stopping"
                  ELSE IF c.kind = "restartOs" THEN "poll" ELSE "stopped"
      BY <1>2, <2>3
    <3>2. link = "up" => link' = "up"
      BY <2>3 DEF Terminated, DaemonTypes
    <3> QED BY <2>1, <2>3, <3>1, <3>2
  <2> QED BY <1>11, <2>2, <2>3 DEF StopsUnit
<1>12. CASE StopReturns("command")
  <2>1. UNCHANGED <<config, seen, fresh, phase, link>>
    BY <1>12 DEF StopReturns, daemonVars
  <2>2. CASE c.kind = "restartOs"
    <3>1. phase = "dead" \/ fresh
      BY <1>1, <1>12, <2>2, AtStep DEF StopReturns
    <3>2. c'.kind = c.kind /\ c'.pc = "poll"
      BY <1>2, <1>12, <2>2 DEF StopReturns
    <3> QED BY <2>1, <3>1, <3>2
  <2>3. CASE c.kind # "restartOs"
    BY <1>3, <1>4, <1>12, <2>3 DEF StopReturns
  <2> QED BY <2>2, <2>3
<1>13. CASE PollEnds("command")
  <2>1. UNCHANGED <<config, fresh, phase, link>> /\ c.pc = "poll"
    BY <1>13 DEF PollEnds, daemonVars
  <2>2. c'.kind = c.kind /\ c'.pc = "startUnit"
    BY <1>2, <1>13 DEF PollEnds
  <2>3. seen' = FALSE \/ (seen' = seen /\ link # "up")
    BY <1>13 DEF PollEnds, Polled, Deadline, Connected
  <2> QED BY <2>1, <2>2, <2>3
<1>14. CASE SendStart("command")
  <2>1. c'.kind = c.kind /\ c'.pc = "done" /\ c.kind = "start"
    BY <1>1, <1>3, <1>14, AtStep DEF SendStart
  <2> QED BY <1>4, <2>1
<1>15. CASE SendStop("command")
  <2>1. c'.kind = c.kind /\ c'.pc = "done" /\ c.kind = "stop"
    BY <1>1, <1>3, <1>15, AtStep DEF SendStop
  <2> QED BY <1>4, <2>1
<1> QED BY <1>5, <1>6, <1>7, <1>8, <1>9, <1>10, <1>11, <1>12, <1>13, <1>14, <1>15 DEF Step

LEMMA RestartStep ==
    ASSUME OsTypeOK, RestartInv, [Next]_vars PROVE RestartInv'
<1> USE RestartFrame DEF OsTypeOK, Alive, daemonVars
<1>1. CASE Replay \/ Bind \/ GracefulStop \/ Completes \/ Connect \/ NoticeLoss
  BY <1>1 DEF Replay, Bind, GracefulStop, Completes, Connect, NoticeLoss
<1>1a. CASE SaveStart \/ SaveLate \/ Fails
  BY <1>1a DEF SaveStart, SaveLate, Fails
<1>2. CASE Exit \/ EndsQuietly \/ Crash
  BY <1>2 DEF Exit, EndsQuietly, Crash, Ended, Died
<1>3. CASE Restart
  BY <1>3 DEF Restart, Spawn
<1>4. CASE Step("command")
  BY <1>4, CommandStep
<1>5. CASE Step("provision")
  <2>1. job'["command"] = job["command"]
    BY <1>5 DEF Step, CheckConnected, GraceEnds, Validate, Install, Settle, Remove,
       StartsUnit, WaitEnds, StopsUnit, StopReturns, PollEnds, SendStart, SendStop, Goto,
       End, JobTypes, Jobs
  <2>2. \/ GraceEnds("provision") \/ Validate("provision") \/ Install("provision")
        \/ Settle("provision") \/ StartsUnit("provision") \/ WaitEnds("provision")
    BY <1>5, AtStep DEF Step, CheckConnected, Remove, StopsUnit, StopReturns, PollEnds,
       SendStart, SendStop, JobTypes, Jobs
  <2>3. CASE StartsUnit("provision")
    BY <2>1, <2>3 DEF StartsUnit, StartUnit, Spawn
  <2>4. UNCHANGED <<config, seen>>
    BY <2>2 DEF GraceEnds, Validate, Install, Settle, StartsUnit, WaitEnds
  <2>5. ~StartsUnit("provision") => UNCHANGED <<fresh, phase, link>>
    BY <2>2 DEF GraceEnds, Validate, Install, Settle, WaitEnds
  <2> QED BY <2>1, <2>3, <2>4, <2>5
<1>6. CASE LaunchGui
  <2>1. gui' = TRUE /\ gui = FALSE
    BY <1>6 DEF LaunchGui, DaemonTypes
  <2>2. link # "up"
    BY <2>1 DEF DaemonTypes
  <2>3. job'["command"] = job["command"]
    BY <1>6 DEF LaunchGui, JobTypes, Jobs
  <2> QED BY <1>6, <2>2, <2>3 DEF LaunchGui
<1>7. CASE QuitGui \/ GoDown \/ PowerLoss
  <2>1. job'["command"] = NoJob
    BY <1>7 DEF QuitGui, GoDown, PowerLoss, GuiGone, Jobs
  <2> QED BY <2>1 DEF RestartInv, NoJob
<1>8. ASSUME NEW k \in Commands, Command(k) PROVE RestartInv'
  <2>1. job'["command"] = [kind |-> k, pc |-> FirstStep(k), answer |-> "none"]
    BY <1>8 DEF Command, JobTypes, Jobs
  <2>2. FirstStep(k) # "stopping" /\ (k = "restartOs" => FirstStep(k) = "stopUnit")
    BY Kinds DEF FirstStep, JobKinds
  <2> QED BY <2>1, <2>2 DEF RestartInv
<1>9. CASE Disable \/ \E c \in {{}, {"enabled"}, {"enabled", "autoUnlock"}} : Consent(c)
  BY <1>9 DEF Disable, Consent
<1>10. CASE ComeUp
  BY <1>10 DEF ComeUp, Spawn
<1>11. CASE UNCHANGED vars
  BY <1>11 DEF vars
<1> QED BY <1>1, <1>1a, <1>2, <1>3, <1>4, <1>5, <1>6, <1>7, <1>8, <1>9, <1>10, <1>11
        DEF Next, Daemon, User, Jobs

\* A restart that answered ok, and was not cut short, has a daemon process
\* younger than the one it stopped.
THEOREM RestartsReplace == Spec => []RestartReplaces
<1>1. Init => RestartInv
  BY DEF Init, RestartInv, NoJob, Jobs
<1>2. OsTypeOK /\ RestartInv /\ [Next]_vars => RestartInv'
  BY RestartStep
<1>3. RestartInv => RestartReplaces
  BY DEF RestartInv, RestartReplaces
<1> QED BY <1>1, <1>2, <1>3, OsTyped, PTL DEF Spec
=============================================================================
