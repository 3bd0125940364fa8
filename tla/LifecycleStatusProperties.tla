---------------------- MODULE LifecycleStatusProperties ----------------------
(***************************************************************************)
(* What the answered status may be relied on for, although the native      *)
(* events that would have told the actor are lost or late, the bridge is   *)
(* asked while everything goes on, and processes die in between.           *)
(***************************************************************************)
EXTENDS LifecycleStatus

States == {"idle", "initializing", "running", "stopped"}

NativeStates == {"unknown", "running", "timeout", "core_start_failed"}

Snaps == [known : BOOLEAN, rust : BOOLEAN, due : BOOLEAN, running : BOOLEAN, state : NativeStates,
          recovery : BOOLEAN, desired : BOOLEAN, active : BOOLEAN, ghost : BOOLEAN,
          refused : SUBSET Kinds, pending : BOOLEAN]

ActorTypes ==
    /\ actor \in [token : BOOLEAN, running : BOOLEAN, lifecycle : States,
                  foregroundOnly : BOOLEAN]
    /\ task \in {"none", "init", "run", "callback", "clear", "clearing", "failing", "late"}
    /\ leftover \in BOOLEAN /\ wish \in BOOLEAN

Records == [running : BOOLEAN, desired : BOOLEAN, state : NativeStates, recovery : BOOLEAN]

Defaults == [desired : BOOLEAN, begun : BOOLEAN, ended : BOOLEAN, pending : BOOLEAN,
             refused : SUBSET Kinds]

NativeTypes ==
    /\ android \in Records /\ ios \in Defaults
    /\ open \in BOOLEAN /\ timedOut \in BOOLEAN /\ ghost \in BOOLEAN

QueryTypes ==
    /\ pc \in {"recv", "scheduling", "pending", "answer", "merge", "believe", "report",
               "converge", "adjust", "revoke"}
    /\ snap \in Snaps
    /\ up \subseteq BOOLEAN /\ tasked \subseteq BOOLEAN /\ torn \in BOOLEAN

\* The type invariant.
StatusTypeOK ==
    /\ platform \in Platforms
    /\ ActorTypes /\ NativeTypes /\ QueryTypes
    /\ relay \subseteq {"notificationStop", "timeout"}
    /\ doc.snap \in Snaps /\ doc.state \in States
    /\ used \in 0 .. MaxEvents

\* The step that led here answered a status, and the bridge was reached.
Answered == doc.snap.known

Says == doc.state \in UpStates

\* A timeout of the foreground service shows: until it is started or stopped
\* again every status asked for after it is degraded, though its event was
\* lost, an isRunning query has already healed the actor's belief, or the app
\* was killed and launched again (manager.rs, rule 5).
TimeoutSurfaces == Answered /\ doc.snap.due => doc.degraded # "no"

\* The reported state is one the service was in while the bridge was asked.
\* On Android it is up if and only if the foreground service was; on iOS it is
\* up only if a run held the token slot, and it is up for a run that held it
\* throughout and is desired or has a background task (manager.rs, rules 1 to 4
\* and the iOS branch).  The exception on Android is a belief whose two halves
\* the cleanup of a service task and the merge of a query wrote at the same
\* time, until they agree again: the merge takes no lock.
StateIsReal ==
    Answered /\ ~(platform = "android" /\ doc.torn) =>
        /\ Says => TRUE \in doc.up
        /\ ~Says => \/ FALSE \in doc.up
                    \/ platform = "ios" /\ ~doc.snap.desired /\ ~doc.snap.active

\* On iOS a background task that ran for the whole query is reported, and a
\* reported one ran at some moment of it or ended without being recorded
\* (manager.rs, native_running; mobile.rs, active_task_kind).
ActiveAccounted ==
    Answered /\ platform = "ios" =>
        /\ FALSE \notin doc.tasked => doc.native
        /\ doc.native => TRUE \in doc.tasked \/ doc.snap.ghost
=============================================================================
