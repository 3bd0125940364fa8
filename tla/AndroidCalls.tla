------------------------------- MODULE AndroidCalls -------------------------------
(***************************************************************************)
(* Incoming calls on Android: the ringing notification and its timeout     *)
(* (IncomingCallNotifier.kt), the taps on it (CallActionReceiver.kt) and   *)
(* the connection Telecom keeps for the call, with the audio it holds      *)
(* (BackgroundCallConnectionService.kt).                                   *)
(*                                                                         *)
(* Threads: the main looper runs the plugin's commands, the timeouts and   *)
(* the callbacks of Telecom one at a time; the core's own thread makes the *)
(* upcalls of HeadlessBridge.kt; each tap has a worker.  What crosses      *)
(* between them is taken step by step.  The core, which knows how a call   *)
(* stands, is outside the repository.                                      *)
(***************************************************************************)
EXTENDS Naturals, Sequences

CONSTANTS
    Calls,     \* call ids
    Taps,      \* workers, one for each tap on a notification
    MaxRings,  \* bound on how often a call is rung
    MaxActs    \* bound on the callbacks of Telecom

VARIABLES
    offer,       \* how the call stands in the core
    owed,        \* calls whose ring the core has yet to cancel
    rings,       \* how often the call was rung
    rungBy,      \* history: by which threads
    shade,       \* the ring whose notification is shown, 0 if none is
    timeouts,    \* ringTimeouts: the ring whose canceler is kept, 0 if none is
    scheduled,   \* the timeouts posted on the main looper
    held,        \* the canceler a thread has taken out and not yet invoked, 0 if none
    caught,      \* history: calls of which a timeout ran while its canceler was held
    requested,   \* calls Telecom was asked to make a connection for
    conns,       \* the connections, in the order of their creation
    live,        \* liveConnections: the connection of a call, 0 if none is
    focus,       \* connections that hold audio focus
    mode,        \* AudioManager.mode
    task,        \* what each thread is at
    acts,        \* callbacks of Telecom so far
    raced        \* history: a connection was disconnected between the two halves
                 \* of a worker's setActive

coreVars == <<offer, owed>>
ringVars == <<rings, rungBy, shade, timeouts, scheduled, held, caught>>
audioVars == <<focus, mode>>
telecomVars == <<requested, conns, live, acts>>
vars == <<coreVars, ringVars, telecomVars, audioVars, task, raced>>

Threads == {"main", "core"} \union Taps
Free == [do |-> "free"]
Spent == [do |-> "spent"]

Init ==
    /\ offer = [c \in Calls |-> "none"] /\ owed = {}
    /\ rings = [c \in Calls |-> 0] /\ rungBy = [c \in Calls |-> {}]
    /\ shade = [c \in Calls |-> 0] /\ timeouts = [c \in Calls |-> 0] /\ scheduled = {}
    /\ held = [t \in Threads |-> 0] /\ caught = {}
    /\ requested = {} /\ conns = <<>> /\ live = [c \in Calls |-> 0] /\ acts = 0
    /\ focus = {} /\ mode = "normal"
    /\ task = [t \in Threads |-> Free]
    /\ raced = FALSE

\* What a thread does next, the rest of its task as it is.
Goes(t, do) == task' = [task EXCEPT ![t].do = do]
Ends(t) == task' = [task EXCEPT ![t] = IF t \in Taps THEN Spent ELSE Free]

-----------------------------------------------------------------------------
(* The core                                                                *)

Offered(c) ==
    /\ offer[c] = "none"
    /\ offer' = [offer EXCEPT ![c] = "ringing"]
    /\ UNCHANGED <<owed, ringVars, telecomVars, audioVars, task, raced>>

\* The caller gives up or hangs up, or the user does in the app.
EndedElsewhere(c) ==
    /\ offer[c] \in {"ringing", "answered"}
    /\ offer' = [offer EXCEPT ![c] = "ended"]
    /\ owed' = owed \union {c}
    /\ UNCHANGED <<ringVars, telecomVars, audioVars, task, raced>>

\* performCallAction: the core may refuse, being locked or not running, which
\* the dispatcher logs.
Hears(c, action) ==
    \/ offer' = offer
    \/ /\ action = "answer" /\ offer[c] = "ringing"
       /\ offer' = [offer EXCEPT ![c] = "answered"]
    \/ /\ action # "answer" /\ offer[c] \in {"ringing", "answered"}
       /\ offer' = [offer EXCEPT ![c] = "over"]

-----------------------------------------------------------------------------
(* The ring: showIncomingCall, cancel and the timeout                      *)

\* nm.notify, by the command on the main thread or the upcall on the core's.
Show(t, c) ==
    /\ t \in {"main", "core"} /\ task[t] = Free
    /\ offer[c] = "ringing" /\ rings[c] < MaxRings
    /\ rings' = [rings EXCEPT ![c] = @ + 1]
    /\ rungBy' = [rungBy EXCEPT ![c] = @ \union {t}]
    /\ shade' = [shade EXCEPT ![c] = rings'[c]]
    /\ task' = [task EXCEPT ![t] = [do |-> "arm", call |-> c, ring |-> rings'[c]]]
    /\ UNCHANGED <<coreVars, timeouts, scheduled, held, caught, telecomVars, audioVars, raced>>

\* ringTimeouts.remove(callId): the canceler is in the hands of the thread.
Takes(t) ==
    /\ held' = [held EXCEPT ![t] = timeouts[task[t].call]]
    /\ timeouts' = [timeouts EXCEPT ![task[t].call] = 0]
    /\ UNCHANGED <<coreVars, rings, rungBy, shade, scheduled, caught, telecomVars, audioVars,
                   raced>>

\* scheduleRingTimeout, which first takes the canceler of the ring before...
MutArm(t) ==
    /\ task[t].do = "arm"
    /\ Goes(t, "post")
    /\ UNCHANGED <<coreVars, ringVars, telecomVars, audioVars, raced>>

Arm(t) ==
    /\ task[t].do = "arm"
    /\ Takes(t)
    /\ Goes(t, "disarm")

\* ... and invokes it, as cancel does: the timeout is off the looper's queue if
\* it has not run by now.
Invoke(t) ==
    /\ task[t].do \in {"disarm", "invoke"}
    /\ scheduled' = scheduled \ {[call |-> task[t].call, ring |-> held[t]]}
    /\ held' = [held EXCEPT ![t] = 0]
    /\ Goes(t, IF task[t].do = "disarm" THEN "post" ELSE "clear")
    /\ UNCHANGED <<coreVars, rings, rungBy, shade, timeouts, caught, telecomVars, audioVars,
                   raced>>

\* postDelayed, then the new canceler is kept.
Post(t) ==
    /\ task[t].do = "post"
    /\ scheduled' = scheduled \union {[call |-> task[t].call, ring |-> task[t].ring]}
    /\ Goes(t, "keep")
    /\ UNCHANGED <<coreVars, rings, rungBy, shade, timeouts, held, caught, telecomVars,
                   audioVars, raced>>

\* The command goes on to addNewIncomingCall.
Keep(t) ==
    /\ task[t].do = "keep"
    /\ timeouts' = [timeouts EXCEPT ![task[t].call] = task[t].ring]
    /\ requested' = IF t = "main" THEN requested \union {task[t].call} ELSE requested
    /\ Ends(t)
    /\ UNCHANGED <<coreVars, rings, rungBy, shade, scheduled, held, caught, conns, live, acts,
                   audioVars, raced>>

\* cancelIncomingCall, the command or the upcall, once the core sees the call
\* ended.
Cancel(t, c) ==
    /\ t \in {"main", "core"} /\ task[t] = Free
    /\ c \in owed
    /\ owed' = owed \ {c}
    /\ task' = [task EXCEPT ![t] = [do |-> "drop", kind |-> "cancel", call |-> c]]
    /\ UNCHANGED <<offer, ringVars, telecomVars, audioVars, raced>>

\* IncomingCallNotifier.cancel: the canceler, then the notification.
Drop(t) ==
    /\ task[t].do = "drop"
    /\ Takes(t)
    /\ Goes(t, "invoke")

Clear(t) ==
    /\ task[t].do = "clear"
    /\ shade' = [shade EXCEPT ![task[t].call] = 0]
    /\ Ends(t)
    /\ UNCHANGED <<coreVars, rings, rungBy, timeouts, scheduled, held, caught, telecomVars,
                   audioVars, raced>>

\* Another thread has taken the canceler out and not yet invoked it.
InHand(s) ==
    \E t \in Threads : /\ task[t].do \in {"disarm", "invoke"}
                       /\ task[t].call = s.call /\ held[t] = s.ring

\* The runnable leaves the queue of the main looper, then takes the entry out
\* and cancels.
TimeoutRuns(s) ==
    /\ task["main"] = Free
    /\ caught' = caught \union (IF InHand(s) THEN {s.call} ELSE {})
    /\ scheduled' = scheduled \ {s}
    /\ task' = [task EXCEPT !["main"] = [do |-> "fired", kind |-> "timeout",
                                         call |-> s.call, ring |-> s.ring]]
    /\ UNCHANGED <<coreVars, rings, rungBy, shade, timeouts, held, telecomVars, audioVars,
                   raced>>

TimeoutForgets ==
    /\ task["main"].do = "fired"
    /\ timeouts' = [timeouts EXCEPT ![task["main"].call] = 0]
    /\ Goes("main", "drop")
    /\ UNCHANGED <<coreVars, rings, rungBy, shade, scheduled, held, caught, telecomVars,
                   audioVars, raced>>

-----------------------------------------------------------------------------
(* A tap: CallActionReceiver.onReceive and its worker                      *)

Tap(w, c) ==
    /\ task[w] = Free
    /\ shade[c] # 0
    /\ \E kind \in {"answer", "decline"} :
           task' = [task EXCEPT ![w] = [do |-> "dispatch", kind |-> kind, call |-> c]]
    /\ UNCHANGED <<coreVars, ringVars, telecomVars, audioVars, raced>>

\* The library may lack the symbol: the worker logs it and leaves the ring.
TapFails(w) ==
    /\ task[w].do = "dispatch"
    /\ Ends(w)
    /\ UNCHANGED <<coreVars, ringVars, telecomVars, audioVars, raced>>

TapReachesCore(w) ==
    /\ task[w].do = "dispatch"
    /\ Hears(task[w].call, IF task[w].kind = "answer" THEN "answer" ELSE "reject")
    /\ Goes(w, IF task[w].kind = "answer" THEN "mark" ELSE "drop")
    /\ UNCHANGED <<owed, ringVars, telecomVars, audioVars, raced>>

\* markCallActive: the connection of the moment, if there is one.
Mark(w) ==
    /\ task[w].do = "mark"
    /\ LET k == live[task[w].call]
       IN task' = [task EXCEPT ![w] =
                      IF k = 0 THEN [@ EXCEPT !.do = "drop"]
                      ELSE [do |-> "activate", kind |-> "answer", call |-> @.call, conn |-> k]]
    /\ UNCHANGED <<coreVars, ringVars, telecomVars, audioVars, raced>>

-----------------------------------------------------------------------------
(* Connections: BackgroundCallConnectionService on the main thread         *)

\* onCreateIncomingConnection.
Create(c) ==
    /\ task["main"] = Free
    /\ c \in requested
    /\ requested' = requested \ {c}
    /\ conns' = Append(conns, [call |-> c, state |-> "ringing"])
    /\ live' = [live EXCEPT ![c] = Len(conns')]
    /\ UNCHANGED <<coreVars, ringVars, acts, audioVars, task, raced>>

\* A headset, a car or the system answers, rejects, hangs up or aborts.
Callback(k) ==
    /\ task["main"] = Free
    /\ acts < MaxActs
    /\ acts' = acts + 1
    /\ \E kind \in {"onAnswer", "onReject", "onAbort", "onDisconnect"} :
           /\ \/ conns[k].state = "ringing"
              \/ conns[k].state = "active" /\ kind = "onDisconnect"
           /\ task' = [task EXCEPT !["main"] = [do |-> "tell", kind |-> kind, conn |-> k]]
    /\ UNCHANGED <<coreVars, ringVars, requested, conns, live, audioVars, raced>>

\* Each callback dispatches first, on the main thread; onReject does no more.
Tell ==
    /\ task["main"].do = "tell"
    /\ LET kind == task["main"].kind
       IN /\ Hears(conns[task["main"].conn].call,
                   CASE kind = "onAnswer" -> "answer"
                     [] kind = "onDisconnect" -> "end"
                     [] OTHER -> "reject")
          /\ task' = [task EXCEPT !["main"] =
                         CASE kind = "onAnswer" -> [@ EXCEPT !.do = "activate"]
                           [] kind = "onReject" -> Free
                           [] OTHER -> [@ EXCEPT !.do = "disconnect"]]
    /\ UNCHANGED <<owed, ringVars, telecomVars, audioVars, raced>>

\* After setActive a worker cancels the ring, a callback returns.
AfterActive(t) == IF t \in Taps THEN Goes(t, "drop") ELSE Ends(t)

\* Connection.setActive: the state, which does not change once disconnected...
Activate(t) ==
    /\ task[t].do = "activate"
    /\ LET k == task[t].conn
       IN \/ /\ conns[k].state = "ringing"
             /\ conns' = [conns EXCEPT ![k].state = "active"]
             /\ Goes(t, "engage")
          \/ /\ conns[k].state # "ringing"
             /\ conns' = conns
             /\ AfterActive(t)
    /\ UNCHANGED <<coreVars, ringVars, requested, live, acts, audioVars, raced>>

\* ... then onStateChanged(STATE_ACTIVE), on the thread that called.
Engage(t) ==
    /\ task[t].do = "engage"
    /\ focus' = focus \union {task[t].conn}
    /\ mode' = "communication"
    /\ AfterActive(t)
    /\ UNCHANGED <<coreVars, ringVars, telecomVars, raced>>

\* setDisconnected with its onStateChanged, the release after it, destroy.
MutDisconnect ==
    /\ task["main"].do = "disconnect"
    /\ LET k == task["main"].conn
       IN /\ conns' = [conns EXCEPT ![k].state = "disconnected"]
          /\ live' = [live EXCEPT ![conns[k].call] = 0]
          /\ mode' = "normal"
          /\ raced' = (raced \/ \E w \in Taps : task[w].do = "engage" /\ task[w].conn = k)
    /\ Ends("main")
    /\ UNCHANGED <<coreVars, ringVars, requested, acts, focus>>

Disconnect ==
    /\ task["main"].do = "disconnect"
    /\ LET k == task["main"].conn
       IN /\ conns' = [conns EXCEPT ![k].state = "disconnected"]
          /\ live' = [live EXCEPT ![conns[k].call] = 0]
          /\ focus' = focus \ {k}
          /\ mode' = "normal"
          /\ raced' = (raced \/ \E w \in Taps : task[w].do = "engage" /\ task[w].conn = k)
    /\ Ends("main")
    /\ UNCHANGED <<coreVars, ringVars, requested, acts>>

-----------------------------------------------------------------------------
ThreadStep(t) ==
    \/ Arm(t) \/ Invoke(t) \/ Post(t) \/ Keep(t) \/ Drop(t) \/ Clear(t)
    \/ Activate(t) \/ Engage(t)
    \/ t = "main" /\ (TimeoutForgets \/ Tell \/ Disconnect)
    \/ t \in Taps /\ (TapFails(t) \/ TapReachesCore(t) \/ Mark(t))

Next ==
    \/ \E c \in Calls : \/ Offered(c) \/ EndedElsewhere(c) \/ Create(c)
                        \/ \E t \in {"main", "core"} : Show(t, c) \/ Cancel(t, c)
                        \/ \E w \in Taps : Tap(w, c)
    \/ \E s \in scheduled : TimeoutRuns(s)
    \/ \E k \in DOMAIN conns : Callback(k)
    \/ \E t \in Threads : ThreadStep(t)

Spec == Init /\ [][Next]_vars

-----------------------------------------------------------------------------
TimeoutClears(c) ==
    /\ task["main"].do = "clear" /\ task'["main"].do # "clear"
    /\ task["main"].kind = "timeout" /\ task["main"].call = c

\* A timeout takes down no ring but its own, as long as all rings of the call
\* came from the main thread and no timeout of it ran between the two halves of
\* ringTimeouts.remove(callId)?.invoke() of another thread
\* (IncomingCallNotifier.kt:165, 177): the canceler of the newer ring is then
\* taken for the older one's.
TimeoutSparesFresh ==
    [][\A c \in Calls : TimeoutClears(c) /\ rungBy[c] = {"main"} /\ c \notin caught
         => shade[c] \in {0, task["main"].ring}]_vars

\* Every connection is gone and no thread is about to engage audio.
CallsOver ==
    /\ \A k \in DOMAIN conns : conns[k].state = "disconnected"
    /\ \A t \in Threads : task[t].do # "engage"

\* When every call is over the audio is as it was before, unless a worker was
\* halfway through setActive when its connection went (onStateChanged).
AudioRestored == CallsOver /\ ~raced => focus = {} /\ mode = "normal"
=============================================================================
