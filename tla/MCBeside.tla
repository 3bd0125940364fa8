------------------------------- MODULE MCBeside -------------------------------
(***************************************************************************)
(* Six parts that share no state, for one run of TLC: the desired-state    *)
(* file, the daemon's socket file, the network watcher, the calls of       *)
(* Android and of iOS, and message notifications.  Init picks the part     *)
(* that moves; the others stay as they start, which is enough, since       *)
(* nothing one part does is seen by another.                               *)
(***************************************************************************)
EXTENDS DesiredStateFile, Sequences

MCLength == [v \in {"idle", "run"} |-> IF v = "idle" THEN 1 ELSE 2]

CONSTANTS
    Daemons,
    Networks, Debounce, Throttle, Slack, MaxChanges,
    Calls, CallTaps, MaxRings, MaxActs,
    Chats, ChatTaps,
    PhoneCalls, MaxPhoneRings

ASSUME BesideAssumption ==
    /\ {Debounce, Throttle, Slack} \subseteq Nat
    /\ CallTaps \cap {"main", "core"} = {}

VARIABLES
    part,
    daemon, file, crossed,
    network, phase, posted, thread, last, age, generation, pending, announced, changes,
    offer, owed, rings, rungBy, shade, timeouts, scheduled, held, caught, requested, conns, live,
    acts, focus, mode, task, raced,
    chatShade, chatTask, chatCrossed,
    foreground, phoneRings, cancelled, callIds, answered, reports, system, callbacks, heard

socketVars == <<daemon, file, crossed>>
watcherVars ==
    <<network, phase, posted, thread, last, age, generation, pending, announced, changes>>
callVars ==
    <<offer, owed, rings, rungBy, shade, timeouts, scheduled, held, caught, requested, conns, live, acts,
      focus, mode, task, raced>>
chatVars == <<chatShade, chatTask, chatCrossed>>
phoneVars ==
    <<foreground, phoneRings, cancelled, callIds, answered, reports, system, callbacks, heard>>

Socket == INSTANCE IpcSocket
Watcher == INSTANCE ConnectivityMonitor
AndroidCall == INSTANCE AndroidCalls WITH Taps <- CallTaps
Message == INSTANCE MessageNotifications WITH
    Taps <- ChatTaps, shade <- chatShade, task <- chatTask, crossed <- chatCrossed
Phone == INSTANCE CallKitCalls WITH
    Calls <- PhoneCalls, MaxRings <- MaxPhoneRings, rings <- phoneRings

BesideInit ==
    /\ part \in {"file", "socket", "watcher", "calls", "chats", "phone"}
    /\ Init /\ Socket!Init /\ Watcher!Init /\ AndroidCall!Init /\ Message!Init /\ Phone!Init
    /\ part # "watcher" => network = CHOOSE n \in Networks : TRUE

BesideNext ==
    /\ UNCHANGED part
    /\ \/ /\ part = "file" /\ Next
          /\ UNCHANGED <<socketVars, watcherVars, callVars, chatVars, phoneVars>>
       \/ /\ part = "socket" /\ Socket!Next
          /\ UNCHANGED <<vars, watcherVars, callVars, chatVars, phoneVars>>
       \/ /\ part = "watcher" /\ Watcher!Next
          /\ UNCHANGED <<vars, socketVars, callVars, chatVars, phoneVars>>
       \/ /\ part = "calls" /\ AndroidCall!Next
          /\ UNCHANGED <<vars, socketVars, watcherVars, chatVars, phoneVars>>
       \/ /\ part = "chats" /\ Message!Next
          /\ UNCHANGED <<vars, socketVars, watcherVars, callVars, phoneVars>>
       \/ /\ part = "phone" /\ Phone!Next
          /\ UNCHANGED <<vars, socketVars, watcherVars, callVars, chatVars>>

\* The fairness of the watcher, which alone has a liveness property.  While
\* another part moves it asks for nothing: no fair action of an unregistered
\* watcher is enabled, and time at its horizon changes nothing.
BesideSpec ==
    /\ BesideInit
    /\ [][BesideNext]_<<part, vars, socketVars, watcherVars, callVars, chatVars, phoneVars>>
    /\ Watcher!Fairness

\* A stale socket file keeps no daemon that runs alone from binding.
StaleNeverBlocks == Socket!StaleNeverBlocks

\* The watcher fires for the network that remains in the end.
SettledIsFired == Watcher!SettledIsFired

\* A ring's timeout takes down no newer ring of the main thread, as long as none
\* ran while its canceler was in the hands of another thread.
TimeoutSparesFresh == AndroidCall!TimeoutSparesFresh

\* Audio is given back when every call is over.
AudioRestored == AndroidCall!AudioRestored

\* An action on a chat leaves nothing of it on show.
ClearsChat == Message!ClearsChat

\* The core hears of a call at most an answer and a hang-up, or one decline.
CoreHearsOnce == Phone!CoreHearsOnce
=============================================================================
