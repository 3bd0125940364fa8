--------------------------- MODULE ConnectivityMonitor ---------------------------
(***************************************************************************)
(* The debounced network watcher of the Android service                    *)
(* (ConnectivityMonitor.kt): which changes of the active network nudge the *)
(* core, and when.                                                         *)
(*                                                                         *)
(* Callbacks and delayed runnables run on one handler thread; register and *)
(* unregister come from threads of LifecycleService.  Each of them takes   *)
(* the lock, register for as long as it runs, but the handler thread reads *)
(* the active network before it takes the lock and calls the core after it *)
(* released it.                                                            *)
(*                                                                         *)
(* Time is kept as ages, which are not counted further once every window   *)
(* is past, so that it can go on for ever.                                 *)
(***************************************************************************)
EXTENDS Naturals

CONSTANTS
    Networks,    \* fingerprints of the active network
    Debounce,    \* DEFAULT_DEBOUNCE_MS
    Throttle,    \* CORE_NETWORK_THROTTLE_WINDOW_MS
    Slack,       \* TRAILING_SLACK_MS
    MaxChanges   \* bound on the changes of the network

VARIABLES
    network,    \* the active network
    phase,      \* new, registering (the callback, not yet the baseline), on,
                \* failed, or off (unregistered)
    posted,     \* a callback has been posted on the handler thread
    thread,     \* where the handler thread is, and the fingerprint it read
    last,       \* lastNetworkFingerprint
    age,        \* time since lastFireAtMs
    generation, \* trailingGeneration
    pending,    \* the runnables handed to postDelayed and not yet run
    announced,  \* history: the fingerprint recorded when the last fire passed the lock
    changes     \* changes of the network so far

threadVars == <<posted, thread>>
fireVars   == <<last, age, generation, pending>>
vars == <<network, phase, threadVars, fireVars, announced, changes>>

Larger(a, b) == IF a > b THEN a ELSE b
Smaller(a, b) == IF a < b THEN a ELSE b

\* How long after a fire its trailing fire may come.
Settle == Larger(Debounce, Throttle + Slack)

\* An age beyond which nothing depends on it.
Horizon == Larger(Debounce, Throttle + Slack)

Idle == [pc |-> "idle"]

\* No fire yet behaves as one longer ago than every window.
Init ==
    /\ network \in Networks
    /\ phase = "new"
    /\ posted = FALSE /\ thread = Idle
    /\ last = network /\ age = Horizon /\ generation = 0 /\ pending = {}
    /\ announced = network /\ changes = 0

-----------------------------------------------------------------------------
(* The threads of LifecycleService                                         *)

\* The callback: the framework reports the networks that are there at once.  If
\* registerNetworkCallback throws, the monitor stays as it is, and
\* LifecycleService does not try it again.
Register ==
    /\ phase = "new"
    /\ \/ phase' = "registering" /\ posted' = TRUE
       \/ phase' = "failed" /\ posted' = posted
    /\ UNCHANGED <<network, thread, fireVars, announced, changes>>

\* Then the baseline, which the network of the moment is.
Baseline ==
    /\ phase = "registering"
    /\ phase' = "on"
    /\ last' = network /\ announced' = network
    /\ UNCHANGED <<network, threadVars, age, generation, pending, changes>>

\* The callback is registered; the lock is free.
Registered == phase \in {"registering", "on"}
Unlocked == phase # "registering"

\* quitSafely still delivers what is due.  The generation goes on, so that
\* a trailing fire among it finds itself superseded.
Unregister ==
    /\ phase = "on"
    /\ phase' = "off"
    /\ generation' = generation + 1
    /\ pending' = {p \in pending : p.due = 0}
    /\ UNCHANGED <<network, threadVars, last, age, announced, changes>>

-----------------------------------------------------------------------------
(* The handler thread                                                      *)

\* A posted callback starts and asks for the active network.  Callbacks are
\* all alike, so one flag stands for all that wait.
Read ==
    /\ thread.pc = "idle" /\ posted
    /\ posted' = FALSE
    /\ thread' = [pc |-> "read", fingerprint |-> network]
    /\ UNCHANGED <<network, phase, fireVars, announced, changes>>

\* handleNetworkEvent, the fingerprint it knows.
SameNetwork ==
    /\ Unlocked /\ thread.pc = "read" /\ thread.fingerprint = last
    /\ thread' = Idle
    /\ UNCHANGED <<network, phase, posted, fireVars, announced, changes>>

\* A new fingerprint within the debounce window: one trailing fire takes the
\* place of any other.  Without a handler (after unregister) it is not posted.
MutSuppress ==
    /\ Unlocked /\ thread.pc = "read" /\ thread.fingerprint # last /\ age < Debounce
    /\ last' = thread.fingerprint
    /\ thread' = Idle
    /\ UNCHANGED <<network, phase, posted, age, generation, pending, announced, changes>>

Suppress ==
    /\ Unlocked /\ thread.pc = "read" /\ thread.fingerprint # last /\ age < Debounce
    /\ last' = thread.fingerprint
    /\ generation' = generation + 1
    /\ pending' = IF phase = "on"
                  THEN pending \union {[generation |-> generation', due |-> Settle - age]}
                  ELSE pending
    /\ thread' = Idle
    /\ UNCHANGED <<network, phase, posted, age, announced, changes>>

\* The thread leaves the lock to nudge the core.
Fire(kind, fingerprint) ==
    /\ age' = 0
    /\ announced' = fingerprint
    /\ thread' = [pc |-> "fire", kind |-> kind]

\* A new fingerprint outside the window fires at once, and takes the place of
\* a trailing fire that waits.
LeadingFire ==
    /\ Unlocked /\ thread.pc = "read" /\ thread.fingerprint # last /\ age >= Debounce
    /\ last' = thread.fingerprint
    /\ generation' = generation + 1
    /\ Fire("leading", thread.fingerprint)
    /\ UNCHANGED <<network, phase, posted, pending, changes>>

\* fireTrailing of a runnable that is due.
TrailingFire(p) ==
    /\ thread.pc = "idle" /\ p.due = 0 /\ p.generation = generation
    /\ pending' = pending \ {p}
    /\ Fire("trailing", last)
    /\ UNCHANGED <<network, phase, posted, last, generation, changes>>

Superseded(p) ==
    /\ thread.pc = "idle" /\ p.due = 0 /\ p.generation # generation
    /\ pending' = pending \ {p}
    /\ UNCHANGED <<network, phase, threadVars, last, age, generation, announced, changes>>

\* fireFromNetworkChange, after which the thread is free for the next callback.
Nudge ==
    /\ thread.pc = "fire"
    /\ thread' = Idle
    /\ UNCHANGED <<network, phase, posted, fireVars, announced, changes>>

-----------------------------------------------------------------------------
(* The framework and time                                                  *)

\* While the callback is registered each change posts one.
NetworkChanges ==
    /\ changes < MaxChanges
    /\ changes' = changes + 1
    /\ network' \in Networks \ {network}
    /\ posted' = (posted \/ Registered)
    /\ UNCHANGED <<phase, thread, fireVars, announced>>

\* Signal strength, DNS, bandwidth: a callback with nothing new.
Chatter ==
    /\ Registered /\ ~posted
    /\ posted' = TRUE
    /\ UNCHANGED <<network, phase, thread, fireVars, announced, changes>>

Tick ==
    /\ age' = Smaller(age + 1, Horizon)
    /\ pending' = {[p EXCEPT !.due = IF @ = 0 THEN 0 ELSE @ - 1] : p \in pending}
    /\ UNCHANGED <<network, phase, threadVars, last, generation, announced, changes>>

HandlerStep ==
    \/ Read \/ SameNetwork \/ Suppress \/ LeadingFire \/ Nudge
    \/ \E p \in pending : TrailingFire(p) \/ Superseded(p)

Next ==
    \/ Register \/ Baseline \/ Unregister
    \/ HandlerStep
    \/ NetworkChanges \/ Chatter \/ Tick

Spec == Init /\ [][Next]_vars

\* The handler thread runs, due runnables of it as well as callbacks, however
\* many of those there are, and time passes.
Fairness ==
    /\ WF_vars(Tick)
    /\ WF_vars(Read) /\ WF_vars(SameNetwork \/ Suppress \/ LeadingFire) /\ WF_vars(Nudge)
    /\ SF_vars(\E p \in pending : TrailingFire(p) \/ Superseded(p))

FairSpec == Spec /\ Fairness

-----------------------------------------------------------------------------
\* While the monitor stays registered, the network that remains in the end is
\* one it fired for, at once or by the trailing fire: recorded is fired
\* (handleNetworkEvent, fireTrailing).
SettledIsFired == <>[](phase = "on") => <>[](announced = network)
=============================================================================
