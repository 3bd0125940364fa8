------------------------------- MODULE CallKitCalls -------------------------------
(***************************************************************************)
(* Incoming calls on iOS: what the plugin notes about the calls it         *)
(* reports to CallKit, and what it passes on to the core when the user     *)
(* acts in the system's call screen (BackgroundCallKit.swift and the call  *)
(* commands of BackgroundServicePlugin.swift).                             *)
(*                                                                         *)
(* The plugin runs on the main queue, its commands and the callbacks of    *)
(* CallKit one at a time.  CallKit is another process: reports to it and   *)
(* callbacks from it each arrive in order, and cross.  CallKit, the user   *)
(* and the core are outside the repository.  The notes that only serve the *)
(* audio session (activeCalls, activeAudioCallUUID) are left out.          *)
(***************************************************************************)
EXTENDS Naturals, Sequences

CONSTANTS
    Calls,     \* call ids of the contract's shape; others are rejected
    MaxRings   \* bound on how often the core has a call rung

VARIABLES
    foreground,    \* whether the app is in the foreground
    rings,         \* how often the core had a call rung
    cancelled,     \* calls the core has ended
    callIds,       \* callIdsByUUID: the calls whose actions are passed on
    answered,      \* answeredCallUUIDs
    reports,       \* what the plugin reported that CallKit has yet to see
    system,        \* how the call stands in CallKit
    callbacks,     \* the callbacks of CallKit that have yet to run
    heard          \* what the core was told about a call, in order

coreVars == <<rings, cancelled>>
noteVars == <<callIds, answered>>
vars == <<foreground, coreVars, noteVars, reports, system, callbacks, heard>>

Init ==
    /\ foreground = FALSE
    /\ rings = [c \in Calls |-> 0] /\ cancelled = {}
    /\ callIds = {} /\ answered = {}
    /\ reports = <<>>
    /\ system = [c \in Calls |-> "none"] /\ callbacks = <<>>
    /\ heard = [c \in Calls |-> <<>>]

-----------------------------------------------------------------------------
(* The plugin's commands                                                   *)

Moves ==
    /\ foreground' = ~foreground
    /\ UNCHANGED <<coreVars, noteVars, reports, system, callbacks, heard>>

\* showIncomingCall: the webview rings when it can be seen.
ShowIncomingCall(c) ==
    /\ rings[c] < MaxRings /\ c \notin cancelled
    /\ rings' = [rings EXCEPT ![c] = @ + 1]
    /\ IF foreground THEN UNCHANGED <<callIds, reports>>
       ELSE /\ callIds' = callIds \union {c}
            /\ reports' = Append(reports, [call |-> c, is |-> "new"])
    /\ UNCHANGED <<foreground, cancelled, answered, system, callbacks, heard>>

ForgetCall(c) ==
    /\ callIds' = callIds \ {c}
    /\ answered' = answered \ {c}

\* cancelIncomingCall, endCall: the core's side of the call is over.
CancelIncomingCall(c) ==
    /\ rings[c] > 0 /\ c \notin cancelled
    /\ cancelled' = cancelled \union {c}
    /\ reports' = Append(reports, [call |-> c, is |-> "ended"])
    /\ ForgetCall(c)
    /\ UNCHANGED <<foreground, rings, system, callbacks, heard>>

-----------------------------------------------------------------------------
(* CallKit and the user                                                    *)

Up == {"ringing", "answering", "live", "ending"}
IsGone(c) == system' = [system EXCEPT ![c] = IF @ \in Up THEN "gone" ELSE @]

\* A new call rings, or is refused: one call at a time (providerConfiguration),
\* not twice, and not when the system filters it.  The plugin logs the refusal.
TakeReport ==
    /\ reports # <<>>
    /\ reports' = Tail(reports)
    /\ LET c == Head(reports).call
       IN IF Head(reports).is = "ended" THEN IsGone(c)
          ELSE \/ system' = system
               \/ /\ system[c] \notin Up
                  /\ system' = [system EXCEPT ![c] = "ringing"]
    /\ UNCHANGED <<foreground, coreVars, noteVars, callbacks, heard>>

\* The user answers a call when no other is answered, and ends any.
UserActs(c) ==
    /\ \/ /\ system[c] = "ringing"
          /\ \A d \in Calls : system[d] \notin {"answering", "live"}
          /\ system' = [system EXCEPT ![c] = "answering"]
          /\ callbacks' = Append(callbacks, [call |-> c, is |-> "answer"])
       \/ /\ system[c] \in {"ringing", "live"}
          /\ system' = [system EXCEPT ![c] = "ending"]
          /\ callbacks' = Append(callbacks, [call |-> c, is |-> "end"])
    /\ UNCHANGED <<foreground, coreVars, noteVars, reports, heard>>

\* The service of CallKit is restarted: its calls are gone.
Resets ==
    /\ \E c \in Calls : system[c] \in Up
    /\ system' = [c \in Calls |-> IF system[c] \in Up THEN "gone" ELSE system[c]]
    /\ callbacks' = Append(callbacks, [is |-> "reset"])
    /\ UNCHANGED <<foreground, coreVars, noteVars, reports, heard>>

-----------------------------------------------------------------------------
(* The callbacks: CXProviderDelegate                                       *)

\* The callback at the head of the queue runs.
Runs(is) ==
    /\ callbacks # <<>> /\ Head(callbacks).is = is
    /\ callbacks' = Tail(callbacks)
    /\ UNCHANGED <<foreground, coreVars, reports>>
\* routeCallAction, on the main queue already.
PassOn(c, action) == heard' = [heard EXCEPT ![c] = Append(@, action)]

\* An action failed ends the call in CallKit.
FailAction(is) ==
    /\ Runs(is)
    /\ LET c == Head(callbacks).call
       IN c \notin callIds /\ IsGone(c)
    /\ UNCHANGED <<noteVars, heard>>

\* perform CXAnswerCallAction, fulfilled.
PerformAnswer ==
    /\ Runs("answer")
    /\ LET c == Head(callbacks).call
       IN /\ c \in callIds
          /\ answered' = answered \union {c}
          /\ system' = [system EXCEPT ![c] = IF @ = "answering" THEN "live" ELSE @]
          /\ PassOn(c, "answer")
    /\ UNCHANGED callIds

\* perform CXEndCallAction: a hang-up of an answered call, or a decline.
MutPerformEnd ==
    /\ Runs("end")
    /\ LET c == Head(callbacks).call
       IN /\ c \in callIds
          /\ ForgetCall(c)
          /\ IsGone(c)
          /\ PassOn(c, IF c \in answered' THEN "end" ELSE "reject")

PerformEnd ==
    /\ Runs("end")
    /\ LET c == Head(callbacks).call
       IN /\ c \in callIds
          /\ ForgetCall(c)
          /\ IsGone(c)
          /\ PassOn(c, IF c \in answered THEN "end" ELSE "reject")

ProviderDidReset ==
    /\ Runs("reset")
    /\ callIds' = {} /\ answered' = {}
    /\ UNCHANGED <<system, heard>>

-----------------------------------------------------------------------------
Next ==
    \/ Moves \/ TakeReport \/ Resets
    \/ \E c \in Calls : ShowIncomingCall(c) \/ CancelIncomingCall(c) \/ UserActs(c)
    \/ \E is \in {"answer", "end"} : FailAction(is)
    \/ PerformAnswer \/ PerformEnd \/ ProviderDidReset

Spec == Init /\ [][Next]_vars

-----------------------------------------------------------------------------
\* What the core is told of a call rung once is nothing, a decline, or an answer
\* and at most a hang-up after it, whatever crossed (the perform handlers,
\* forgetCall).
Said == {<<>>, <<"answer">>, <<"reject">>, <<"answer", "end">>}
CoreHearsOnce == \A c \in Calls : rings[c] = 1 => heard[c] \in Said
=============================================================================
