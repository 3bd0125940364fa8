---------------------------- MODULE IpcConnection ----------------------------
(***************************************************************************)
(* The GUI's persistent connection to the headless sidecar                 *)
(* (desktop/ipc_client.rs) and the server task at its other end            *)
(* (desktop/ipc_server.rs).                                                *)
(*                                                                         *)
(* A call is one task inside a PersistentIpcClientHandle method: it puts a *)
(* command in the queue of the client task and waits for the reply.  The   *)
(* client task sends one request at a time and takes whatever response the *)
(* reader task finds next for the answer: responses carry no identifier.   *)
(* The sidecar's manager is seen through the desired state on its disk:    *)
(* what a Start or a Stop writes there, unless the write fails, and what   *)
(* it clears by itself.  Its own behaviour is module ServiceManager.       *)
(***************************************************************************)
EXTENDS Naturals, Sequences, FiniteSets, SequencesExt

Hello   == "hello"
Nothing == "nothing"

CONSTANTS
    Calls,       \* calls made through the handle
    Loads,       \* bounds: what may happen in one behaviour, see load
    EventCap     \* capacity of the broadcast channel (32 in the code)

ASSUME IpcAssumption ==
    /\ Loads \subseteq [calls : SUBSET Calls, losses : Nat, events : Nat]
    /\ EventCap \in Nat \ {0}
    /\ Calls \cap {Hello, Nothing} = {}

NoFrame == [type |-> "none"]
Event(n) == [type |-> "event", number |-> n]
Pending == [how |-> "pending"]

\* EnableAutoRestart and DisableAutoRestart write desired and mirror like a
\* start and a stop.
Kinds   == {"start", "stop", "query"}

VARIABLES
    load,       \* the calls made, the connections lost, the events emitted
    sidecar,    \* the sidecar process listens on its socket
    desired,    \* the desired state the sidecar keeps across its restarts
    strayed,    \* why it is not what the last Start or Stop done asked for
    emitted,    \* events emitted so far; also the number of the last one
    losses,     \* how often the sidecar's end of a connection went away
    server,     \* the server task of this connection
    work,       \* the response that task is about to write
    pending,    \* events waiting in that task's broadcast receiver
    requests,   \* bytes from the client to the server
    frames,     \* bytes from the server to the client
    link,       \* where the client task is
    reader,     \* the reader task of this connection
    straggler,  \* an aborted reader still has its last store to do
    connected,  \* AtomicBool connected
    queue,      \* commands in the mpsc channel
    current,    \* the call whose response the client task awaits
    slot,       \* the request whose oneshot sender is in the response slot
    received,   \* the response in the oneshot being awaited
    gaveUp,     \* requests of this connection given up before their response
    sent,       \* requests sent on this connection, in order
    relayed,    \* events relayed on this connection, in order
    since,      \* the value of emitted when this connection subscribed
    status, kind, answer,  \* of every call
    overlap,    \* a Start or a Stop was issued with another one under way
    mirror,     \* AtomicBool desired_running
    clobbered   \* a straggler cleared connected on a later connection

daemonVars == <<load, sidecar, desired, strayed, emitted, losses>>
serverVars == <<server, work, pending, since>>
wireVars   == <<requests, frames>>
clientVars == <<link, current, received, gaveUp, sent>>
readerVars == <<reader, straggler, relayed>>
callVars   == <<status, kind, answer, overlap, mirror>>
vars == <<daemonVars, serverVars, wireVars, clientVars, readerVars, callVars,
          connected, queue, slot, clobbered>>

Init ==
    /\ load \in Loads
    /\ sidecar \in BOOLEAN /\ desired \in BOOLEAN /\ strayed = "no"
    /\ emitted = 0 /\ losses = 0
    /\ server = "closed" /\ work = NoFrame /\ pending = <<>> /\ since = 0
    /\ requests = <<>> /\ frames = <<>>
    /\ link = "down" /\ current = Nothing /\ received = NoFrame
    /\ gaveUp = 0 /\ sent = <<>>
    /\ reader = "gone" /\ straggler = FALSE /\ relayed = <<>>
    /\ status = [c \in Calls |-> "new"]
    /\ kind = [c \in Calls |-> "query"]
    /\ answer = [c \in Calls |-> Pending]
    /\ overlap = FALSE /\ mirror = FALSE
    /\ connected = FALSE /\ queue = <<>> /\ slot = Nothing
    /\ clobbered = FALSE

-----------------------------------------------------------------------------
(* The calls: the methods of PersistentIpcClientHandle *)

Writers  == {c \in Calls : kind[c] # "query"}
UnderWay == {c \in Calls : status[c] \notin {"new", "returned"}}

(* Everything but start() is refused while the client is disconnected. *)
Accepted(k) == connected \/ k = "start"

Issue(c, k) ==
    /\ c \in load.calls /\ status[c] = "new"
    /\ kind' = [kind EXCEPT ![c] = k]
    /\ IF Accepted(k)
         THEN /\ queue' = Append(queue, c)
              /\ status' = [status EXCEPT ![c] = "queued"]
              /\ overlap' = (overlap \/ (k # "query" /\ UnderWay \cap Writers # {}))
              /\ UNCHANGED answer
         ELSE /\ status' = [status EXCEPT ![c] = "returned"]
              /\ answer' = [answer EXCEPT ![c] = [how |-> "refused"]]
              /\ UNCHANGED <<queue, overlap>>
    /\ UNCHANGED <<daemonVars, serverVars, wireVars, clientVars, readerVars,
                   mirror, connected, slot, clobbered>>

(* The caller's task runs again: only here does it write the mirror. *)
MutMirrored(c) ==
    IF answer[c].how = "ok" /\ kind[c] = "start" THEN TRUE ELSE mirror
Mirrored(c) ==
    IF answer[c].how = "ok" /\ kind[c] # "query" THEN kind[c] = "start" ELSE mirror

Return(c) ==
    /\ status[c] = "answered"
    /\ status' = [status EXCEPT ![c] = "returned"]
    /\ mirror' = Mirrored(c)
    /\ UNCHANGED <<daemonVars, serverVars, wireVars, clientVars, readerVars,
                   kind, answer, overlap, connected, queue, slot, clobbered>>

-----------------------------------------------------------------------------
(* The client task: persistent_client_loop and run_persistent_connection *)

Answered(c, a) ==
    /\ status' = [status EXCEPT ![c] = "answered"]
    /\ answer' = [answer EXCEPT ![c] = a]
    /\ UNCHANGED <<kind, overlap, mirror>>

(* Commands wait until the Hello consult is over. *)
MutConsulting == "idle"
Consulting == "hello"

(* A connection starts with a fresh slot, a fresh reader and the Hello
   consult; after a backoff that a nudge or the timer ends. *)
Connect ==
    /\ link = "down" /\ sidecar
    /\ connected' = TRUE
    /\ link' = Consulting /\ current' = Nothing /\ received' = NoFrame
    /\ gaveUp' = 0 /\ sent' = <<Hello>>
    /\ slot' = Hello
    /\ server' = "accepting" /\ work' = NoFrame /\ pending' = <<>>
    /\ requests' = <<Hello>> /\ frames' = <<>>
    /\ reader' = "reading" /\ relayed' = <<>>
    /\ clobbered' = FALSE
    /\ UNCHANGED <<daemonVars, since, callVars, straggler, queue>>

HelloAnswered ==
    /\ link = "hello" /\ received # NoFrame
    /\ link' = "idle" /\ received' = NoFrame
    /\ UNCHANGED <<daemonVars, serverVars, wireVars, readerVars, callVars,
                   current, gaveUp, sent, connected, queue, slot, clobbered>>

(* A request given up while its sender is in the slot: its response is due. *)
GivenUp == gaveUp + (IF slot = Nothing THEN 0 ELSE 1)

(* The consult gives up after 2 s and takes its sender out of the slot. *)
ClearedSlot == Nothing

HelloTimeout ==
    /\ link = "hello"
    /\ link' = "idle" /\ received' = NoFrame
    /\ gaveUp' = GivenUp
    /\ slot' = ClearedSlot
    /\ UNCHANGED <<daemonVars, serverVars, wireVars, readerVars, callVars,
                   current, sent, connected, queue, clobbered>>

(* prepare_response_slot stores the new sender over whatever is there. *)
SendCommand ==
    /\ link = "idle" /\ queue # <<>> /\ server # "closed"
    /\ LET c == Head(queue)
       IN  /\ current' = c
           /\ slot' = c
           /\ requests' = Append(requests, c)
           /\ sent' = Append(sent, c)
           /\ status' = [status EXCEPT ![c] = "sent"]
    /\ queue' = Tail(queue)
    /\ link' = "await" /\ received' = NoFrame
    /\ UNCHANGED <<daemonVars, serverVars, frames, readerVars, gaveUp, kind,
                   answer, overlap, mirror, connected, clobbered>>

(* persistent_client_loop notes the loss before it backs off. *)
MutLost == connected
Lost == FALSE

(* The end of run_persistent_connection: the reader is aborted, but one that
   has left its loop runs to its end. *)
Disconnect ==
    /\ link' = "down" /\ current' = Nothing /\ received' = NoFrame
    /\ slot' = Nothing /\ requests' = <<>> /\ frames' = <<>>
    /\ connected' = Lost
    /\ straggler' = (straggler \/ reader = "leaving")
    /\ reader' = "gone"
    /\ UNCHANGED <<gaveUp, sent, relayed, clobbered>>

SendFails ==
    /\ link = "idle" /\ queue # <<>> /\ server = "closed"
    /\ Answered(Head(queue), [how |-> "failed"])
    /\ queue' = Tail(queue)
    /\ Disconnect
    /\ UNCHANGED <<daemonVars, serverVars>>

(* How many requests of this connection lie between the one answered and the
   one the response was written for. *)
Behind(c, request) ==
    CHOOSE n \in 0 .. Len(sent) :
        \E i \in 1 .. Len(sent) : sent[i] = request /\ i + n <= Len(sent) /\ sent[i + n] = c

CommandAnswered ==
    /\ link = "await" /\ received # NoFrame
    /\ Answered(current, [how |-> IF received.ok THEN "ok" ELSE "err",
                          behind |-> Behind(current, received.to), gaveUp |-> gaveUp])
    /\ link' = "idle" /\ current' = Nothing /\ received' = NoFrame
    /\ UNCHANGED <<daemonVars, serverVars, wireVars, readerVars, gaveUp, sent,
                   connected, queue, slot, clobbered>>

(* await_response gives up after 10 s; its sender stays in the slot. *)
MutCommandTimeout == FALSE
CommandTimeout ==
    /\ link = "await"
    /\ Answered(current, [how |-> "timeout"])
    /\ gaveUp' = GivenUp
    /\ link' = "idle" /\ current' = Nothing /\ received' = NoFrame
    /\ UNCHANGED <<daemonVars, serverVars, wireVars, readerVars, sent,
                   connected, queue, slot, clobbered>>

(* The 30 s tick notices a reader that is gone. *)
MutReaderDead == FALSE
ReaderDead == reader = "gone"

IdleTick ==
    /\ link = "idle" /\ ReaderDead
    /\ Disconnect
    /\ UNCHANGED <<daemonVars, serverVars, callVars, queue>>

-----------------------------------------------------------------------------
(* The reader task of the connection *)

Awaited == IF link = "hello" THEN Hello ELSE current

(* The next response goes to whoever owns the sender in the slot; with no
   sender, or with the sender of a request given up, it is dropped. *)
ReadResponse ==
    /\ reader = "reading" /\ frames # <<>> /\ Head(frames).type = "response"
    /\ frames' = Tail(frames)
    /\ received' = IF slot # Nothing /\ slot = Awaited THEN Head(frames) ELSE received
    /\ slot' = Nothing
    /\ UNCHANGED <<daemonVars, serverVars, requests, readerVars, callVars, link,
                   current, gaveUp, sent, connected, queue, clobbered>>

ReadEvent ==
    /\ reader = "reading" /\ frames # <<>> /\ Head(frames).type = "event"
    /\ frames' = Tail(frames)
    /\ relayed' = Append(relayed, Head(frames))
    /\ UNCHANGED <<daemonVars, serverVars, requests, clientVars, reader,
                   straggler, callVars, connected, queue, slot, clobbered>>

ReadEof ==
    /\ reader = "reading" /\ frames = <<>> /\ server = "closed"
    /\ reader' = "leaving"
    /\ UNCHANGED <<daemonVars, serverVars, wireVars, clientVars, straggler,
                   relayed, callVars, connected, queue, slot, clobbered>>

ReaderStores ==
    /\ reader = "leaving"
    /\ reader' = "gone"
    /\ connected' = FALSE
    /\ UNCHANGED <<daemonVars, serverVars, wireVars, clientVars, straggler,
                   relayed, callVars, queue, slot, clobbered>>

(* The same store of an aborted reader, at any time after the abort. *)
StragglerStores ==
    /\ straggler
    /\ straggler' = FALSE
    /\ connected' = FALSE
    /\ clobbered' = (clobbered \/ link # "down")
    /\ UNCHANGED <<daemonVars, serverVars, wireVars, clientVars, reader,
                   relayed, callVars, queue, slot>>

-----------------------------------------------------------------------------
(* The sidecar: handle_connection, request_reader and handle_request *)

Accept ==
    /\ server = "accepting"
    /\ server' = "serving" /\ since' = emitted
    /\ UNCHANGED <<daemonVars, work, pending, wireVars, clientVars, readerVars,
                   callVars, connected, queue, slot, clobbered>>

Changes(request) == request \in Calls /\ kind[request] # "query"

(* The manager saves what a Start or a Stop asks for; a save that fails is
   only logged. *)
Saved(wanted) ==
    \/ desired' = wanted /\ strayed' = "no"
    \/ /\ desired' = desired
       /\ strayed' = IF desired = wanted THEN "no" ELSE "unsaved"

(* The manager carries the request out; the response is not written yet, and
   until it is the task looks at no event. *)
Execute ==
    /\ server = "serving" /\ work = NoFrame /\ requests # <<>>
    /\ requests' = Tail(requests)
    /\ LET r == Head(requests)
       IN  \E ok \in (IF Changes(r) THEN BOOLEAN ELSE {TRUE}) :
              /\ work' = [type |-> "response", to |-> r, ok |-> ok]
              /\ IF ok /\ Changes(r) THEN Saved(kind[r] = "start")
                 ELSE UNCHANGED <<desired, strayed>>
    /\ UNCHANGED <<load, sidecar, emitted, losses, server, pending, since, frames,
                   clientVars, readerVars, callVars, connected, queue, slot,
                   clobbered>>

(* The manager clears the desired state on its own: when run() has returned
   Ok, and on SIGTERM, whose Stop runs while connections are still served. *)
Clears ==
    /\ sidecar /\ desired
    /\ desired' = FALSE
    /\ strayed' = IF strayed = "no" THEN "cleared" ELSE "no"
    /\ UNCHANGED <<load, sidecar, emitted, losses, serverVars, wireVars, clientVars,
                   readerVars, callVars, connected, queue, slot, clobbered>>

Reply ==
    /\ server = "serving" /\ work # NoFrame
    /\ frames' = Append(frames, work)
    /\ work' = NoFrame
    /\ UNCHANGED <<daemonVars, server, pending, since, requests, clientVars,
                   readerVars, callVars, connected, queue, slot, clobbered>>

ForwardEvent ==
    /\ server = "serving" /\ work = NoFrame /\ pending # <<>>
    /\ frames' = Append(frames, Head(pending))
    /\ pending' = Tail(pending)
    /\ UNCHANGED <<daemonVars, server, work, since, requests, clientVars,
                   readerVars, callVars, connected, queue, slot, clobbered>>

Close ==
    /\ losses < load.losses
    /\ losses' = losses + 1
    /\ server' = "closed" /\ work' = NoFrame /\ pending' = <<>>
    /\ requests' = <<>>
    /\ UNCHANGED <<load, since, frames, desired, strayed, emitted, clientVars,
                   readerVars, callVars, connected, queue, slot, clobbered>>

(* A response that cannot be encoded ends the task and its connection. *)
ReplyFails ==
    /\ server = "serving" /\ work # NoFrame
    /\ Close
    /\ UNCHANGED sidecar

SidecarDies  == sidecar /\ sidecar' = FALSE /\ Close

SidecarStarts ==
    /\ ~sidecar
    /\ sidecar' = TRUE
    /\ UNCHANGED <<load, desired, strayed, emitted, losses, serverVars, wireVars,
                   clientVars, readerVars, callVars, connected, queue, slot, clobbered>>

(* A full broadcast channel overwrites its oldest event. *)
MutPushed(q, e) == IF Len(q) < EventCap THEN Append(q, e) ELSE q
Pushed(q, e) ==
    IF Len(q) < EventCap THEN Append(q, e) ELSE Append(Tail(q), e)

Emit ==
    /\ sidecar /\ emitted < load.events
    /\ emitted' = emitted + 1
    /\ pending' = IF server = "serving" THEN Pushed(pending, Event(emitted + 1)) ELSE pending
    /\ UNCHANGED <<load, sidecar, desired, strayed, losses, server, work, since,
                   wireVars, clientVars, readerVars, callVars, connected, queue,
                   slot, clobbered>>

-----------------------------------------------------------------------------
Caller  == \E c \in Calls : Return(c) \/ \E k \in Kinds : Issue(c, k)
Client  == \/ Connect \/ HelloAnswered \/ HelloTimeout \/ SendCommand \/ SendFails
           \/ CommandAnswered \/ CommandTimeout \/ IdleTick
Reader  == ReadResponse \/ ReadEvent \/ ReadEof \/ ReaderStores \/ StragglerStores
Server  == Accept \/ Execute \/ Reply \/ ForwardEvent
Failure == ReplyFails \/ SidecarDies
Sidecar == SidecarStarts \/ Clears \/ Emit

Next == Caller \/ Client \/ Reader \/ Server \/ Failure \/ Sidecar

Spec == Init /\ [][Next]_vars

(* Every task is polled again and every timer fires; nothing says that a
   caller issues a call, that the sidecar fails, restarts, clears or
   emits. *)
FairSpec ==
    /\ Spec
    /\ WF_vars(Client) /\ WF_vars(Reader) /\ WF_vars(Server)
    /\ \A c \in Calls : WF_vars(Return(c))
=============================================================================
