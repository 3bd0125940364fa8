------------------------- MODULE IpcConnectionProofs -------------------------
(***************************************************************************)
(* Proofs about the persistent connection, for any number of calls, events *)
(* and lost connections.                                                   *)
(***************************************************************************)
EXTENDS IpcConnectionProperties, TLAPS

(* A connection ends for its reader after it ended for the server task, and *)
(* nothing of it outlives the client's return to "down".                   *)
FlowInv ==
    /\ reader # "reading" => server = "closed"
    /\ server # "serving" => work = NoFrame /\ pending = <<>>
    /\ link = "down" => reader = "gone" /\ received = NoFrame
    /\ since <= emitted

Distinct(s) == \A i, j \in DOMAIN s : s[i] = s[j] => i = j

(* Every call is queued once and sent once.                                *)
QueueInv ==
    /\ \A i \in DOMAIN queue : status[queue[i]] = "queued"
    /\ Distinct(queue)
    /\ link = "await" => /\ status[current] = "sent"
                         /\ sent # <<>> /\ current = sent[Len(sent)]
    /\ \A i \in DOMAIN sent :
          sent[i] \in Calls => status[sent[i]] \in {"sent", "answered", "returned"}
    /\ Distinct(sent)

(* The events on their way, in three parts.                                *)
Before(s, t) ==
    \A i \in DOMAIN s, j \in DOMAIN t :
        (s[i].type = "event" /\ t[j].type = "event") => s[i].number < t[j].number
UpToNow(s) == \A i \in DOMAIN s : s[i].type = "event" => s[i].number <= emitted

EventInv ==
    /\ Ordered(relayed) /\ Ordered(frames) /\ Ordered(pending)
    /\ Before(relayed, frames) /\ Before(relayed, pending) /\ Before(frames, pending)
    /\ UpToNow(relayed) /\ UpToNow(frames) /\ UpToNow(pending)
    /\ (server = "serving" /\ emitted > since)
          => Event(emitted) \in Range(relayed) \cup Range(frames) \cup Range(pending)

(* Where a request stands among those sent on this connection.             *)
Known(r)       == \E p \in DOMAIN sent : sent[p] = r
Precedes(r, s) == \A p, q \in DOMAIN sent : (sent[p] = r /\ sent[q] = s) => p < q
Within(r, n)   == \A p \in DOMAIN sent : sent[p] = r => Len(sent) - p <= n

Response(f) == f.type = "response"

(* The response to the awaited request may still come, which the slot says; *)
(* every other one that is due belongs to a request given up.              *)
Lag == gaveUp + (IF slot # Nothing /\ slot = Awaited THEN 1 ELSE 0)

DueRequests ==
    \A i \in DOMAIN requests :
        /\ Known(requests[i]) /\ Within(requests[i], Lag - 1)
        /\ \A j \in DOMAIN requests : i < j => Precedes(requests[i], requests[j])
DueWork ==
    Response(work) =>
        /\ Known(work.to) /\ Within(work.to, Lag - 1)
        /\ \A j \in DOMAIN requests : Precedes(work.to, requests[j])
DueFrames ==
    \A i \in DOMAIN frames : Response(frames[i]) =>
        /\ Known(frames[i].to) /\ Within(frames[i].to, Lag - 1)
        /\ \A j \in DOMAIN frames :
              (i < j /\ Response(frames[j])) => Precedes(frames[i].to, frames[j].to)
        /\ Response(work) => Precedes(frames[i].to, work.to)
        /\ \A j \in DOMAIN requests : Precedes(frames[i].to, requests[j])
DueReceived ==
    Response(received) =>
        /\ slot = Nothing
        /\ Known(received.to) /\ Within(received.to, gaveUp)
        /\ \A j \in DOMAIN frames : Response(frames[j]) => Precedes(received.to, frames[j].to)
        /\ Response(work) => Precedes(received.to, work.to)
        /\ \A j \in DOMAIN requests : Precedes(received.to, requests[j])

PairInv == DueRequests /\ DueWork /\ DueFrames /\ DueReceived

(* What the calls know of themselves.                                      *)
Live   == Writers \cap UnderWay
Own(c) == answer[c].how \in {"ok", "err"} /\ answer[c].behind = 0

CallInv ==
    /\ \A c \in Calls : status[c] = "new" => kind[c] = "query"
    /\ \A c \in Calls : status[c] \in {"new", "queued", "sent"} => answer[c].how = "pending"
    /\ \A c \in Calls : answer[c].how = "refused" => status[c] = "returned" /\ ~Known(c)
    /\ \A c \in Calls : Own(c) => c \notin Range(requests)
    /\ ~overlap => \A c, d \in Live : c = d

(* The mirror, while every writer that returned got a conclusive answer.   *)
Past      == \A c \in Writers : status[c] = "returned" => Conclusive(c)
Exists    == \E c \in Writers : status[c] = "returned" /\ answer[c].how = "ok"
Undone(w) == status[w] = "queued" \/ w \in Range(requests)
Around    == {f \in Range(frames) \cup {work, received} : Response(f)}

(* What the last Start or Stop carried out has asked for.                  *)
Asked         == desired <=> strayed = "no"
Agrees        == Exists => mirror = Asked
Effect(w, ok) == IF ok THEN Asked <=> kind[w] = "start" ELSE Agrees

MirrorInv ==
    (~overlap /\ Past) =>
        /\ (\A w \in Live : Undone(w)) => Agrees
        /\ \A w \in Live, r \in Around : r.to = w => Effect(w, r.ok)
        /\ \A w \in Live : Own(w) => Effect(w, answer[w].how = "ok")

(* A desired state cleared by the sidecar itself is FALSE.                 *)
StrayInv == strayed = "cleared" => ~desired
-----------------------------------------------------------------------------
(* Shapes *)

LEMMA Bounds ==
    ASSUME IpcTypeOK
    PROVE  /\ load.calls \subseteq Calls /\ load.losses \in Nat /\ load.events \in Nat
           /\ EventCap \in Nat \ {0}
           /\ Hello \notin Calls /\ Nothing \notin Calls /\ Nothing # Hello
  BY IpcAssumption DEF IpcAssumption, IpcTypeOK, DaemonTypes, Hello, Nothing

LEMMA Shapes ==
    /\ \A f \in Responses \cup Events : Response(f) => f \in Responses
    /\ \A f \in Responses \cup Events : f.type = "event" => f \in Events
    /\ \A f \in Responses : Response(f) /\ f # NoFrame /\ f.to \in Requests /\ f.ok \in BOOLEAN
    /\ \A f \in Events : f.type = "event" /\ ~Response(f) /\ f.number \in Nat
    /\ ~Response(NoFrame)
  BY DEF Responses, Events, Response, NoFrame

(* The answer of a command lags by a natural number.                       *)
LEMMA BehindIs ==
    ASSUME IpcTypeOK, QueueInv, PairInv, link = "await", Response(received)
    PROVE  /\ Behind(current, received.to) \in Nat
           /\ Behind(current, received.to) <= gaveUp
           /\ Behind(current, received.to) = 0 => received.to = current
<1>1. PICK p \in DOMAIN sent : sent[p] = received.to
  BY DEF PairInv, DueReceived, Known
<1>2. Len(sent) \in Nat /\ DOMAIN sent = 1 .. Len(sent) /\ sent # <<>>
      /\ current = sent[Len(sent)] /\ gaveUp \in Nat /\ Len(sent) # 0
  BY DEF IpcTypeOK, ClientTypes, QueueInv
<1> DEFINE Q(n) == \E i \in 1 .. Len(sent) :
                      sent[i] = received.to /\ i + n <= Len(sent) /\ sent[i + n] = current
<1>3. Len(sent) - p \in 0 .. Len(sent) /\ Q(Len(sent) - p)
  BY <1>1, <1>2
<1>4. \A n \in 0 .. Len(sent) : Q(n) => n = Len(sent) - p
  BY <1>1, <1>2 DEF QueueInv, Distinct
<1>5. Behind(current, received.to) = Len(sent) - p
  <2> HIDE DEF Q
  <2>1. Behind(current, received.to) = CHOOSE n \in 0 .. Len(sent) : Q(n)
    BY DEF Behind, Q
  <2> QED BY <1>3, <1>4, <2>1
<1>6. Len(sent) - p <= gaveUp
  BY <1>1 DEF PairInv, DueReceived, Within
<1> QED BY <1>1, <1>2, <1>5, <1>6

-----------------------------------------------------------------------------
(* Types *)

LEMMA DaemonTyped ==
    ASSUME IpcTypeOK, [Next]_vars PROVE DaemonTypes'
<1> USE Bounds, Shapes DEF IpcTypeOK, DaemonTypes, daemonVars, serverVars, wireVars,
            clientVars, readerVars, callVars
<1>1. CASE Connect
  BY <1>1 DEF Connect, Requests
<1>2. CASE SendCommand
  <2>1. Head(queue) \in Requests
    BY <1>2 DEF SendCommand, CallTypes, Requests
  <2> QED BY <1>2, <2>1 DEF SendCommand
<1>3. CASE SendFails
  BY <1>3 DEF SendFails, Disconnect, Answered, Lost
<1>4. CASE IdleTick
  BY <1>4 DEF IdleTick, Disconnect, Lost, ReaderDead
<1>5. CASE ReadResponse
  BY <1>5 DEF ReadResponse, Awaited
<1>6. CASE ReadEvent
  BY <1>6 DEF ReadEvent
<1>7. CASE Accept
  BY <1>7 DEF Accept
<1>8. CASE Execute
  <2>1. Head(requests) \in Requests /\ Tail(requests) \in Seq(Requests)
    BY <1>8 DEF Execute
  <2>2. \A o \in BOOLEAN : [type |-> "response", to |-> Head(requests), ok |-> o] \in Responses
    BY <2>1 DEF Responses
  <2>3. work' \in Responses /\ desired' \in BOOLEAN
        /\ strayed' \in {"no", "cleared", "unsaved"}
    BY <1>8, <2>2 DEF Execute, Saved
  <2> QED BY <1>8, <2>1, <2>3 DEF Execute
<1>9. CASE Reply
  BY <1>9 DEF Reply
<1>10. CASE ForwardEvent
  BY <1>10 DEF ForwardEvent
<1>11. CASE ReplyFails
  BY <1>11 DEF ReplyFails, Close
<1>12. CASE SidecarDies
  <2>1. Close
    BY <1>12 DEF SidecarDies
  <2>2. losses' \in 0 .. load.losses /\ load' = load /\ emitted' = emitted /\ frames' = frames
        /\ server' = "closed" /\ work' = NoFrame /\ pending' = <<>> /\ requests' = <<>>
        /\ desired' = desired /\ strayed' = strayed /\ since' = since
    BY <2>1 DEF Close
  <2>3. sidecar' \in BOOLEAN
    BY <1>12 DEF SidecarDies
  <2> QED BY <2>2, <2>3
<1>13. CASE SidecarStarts \/ Clears
  BY <1>13 DEF SidecarStarts, Clears
<1>14. CASE Emit
  <2>1. emitted + 1 \in 0 .. load.events /\ Event(emitted + 1) \in Events
    BY <1>14 DEF Emit, Event, Events
  <2>2. \A e \in Events : Pushed(pending, e) \in Seq(Events) /\ Len(Pushed(pending, e)) <= EventCap
    BY DEF Pushed
  <2>3. pending' \in Seq(Events) /\ Len(pending') <= EventCap
    BY <1>14, <2>1, <2>2 DEF Emit
  <2> QED BY <1>14, <2>1, <2>3 DEF Emit
<1>15. ASSUME UNCHANGED <<daemonVars, serverVars, wireVars>> PROVE DaemonTypes'
  BY <1>15 DEF DaemonTypes
<1>16. CASE (\E c \in Calls, k \in Kinds : Issue(c, k)) \/ (\E c \in Calls :
        Return(c)) \/ HelloAnswered \/ HelloTimeout \/ CommandAnswered \/
        CommandTimeout \/ ReadEof \/ ReaderStores \/ StragglerStores \/
        UNCHANGED vars
  BY <1>16, <1>15 DEF Issue, Return, HelloAnswered, HelloTimeout,
        CommandAnswered, Answered, CommandTimeout, ReadEof, ReaderStores,
        StragglerStores, vars
<1> QED BY <1>1, <1>2, <1>3, <1>4, <1>5, <1>6, <1>7, <1>8, <1>9, <1>10, <1>11, <1>12, <1>13, <1>14, <1>15, <1>16
        DEF Next, Caller, Client, Reader, Server, Failure, Sidecar

LEMMA ClientTyped ==
    ASSUME IpcTypeOK, [Next]_vars PROVE ClientTypes'
<1> USE Bounds, Shapes DEF IpcTypeOK, ClientTypes, daemonVars, serverVars, wireVars,
            clientVars, readerVars, callVars
<1>1. CASE Connect
  <2>1. sent' \in Seq(Requests) /\ slot' \in Requests
    BY <1>1 DEF Connect, Requests
  <2>2. /\ link' = "hello" /\ current' = Nothing /\ received' = NoFrame /\ gaveUp' = 0
        /\ reader' = "reading" /\ relayed' = <<>> /\ straggler' = straggler
    BY <1>1 DEF Connect, Consulting
  <2>3. connected' \in BOOLEAN /\ clobbered' \in BOOLEAN
    BY <1>1 DEF Connect
  <2> QED BY <2>1, <2>2, <2>3
<1>2. CASE HelloAnswered
  BY <1>2 DEF HelloAnswered
<1>3. CASE HelloTimeout
  BY <1>3 DEF HelloTimeout, GivenUp, ClearedSlot
<1>4. CASE SendCommand
  <2>1. Head(queue) \in Calls
    BY <1>4 DEF SendCommand, CallTypes
  <2>2. Head(queue) \in Requests
    BY <2>1 DEF Requests
  <2> QED BY <1>4, <2>1, <2>2 DEF SendCommand
<1>5. CASE SendFails
  BY <1>5 DEF SendFails, Disconnect, Answered, Lost
<1>6. CASE CommandAnswered
  BY <1>6 DEF CommandAnswered, Answered
<1>7. CASE CommandTimeout
  BY <1>7 DEF CommandTimeout, Answered, GivenUp
<1>8. CASE IdleTick
  BY <1>8 DEF IdleTick, Disconnect, Lost, ReaderDead
<1>9. CASE ReadResponse
  <2>1. Head(frames) \in Responses
    BY <1>9 DEF ReadResponse, DaemonTypes, Response
  <2> QED BY <1>9, <2>1 DEF ReadResponse
<1>10. CASE ReadEvent
  <2>1. Head(frames) \in Events
    BY <1>10 DEF ReadEvent, DaemonTypes
  <2> QED BY <1>10, <2>1 DEF ReadEvent
<1>11. CASE ReadEof
  BY <1>11 DEF ReadEof
<1>12. CASE ReaderStores
  BY <1>12 DEF ReaderStores
<1>13. CASE StragglerStores
  BY <1>13 DEF StragglerStores
<1>14. ASSUME UNCHANGED <<clientVars, readerVars, slot, connected, clobbered>> PROVE ClientTypes'
  BY <1>14
<1>15. CASE (\E c \in Calls, k \in Kinds : Issue(c, k)) \/ (\E c \in Calls :
        Return(c)) \/ Accept \/ Execute \/ Reply \/ ForwardEvent \/
        ReplyFails \/ SidecarDies \/ SidecarStarts \/ Clears \/ Emit \/ UNCHANGED vars
  BY <1>15, <1>14 DEF Issue, Return, Accept, Execute, Reply, ForwardEvent,
        ReplyFails, Close, SidecarDies, SidecarStarts, Clears, Emit, vars
<1> QED BY <1>1, <1>2, <1>3, <1>4, <1>5, <1>6, <1>7, <1>8, <1>9, <1>10, <1>11, <1>12, <1>13, <1>14, <1>15
        DEF Next, Caller, Client, Reader, Server, Failure, Sidecar

LEMMA CallsTyped ==
    ASSUME IpcTypeOK, QueueInv, PairInv, [Next]_vars PROVE CallTypes'
<1> USE Bounds, Shapes DEF IpcTypeOK, CallTypes, daemonVars, serverVars, wireVars,
            clientVars, readerVars, callVars
<1>1. ASSUME NEW c \in Calls, NEW k \in Kinds, Issue(c, k) PROVE CallTypes'
  <2>1. [how |-> "refused"] \in Answers
    BY DEF Answers
  <2>2. overlap' \in BOOLEAN
    BY <1>1 DEF Issue
  <2>3. queue' \in Seq(Calls) /\ answer' \in [Calls -> Answers]
        /\ status' \in [Calls -> {"new", "queued", "sent", "answered", "returned"}]
    <3>1. CASE Accepted(k)
      <4>1. queue' = Append(queue, c) /\ answer' = answer
            /\ status' = [status EXCEPT ![c] = "queued"]
        BY <1>1, <3>1 DEF Issue
      <4> QED BY <4>1
    <3>2. CASE ~Accepted(k)
      BY <1>1, <2>1, <3>2 DEF Issue
    <3> QED BY <3>1, <3>2
  <2> QED BY <1>1, <2>2, <2>3 DEF Issue
<1>2. ASSUME NEW c \in Calls, Return(c) PROVE CallTypes'
  BY <1>2 DEF Return, Mirrored
<1>3. CASE SendCommand
  BY <1>3 DEF SendCommand
<1>4. CASE SendFails
  <2>1. [how |-> "failed"] \in Answers
    BY DEF Answers
  <2> QED BY <1>4, <2>1 DEF SendFails, Answered
<1>5. CASE CommandAnswered
  <2>1. Response(received)
    BY <1>5 DEF CommandAnswered, ClientTypes
  <2>2. Behind(current, received.to) \in Nat /\ gaveUp \in Nat
    BY <1>5, <2>1, BehindIs DEF CommandAnswered, ClientTypes
  <2>3. \A h \in {"ok", "err"} :
           [how |-> h, behind |-> Behind(current, received.to), gaveUp |-> gaveUp] \in Answers
    BY <2>2 DEF Answers
  <2> QED BY <1>5, <2>3 DEF CommandAnswered, Answered
<1>6. CASE CommandTimeout
  <2>1. [how |-> "timeout"] \in Answers
    BY DEF Answers
  <2> QED BY <1>6, <2>1 DEF CommandTimeout, Answered
<1>7. ASSUME UNCHANGED <<callVars, queue>> PROVE CallTypes'
  BY <1>7
<1>8. CASE Connect \/ HelloAnswered \/ HelloTimeout \/ IdleTick \/
        ReadResponse \/ ReadEvent \/ ReadEof \/ ReaderStores \/
        StragglerStores \/ Accept \/ Execute \/ Reply \/ ForwardEvent \/
        ReplyFails \/ SidecarDies \/ SidecarStarts \/ Clears \/ Emit \/ UNCHANGED vars
  BY <1>8, <1>7 DEF Connect, HelloAnswered, HelloTimeout, IdleTick,
        Disconnect, ReadResponse, ReadEvent, ReadEof, ReaderStores,
        StragglerStores, Accept, Execute, Reply, ForwardEvent, ReplyFails,
        Close, SidecarDies, SidecarStarts, Clears, Emit, vars
<1> QED BY <1>1, <1>2, <1>3, <1>4, <1>5, <1>6, <1>7, <1>8
        DEF Next, Caller, Client, Reader, Server, Failure, Sidecar

LEMMA FlowStep ==
    ASSUME IpcTypeOK, FlowInv, [Next]_vars PROVE FlowInv'
<1> USE DEF IpcTypeOK, DaemonTypes, ClientTypes, FlowInv,
            daemonVars, serverVars, wireVars, clientVars, readerVars,
            callVars, vars
<1>1. ASSUME NEW c \in Calls, NEW k \in Kinds, Issue(c, k) PROVE FlowInv'
  BY <1>1 DEF Issue, Accepted
<1>2. ASSUME NEW c \in Calls, Return(c) PROVE FlowInv'
  BY <1>2 DEF Return, Mirrored
<1>3. CASE Connect
  BY <1>3 DEF Connect, Consulting
<1>4. CASE HelloAnswered
  BY <1>4 DEF HelloAnswered
<1>5. CASE HelloTimeout
  BY <1>5 DEF HelloTimeout, GivenUp, ClearedSlot
<1>6. CASE SendCommand
  BY <1>6 DEF SendCommand
<1>7. CASE SendFails
  BY <1>7 DEF SendFails, Disconnect, Answered, Lost
<1>8. CASE CommandAnswered
  BY <1>8 DEF CommandAnswered, Answered
<1>9. CASE CommandTimeout
  BY <1>9 DEF CommandTimeout, Answered, GivenUp
<1>10. CASE IdleTick
  BY <1>10 DEF IdleTick, Disconnect, Lost, ReaderDead
<1>11. CASE ReadResponse
  BY <1>11 DEF ReadResponse, Awaited
<1>12. CASE ReadEvent
  BY <1>12 DEF ReadEvent
<1>13. CASE ReadEof
  BY <1>13 DEF ReadEof
<1>14. CASE ReaderStores
  BY <1>14 DEF ReaderStores
<1>15. CASE StragglerStores
  BY <1>15 DEF StragglerStores
<1>16. CASE Accept
  BY <1>16 DEF Accept
<1>17. CASE Execute
  BY <1>17 DEF Execute, Changes
<1>18. CASE Reply
  BY <1>18 DEF Reply
<1>19. CASE ForwardEvent
  BY <1>19 DEF ForwardEvent
<1>20. CASE ReplyFails
  BY <1>20 DEF ReplyFails, Close
<1>21. CASE SidecarDies
  BY <1>21 DEF SidecarDies, Close
<1>22. CASE SidecarStarts \/ Clears
  BY <1>22 DEF SidecarStarts, Clears
<1>23. CASE Emit
  BY <1>23 DEF Emit, Pushed
<1>24. CASE UNCHANGED vars
  BY <1>24
<1> QED BY <1>1, <1>2, <1>3, <1>4, <1>5, <1>6, <1>7, <1>8, <1>9, <1>10, <1>11, <1>12, <1>13, <1>14, <1>15, <1>16, <1>17, <1>18, <1>19, <1>20, <1>21, <1>22, <1>23, <1>24
        DEF Next, Caller, Client, Reader, Server, Failure, Sidecar

LEMMA QueueStep ==
    ASSUME IpcTypeOK, FlowInv, QueueInv, [Next]_vars PROVE QueueInv'
<1> USE Bounds DEF IpcTypeOK, ClientTypes, CallTypes, QueueInv, Distinct,
            daemonVars, serverVars, wireVars, clientVars, readerVars,
            callVars, vars
<1>1. ASSUME NEW c \in Calls, NEW k \in Kinds, Issue(c, k) PROVE QueueInv'
  <2>1. \A i \in DOMAIN queue : queue[i] # c
    BY <1>1 DEF Issue
  <2>2. \A i \in DOMAIN sent : sent[i] # c
    BY <1>1 DEF Issue
  <2>3. link = "await" => current # c
    BY <1>1 DEF Issue
  <2>4. CASE Accepted(k)
    <3>1. queue' = Append(queue, c) /\ status' = [status EXCEPT ![c] = "queued"]
          /\ UNCHANGED <<link, current, sent>>
      BY <1>1, <2>4 DEF Issue
    <3> QED BY <2>1, <2>2, <2>3, <3>1
  <2>5. CASE ~Accepted(k)
    <3>1. queue' = queue /\ status' = [status EXCEPT ![c] = "returned"]
          /\ UNCHANGED <<link, current, sent>>
      BY <1>1, <2>5 DEF Issue
    <3> QED BY <2>1, <2>2, <2>3, <3>1
  <2> QED BY <2>4, <2>5
<1>2. ASSUME NEW c \in Calls, Return(c) PROVE QueueInv'
  BY <1>2 DEF Return, Mirrored
<1>3. CASE Connect
  BY <1>3 DEF Connect, Consulting
<1>4. CASE HelloAnswered
  BY <1>4 DEF HelloAnswered
<1>5. CASE HelloTimeout
  BY <1>5 DEF HelloTimeout, GivenUp, ClearedSlot
<1>6. CASE SendCommand
  <2> DEFINE h == Head(queue)
  <2>1. /\ h \in Calls /\ queue' = Tail(queue) /\ sent' = Append(sent, h)
        /\ current' = h /\ link' = "await" /\ status' = [status EXCEPT ![h] = "sent"]
        /\ queue # <<>>
    BY <1>6 DEF SendCommand
  <2>2. status[h] = "queued" /\ \A i \in DOMAIN Tail(queue) : Tail(queue)[i] # h
    BY <2>1
  <2>3. \A i \in DOMAIN sent : sent[i] # h
    BY <2>1, <2>2
  <2>4. \A i \in DOMAIN Tail(queue) : i + 1 \in DOMAIN queue /\ Tail(queue)[i] = queue[i + 1]
    BY <2>1
  <2> HIDE DEF h
  <2>5. \A i \in DOMAIN queue' : status'[queue'[i]] = "queued"
    BY <2>1, <2>2, <2>4
  <2>6. \A i, j \in DOMAIN queue' : queue'[i] = queue'[j] => i = j
    BY <2>1, <2>4
  <2>7. /\ status'[current'] = "sent" /\ sent' # <<>> /\ current' = sent'[Len(sent')]
        /\ \A i, j \in DOMAIN sent' : sent'[i] = sent'[j] => i = j
    BY <2>1, <2>3
  <2>8. \A i \in DOMAIN sent' :
           sent'[i] \in Calls => status'[sent'[i]] \in {"sent", "answered", "returned"}
    BY <2>1
  <2> QED BY <2>5, <2>6, <2>7, <2>8
<1>7. CASE SendFails
  BY <1>7 DEF SendFails, Disconnect, Answered, Lost
<1>8. CASE CommandAnswered
  BY <1>8 DEF CommandAnswered, Answered
<1>9. CASE CommandTimeout
  BY <1>9 DEF CommandTimeout, Answered, GivenUp
<1>10. CASE IdleTick
  BY <1>10 DEF IdleTick, Disconnect, Lost, ReaderDead
<1>11. CASE ReadResponse
  BY <1>11 DEF ReadResponse, Awaited
<1>12. CASE ReadEvent
  BY <1>12 DEF ReadEvent
<1>13. CASE ReadEof
  BY <1>13 DEF ReadEof
<1>14. CASE ReaderStores
  BY <1>14 DEF ReaderStores
<1>15. CASE StragglerStores
  BY <1>15 DEF StragglerStores
<1>16. CASE Accept
  BY <1>16 DEF Accept
<1>17. CASE Execute
  BY <1>17 DEF Execute, Changes
<1>18. CASE Reply
  BY <1>18 DEF Reply
<1>19. CASE ForwardEvent
  BY <1>19 DEF ForwardEvent
<1>20. CASE ReplyFails
  BY <1>20 DEF ReplyFails, Close
<1>21. CASE SidecarDies
  BY <1>21 DEF SidecarDies, Close
<1>22. CASE SidecarStarts \/ Clears
  BY <1>22 DEF SidecarStarts, Clears
<1>23. CASE Emit
  BY <1>23 DEF Emit, Pushed
<1>24. CASE UNCHANGED vars
  BY <1>24
<1> QED BY <1>1, <1>2, <1>3, <1>4, <1>5, <1>6, <1>7, <1>8, <1>9, <1>10, <1>11, <1>12, <1>13, <1>14, <1>15, <1>16, <1>17, <1>18, <1>19, <1>20, <1>21, <1>22, <1>23, <1>24
        DEF Next, Caller, Client, Reader, Server, Failure, Sidecar

-----------------------------------------------------------------------------
(* Questions and answers *)

LEMMA LagIs ==
    ASSUME IpcTypeOK
    PROVE  Lag \in Nat /\ Lag \in {gaveUp, gaveUp + 1} /\ (link \in {"down", "idle"} => Lag = gaveUp)
           /\ (slot = Nothing => Lag = gaveUp)
  BY DEF IpcTypeOK, ClientTypes, Lag, Awaited

LEMMA GivesUp ==
    ASSUME IpcTypeOK, PairInv, UNCHANGED <<requests, work, frames, sent>>,
           Lag' \in Nat, Lag' >= Lag, received' = NoFrame
    PROVE  PairInv'
<1>1. \A r : (Known(r) => Known(r)') /\ (Within(r, Lag - 1) => Within(r, Lag - 1)')
  BY LagIs DEF Known, Within, IpcTypeOK, ClientTypes
<1>2. \A r, t : Precedes(r, t) => Precedes(r, t)'
  BY DEF Precedes
<1>3. DueRequests'
  BY <1>1, <1>2 DEF PairInv, DueRequests
<1>4. DueWork'
  BY <1>1, <1>2 DEF PairInv, DueWork
<1>5. DueFrames'
  BY <1>1, <1>2 DEF PairInv, DueFrames
<1>6. DueReceived'
  BY Shapes DEF DueReceived
<1> QED BY <1>3, <1>4, <1>5, <1>6 DEF PairInv

(* A command that goes out stands after all that is due.                   *)
LEMMA PairSend ==
    ASSUME IpcTypeOK, QueueInv, PairInv, SendCommand PROVE PairInv'
<1>0. PICK h : h = Head(queue)
  OBVIOUS
<1>1. /\ h \in Calls /\ h # Nothing
      /\ requests' = Append(requests, h) /\ sent' = Append(sent, h)
      /\ Lag' = gaveUp + 1 /\ Lag = gaveUp /\ received' = NoFrame
      /\ UNCHANGED <<work, frames, gaveUp>>
  BY <1>0, Bounds, LagIs DEF SendCommand, Lag, Awaited, serverVars, IpcTypeOK, CallTypes
<1>2. \A i \in DOMAIN sent : sent[i] # h
  <2>1. status[h] = "queued"
    BY <1>0 DEF SendCommand, QueueInv, IpcTypeOK, CallTypes
  <2> QED BY <1>1, <2>1 DEF QueueInv
<1>3. sent \in Seq(Requests) /\ gaveUp \in Nat /\ requests \in Seq(Requests)
  BY DEF IpcTypeOK, ClientTypes, DaemonTypes
<1>4. \A r : Known(r) => Known(r)' /\ r # h
  BY <1>1, <1>2, <1>3 DEF Known
<1>5. \A r : (Known(r) /\ Within(r, Lag - 1)) => Within(r, Lag - 1)'
  <2> SUFFICES ASSUME NEW r, Known(r), Within(r, Lag - 1),
                      NEW p \in DOMAIN sent', sent'[p] = r
               PROVE  Len(sent') - p <= (Lag - 1)'
    BY DEF Within
  <2>1. p \in DOMAIN sent /\ sent[p] = r
    BY <1>1, <1>3, <1>4
  <2>2. Len(sent) - p <= gaveUp - 1
    BY <1>1, <2>1 DEF Within
  <2> QED BY <1>1, <1>3, <2>1, <2>2
<1>6. \A r, t : (Known(r) /\ Known(t) /\ Precedes(r, t)) => Precedes(r, t)'
  BY <1>1, <1>3, <1>4 DEF Precedes
<1>7. \A r : Known(r) => Precedes(r, h)'
  <2> SUFFICES ASSUME NEW r, Known(r), NEW p \in DOMAIN sent', NEW q \in DOMAIN sent',
                      sent'[p] = r, sent'[q] = h
               PROVE  p < q
    BY <1>1 DEF Precedes
  <2>1. p \in 1 .. Len(sent) /\ q = Len(sent) + 1
    BY <1>1, <1>2, <1>3, <1>4
  <2> QED BY <1>3, <2>1
<1>8. Known(h)' /\ Within(h, Lag - 1)'
  <2>1. Len(sent) + 1 \in DOMAIN sent' /\ sent'[Len(sent) + 1] = h
    BY <1>1, <1>3
  <2>2. \A p \in DOMAIN sent' : sent'[p] = h => p = Len(sent) + 1
    BY <1>1, <1>2, <1>3
  <2>3. Len(sent') = Len(sent) + 1 /\ Lag' - 1 = gaveUp
    BY <1>1, <1>3
  <2>4. Known(h)'
    BY <2>1 DEF Known
  <2>5. Within(h, Lag - 1)'
    BY <1>3, <2>2, <2>3 DEF Within
  <2> QED BY <2>4, <2>5
<1>9. DueRequests'
  BY <1>1, <1>3, <1>4, <1>5, <1>6, <1>7, <1>8 DEF PairInv, DueRequests
<1>10. DueWork'
  BY <1>1, <1>3, <1>4, <1>5, <1>6, <1>7 DEF PairInv, DueWork, DueRequests
<1>11. DueFrames'
  BY <1>1, <1>3, <1>4, <1>5, <1>6, <1>7 DEF PairInv, DueFrames, DueWork, DueRequests
<1>12. DueReceived'
  BY <1>1, Shapes DEF DueReceived
<1> QED BY <1>9, <1>10, <1>11, <1>12 DEF PairInv

LEMMA PairRead ==
    ASSUME IpcTypeOK, PairInv, ReadResponse PROVE PairInv'
<1>0. PICK h : h = Head(frames)
  OBVIOUS
<1>1. /\ frames # <<>> /\ Response(h) /\ h = frames[1] /\ frames' = Tail(frames)
      /\ UNCHANGED <<requests, work, sent, gaveUp>> /\ slot' = Nothing
      /\ received' = IF slot # Nothing /\ slot = Awaited THEN h ELSE received
  BY <1>0 DEF ReadResponse, serverVars, Response, IpcTypeOK, DaemonTypes
<1>2. \A i \in DOMAIN frames' : i + 1 \in DOMAIN frames /\ frames'[i] = frames[i + 1]
  BY <1>1 DEF IpcTypeOK, DaemonTypes
<1>3. 1 \in DOMAIN frames /\ DOMAIN frames \subseteq Nat /\ DOMAIN frames' \subseteq Nat
      /\ \A i \in DOMAIN frames' : 1 < i + 1
  BY <1>1 DEF IpcTypeOK, DaemonTypes
<1>4. Lag' = gaveUp /\ gaveUp >= Lag - 1 /\ Lag \in Nat /\ gaveUp \in Nat
  BY <1>1, LagIs, Bounds DEF Lag, IpcTypeOK, ClientTypes
<1>5. Known(h.to) /\ Within(h.to, Lag - 1)
  BY <1>1, <1>3 DEF PairInv, DueFrames
<1>6. \A r : Known(r) => Known(r)'
  BY <1>1 DEF Known
<1>7. \A r, t : Precedes(r, t) => Precedes(r, t)'
  BY <1>1 DEF Precedes
<1>8. \A r : Precedes(h.to, r) => Within(r, Lag - 1)'
  <2> SUFFICES ASSUME NEW r, Precedes(h.to, r), NEW q \in DOMAIN sent, sent[q] = r
               PROVE  Len(sent) - q <= gaveUp - 1
    BY <1>1, <1>4 DEF Within
  <2>1. PICK p \in DOMAIN sent : sent[p] = h.to
    BY <1>5 DEF Known
  <2>2. p < q /\ Len(sent) - p <= Lag - 1
    BY <1>5, <2>1 DEF Within, Precedes
  <2> QED BY <1>4, <2>1, <2>2 DEF IpcTypeOK, ClientTypes
<1>9. \A j \in DOMAIN frames' : Response(frames'[j]) => Precedes(h.to, frames'[j].to)
  BY <1>1, <1>2, <1>3 DEF PairInv, DueFrames
<1>10. Response(work) => Precedes(h.to, work.to)
  BY <1>1, <1>3 DEF PairInv, DueFrames
<1>11. \A j \in DOMAIN requests : Precedes(h.to, requests[j])
  BY <1>1, <1>3 DEF PairInv, DueFrames
<1>12. DueRequests'
  BY <1>1, <1>6, <1>7, <1>8, <1>11 DEF PairInv, DueRequests
<1>13. DueWork'
  BY <1>1, <1>6, <1>7, <1>8, <1>10 DEF PairInv, DueWork
<1>14. DueFrames'
  <2> SUFFICES ASSUME NEW i \in DOMAIN frames', Response(frames'[i])
               PROVE  (/\ Known(frames[i].to) /\ Within(frames[i].to, Lag - 1)
                       /\ \A j \in DOMAIN frames :
                             (i < j /\ Response(frames[j])) => Precedes(frames[i].to, frames[j].to)
                       /\ Response(work) => Precedes(frames[i].to, work.to)
                       /\ \A j \in DOMAIN requests : Precedes(frames[i].to, requests[j]))'
    BY <1>1 DEF DueFrames, Response
  <2>1. PICK f : f = frames'[i]
    OBVIOUS
  <2>2. f = frames[i + 1] /\ i + 1 \in DOMAIN frames /\ Response(f)
    BY <1>2, <2>1 DEF Response
  <2>3. /\ Known(f.to) /\ Precedes(h.to, f.to)
        /\ \A j \in DOMAIN frames : (i + 1 < j /\ Response(frames[j])) => Precedes(f.to, frames[j].to)
        /\ Response(work) => Precedes(f.to, work.to)
        /\ \A j \in DOMAIN requests : Precedes(f.to, requests[j])
    BY <1>9, <2>1, <2>2 DEF PairInv, DueFrames
  <2>4. Known(f.to)' /\ Within(f.to, Lag - 1)'
    BY <1>6, <1>8, <2>3
  <2>5. ASSUME NEW j \in DOMAIN frames', i < j, Response(frames'[j])
        PROVE  Precedes(f.to, frames[j].to)'
    <3>1. frames'[j] = frames[j + 1] /\ j + 1 \in DOMAIN frames /\ i + 1 < j + 1
      BY <1>2, <1>3, <2>5
    <3>2. Precedes(f.to, frames[j + 1].to)
      BY <2>3, <2>5, <3>1 DEF Response
    <3> QED BY <1>1, <3>1, <3>2 DEF Precedes
  <2>6. (Response(work) => Precedes(f.to, work.to))'
    BY <1>1, <2>3 DEF Precedes, Response
  <2>7. \A j \in DOMAIN requests' : Precedes(f.to, requests[j])'
    BY <1>1, <2>3 DEF Precedes
  <2> QED BY <2>1, <2>4, <2>5, <2>6, <2>7 DEF Response
<1>15. DueReceived'
  <2>1. CASE slot # Nothing /\ slot = Awaited
    <3>1. received' = h /\ Lag = gaveUp + 1
      BY <1>1, <2>1 DEF Lag
    <3>2. Within(h.to, gaveUp)
      BY <1>4, <1>5, <3>1
    <3>3. Within(received.to, gaveUp)'
      BY <1>1, <3>1, <3>2 DEF Within
    <3>4. Known(received.to)'
      BY <1>1, <1>5, <3>1 DEF Known
    <3> QED BY <1>1, <1>7, <1>9, <1>10, <1>11, <3>1, <3>3, <3>4 DEF DueReceived, Response
  <2>2. CASE ~(slot # Nothing /\ slot = Awaited)
    <3>1. received' = received
      BY <1>1, <2>2
    <3> SUFFICES ASSUME Response(received) PROVE DueReceived'
      BY <3>1 DEF DueReceived, Response
    <3>2. Known(received.to)' /\ Within(received.to, gaveUp)'
      BY <1>1, <3>1 DEF PairInv, DueReceived, Known, Within
    <3>3. \A j \in DOMAIN frames' : Response(frames'[j]) => Precedes(received.to, frames'[j].to)
      BY <1>2 DEF PairInv, DueReceived
    <3>4. (Response(work) => Precedes(received.to, work.to))
          /\ \A j \in DOMAIN requests : Precedes(received.to, requests[j])
      BY DEF PairInv, DueReceived
    <3> QED BY <1>1, <1>7, <3>1, <3>2, <3>3, <3>4 DEF DueReceived, Response
  <2> QED BY <2>1, <2>2
<1> QED BY <1>12, <1>13, <1>14, <1>15 DEF PairInv

(* What is due moves from the stream to the server task and back.          *)
LEMMA PairExecute ==
    ASSUME IpcTypeOK, PairInv, Execute PROVE PairInv'
<1>0. PICK h : h = Head(requests)
  OBVIOUS
<1>1. /\ h = requests[1] /\ requests # <<>> /\ requests' = Tail(requests)
      /\ work = NoFrame /\ work'.to = h /\ Response(work')
      /\ UNCHANGED <<frames, received, sent, gaveUp, slot, link, current>>
  BY <1>0 DEF Execute, clientVars, Response, IpcTypeOK, DaemonTypes
<1>2. \A i \in DOMAIN requests' : i + 1 \in DOMAIN requests /\ requests'[i] = requests[i + 1]
  BY <1>1 DEF IpcTypeOK, DaemonTypes
<1>3. 1 \in DOMAIN requests /\ DOMAIN requests \subseteq Nat /\ DOMAIN requests' \subseteq Nat
      /\ \A i \in DOMAIN requests' : 1 < i + 1
  BY <1>1 DEF IpcTypeOK, DaemonTypes
<1>4. Lag' = Lag
  BY <1>1 DEF Lag, Awaited
<1>5. \A r : (Known(r) => Known(r)') /\ (Within(r, Lag - 1) => Within(r, Lag - 1)')
             /\ (Within(r, gaveUp) => Within(r, gaveUp)')
  BY <1>1, <1>4 DEF Known, Within
<1>6. \A r, t : Precedes(r, t) => Precedes(r, t)'
  BY <1>1 DEF Precedes
<1>7. /\ Known(h) /\ Within(h, Lag - 1)
      /\ \A j \in DOMAIN requests' : Precedes(h, requests'[j])
  BY <1>1, <1>2, <1>3 DEF PairInv, DueRequests
<1>8. DueRequests'
  <2> SUFFICES ASSUME NEW i \in DOMAIN requests'
               PROVE  (/\ Known(requests[i]) /\ Within(requests[i], Lag - 1)
                       /\ \A j \in DOMAIN requests : i < j => Precedes(requests[i], requests[j]))'
    BY DEF DueRequests
  <2>1. PICK r : r = requests'[i]
    OBVIOUS
  <2>2. Known(r) /\ Within(r, Lag - 1) /\ r = requests[i + 1] /\ i + 1 \in DOMAIN requests
    BY <1>2, <2>1 DEF PairInv, DueRequests
  <2>3. ASSUME NEW j \in DOMAIN requests', i < j PROVE Precedes(r, requests[j])'
    <3>1. requests'[j] = requests[j + 1] /\ j + 1 \in DOMAIN requests /\ i + 1 < j + 1
      BY <1>2, <1>3, <2>3
    <3>2. Precedes(r, requests[j + 1])
      BY <2>2, <3>1 DEF PairInv, DueRequests
    <3> QED BY <1>1, <3>1, <3>2 DEF Precedes
  <2>4. Known(r)' /\ Within(r, Lag - 1)'
    BY <1>5, <2>2
  <2> QED BY <2>1, <2>3, <2>4
<1>9. DueWork'
  <2>1. Known(work.to)' /\ Within(work.to, Lag - 1)'
    BY <1>1, <1>5, <1>7
  <2>2. \A j \in DOMAIN requests' : Precedes(work.to, requests[j])'
    BY <1>1, <1>7 DEF Precedes
  <2> QED BY <2>1, <2>2 DEF DueWork
<1>10. ASSUME NEW r, \A j \in DOMAIN requests : Precedes(r, requests[j])
       PROVE  Precedes(r, work.to)' /\ \A j \in DOMAIN requests' : Precedes(r, requests[j])'
  BY <1>1, <1>2, <1>3, <1>10 DEF Precedes
<1>11. DueFrames'
  <2> SUFFICES ASSUME NEW i \in DOMAIN frames, Response(frames[i])
               PROVE  (/\ Known(frames[i].to) /\ Within(frames[i].to, Lag - 1)
                       /\ \A j \in DOMAIN frames :
                             (i < j /\ Response(frames[j])) => Precedes(frames[i].to, frames[j].to)
                       /\ Response(work) => Precedes(frames[i].to, work.to)
                       /\ \A j \in DOMAIN requests : Precedes(frames[i].to, requests[j]))'
    BY <1>1 DEF DueFrames, Response
  <2>1. PICK f : f = frames[i]
    OBVIOUS
  <2>2. /\ Known(f.to) /\ Within(f.to, Lag - 1)
        /\ \A j \in DOMAIN frames : (i < j /\ Response(frames[j])) => Precedes(f.to, frames[j].to)
        /\ \A j \in DOMAIN requests : Precedes(f.to, requests[j])
    BY <2>1 DEF PairInv, DueFrames
  <2>3. Precedes(f.to, work.to)' /\ \A j \in DOMAIN requests' : Precedes(f.to, requests[j])'
    BY <1>10, <2>2
  <2>4. \A j \in DOMAIN frames' :
           (i < j /\ Response(frames[j]))' => Precedes(f.to, frames[j].to)'
    BY <1>1, <2>2 DEF Precedes, Response
  <2>5. Known(f.to)' /\ Within(f.to, Lag - 1)'
    BY <1>5, <2>2
  <2> QED BY <1>1, <2>1, <2>3, <2>4, <2>5
<1>12. DueReceived'
  <2> SUFFICES ASSUME Response(received) PROVE DueReceived'
    BY <1>1 DEF DueReceived, Response
  <2>1. PICK t : t = received.to
    OBVIOUS
  <2>2. /\ slot = Nothing /\ Known(t) /\ Within(t, gaveUp)
        /\ \A j \in DOMAIN frames : Response(frames[j]) => Precedes(t, frames[j].to)
        /\ \A j \in DOMAIN requests : Precedes(t, requests[j])
    BY <2>1 DEF PairInv, DueReceived
  <2>3. Precedes(t, work.to)' /\ \A j \in DOMAIN requests' : Precedes(t, requests[j])'
    BY <1>10, <2>2
  <2>4. \A j \in DOMAIN frames' : Response(frames[j])' => Precedes(t, frames[j].to)'
    BY <1>1, <2>2 DEF Precedes, Response
  <2>5. Known(t)' /\ Within(t, gaveUp)'
    BY <1>5, <2>2
  <2> QED BY <1>1, <2>1, <2>2, <2>3, <2>4, <2>5 DEF DueReceived
<1> QED BY <1>8, <1>9, <1>11, <1>12 DEF PairInv

(* A frame at the end of the stream: the response just written, or an event. *)
LEMMA PairAppend ==
    ASSUME IpcTypeOK, PairInv, NEW f \in Responses \cup Events,
           frames' = Append(frames, f),
           Response(f) => work = f /\ work' = NoFrame,
           ~Response(f) => work' = work,
           UNCHANGED <<requests, received, sent, gaveUp, slot, link, current>>
    PROVE  PairInv'
<1>1. Lag' = Lag
  BY DEF Lag, Awaited
<1>2. \A r : (Known(r) => Known(r)') /\ (Within(r, Lag - 1) => Within(r, Lag - 1)')
             /\ (Within(r, gaveUp) => Within(r, gaveUp)')
  BY <1>1 DEF Known, Within
<1>3. \A r, t : Precedes(r, t) => Precedes(r, t)'
  BY DEF Precedes
<1>4. frames \in Seq(Responses \cup Events) /\ DOMAIN frames = 1 .. Len(frames) /\ Len(frames) \in Nat
      /\ DOMAIN frames' = 1 .. Len(frames) + 1
      /\ \A i \in DOMAIN frames : frames'[i] = frames[i]
      /\ frames'[Len(frames) + 1] = f
  BY DEF IpcTypeOK, DaemonTypes
<1>5. DueRequests'
  BY <1>2, <1>3 DEF PairInv, DueRequests
<1>6. Response(work') => ~Response(f) /\ work' = work
  BY Shapes
<1>7. DueWork'
  <2>1. DueWork
    BY DEF PairInv
  <2> QED BY <1>2, <1>3, <1>6, <2>1 DEF DueWork, Response
<1>8. DueFrames'
  <2> SUFFICES ASSUME NEW i \in DOMAIN frames', Response(frames[i])'
               PROVE  (/\ Known(frames[i].to) /\ Within(frames[i].to, Lag - 1)
                       /\ \A j \in DOMAIN frames :
                             (i < j /\ Response(frames[j])) => Precedes(frames[i].to, frames[j].to)
                       /\ Response(work) => Precedes(frames[i].to, work.to)
                       /\ \A j \in DOMAIN requests : Precedes(frames[i].to, requests[j]))'
    BY DEF DueFrames
  <2>1. PICK g : g = frames'[i]
    OBVIOUS
  <2>2. CASE i \in DOMAIN frames
    <3>1. g = frames[i] /\ Response(g)
      BY <1>4, <2>1, <2>2 DEF Response
    <3>2. /\ Known(g.to) /\ Within(g.to, Lag - 1)
          /\ \A j \in DOMAIN frames : (i < j /\ Response(frames[j])) => Precedes(g.to, frames[j].to)
          /\ Response(work) => Precedes(g.to, work.to)
          /\ \A j \in DOMAIN requests : Precedes(g.to, requests[j])
      BY <2>2, <3>1 DEF PairInv, DueFrames
    <3>3. Known(g.to)' /\ Within(g.to, Lag - 1)'
      BY <1>2, <3>2
    <3>4. ASSUME NEW j \in DOMAIN frames', i < j, Response(frames[j])'
          PROVE  Precedes(g.to, frames[j].to)'
      <4>1. CASE j \in DOMAIN frames
        BY <1>3, <1>4, <3>2, <3>4, <4>1 DEF Precedes, Response
      <4>2. CASE j = Len(frames) + 1
        BY <1>4, <3>2, <3>4, <4>2 DEF Precedes, Response
      <4> QED BY <1>4, <4>1, <4>2
    <3>5. (Response(work) => Precedes(g.to, work.to))'
      BY <1>6, <3>2 DEF Precedes, Response
    <3>6. \A j \in DOMAIN requests' : Precedes(g.to, requests[j])'
      BY <3>2 DEF Precedes
    <3> QED BY <2>1, <3>3, <3>4, <3>5, <3>6
  <2>3. CASE i = Len(frames) + 1
    <3>1. g = f /\ Response(f) /\ work = f /\ work' = NoFrame
      BY <1>4, <2>1, <2>3 DEF Response
    <3>2. Known(g.to) /\ Within(g.to, Lag - 1) /\ \A j \in DOMAIN requests : Precedes(g.to, requests[j])
      BY <3>1 DEF PairInv, DueWork
    <3>3. Known(g.to)' /\ Within(g.to, Lag - 1)' /\ ~Response(work')
      BY <1>2, <3>1, <3>2, Shapes
    <3>4. \A j \in DOMAIN frames' : ~(i < j)
      BY <1>4, <2>3
    <3>5. \A j \in DOMAIN requests' : Precedes(g.to, requests[j])'
      BY <3>2 DEF Precedes
    <3> QED BY <2>1, <3>3, <3>4, <3>5 DEF Response
  <2> QED BY <1>4, <2>2, <2>3
<1>9. DueReceived'
  <2> SUFFICES ASSUME Response(received) PROVE DueReceived'
    BY DEF DueReceived, Response
  <2>1. PICK t : t = received.to
    OBVIOUS
  <2>2. /\ slot = Nothing /\ Known(t) /\ Within(t, gaveUp)
        /\ \A j \in DOMAIN frames : Response(frames[j]) => Precedes(t, frames[j].to)
        /\ Response(work) => Precedes(t, work.to)
        /\ \A j \in DOMAIN requests : Precedes(t, requests[j])
    BY <2>1 DEF PairInv, DueReceived
  <2>3. Known(t)' /\ Within(t, gaveUp)' /\ slot' = Nothing
    BY <1>2, <2>2
  <2>4. ASSUME NEW j \in DOMAIN frames', Response(frames[j])' PROVE Precedes(t, frames[j].to)'
    <3>1. CASE j \in DOMAIN frames
      BY <1>4, <2>2, <2>4, <3>1 DEF Precedes, Response
    <3>2. CASE j = Len(frames) + 1
      BY <1>4, <2>2, <2>4, <3>2 DEF Precedes, Response
    <3> QED BY <1>4, <3>1, <3>2
  <2>5. (Response(work) => Precedes(t, work.to))'
    BY <1>6, <2>2 DEF Precedes, Response
  <2>6. \A j \in DOMAIN requests' : Precedes(t, requests[j])'
    BY <2>2 DEF Precedes
  <2> QED BY <2>1, <2>3, <2>4, <2>5, <2>6 DEF DueReceived
<1> QED BY <1>5, <1>7, <1>8, <1>9 DEF PairInv

(* The reader takes an event off the stream.                               *)
LEMMA PairDrop ==
    ASSUME IpcTypeOK, PairInv, frames # <<>>, ~Response(Head(frames)), frames' = Tail(frames),
           UNCHANGED <<requests, work, received, sent, gaveUp, slot, link, current>>
    PROVE  PairInv'
<1>1. Lag' = Lag
  BY DEF Lag, Awaited
<1>2. \A r : (Known(r) => Known(r)') /\ (Within(r, Lag - 1) => Within(r, Lag - 1)')
             /\ (Within(r, gaveUp) => Within(r, gaveUp)')
  BY <1>1 DEF Known, Within
<1>3. \A r, t : Precedes(r, t) => Precedes(r, t)'
  BY DEF Precedes
<1>4. \A i \in DOMAIN frames' : i \in Nat /\ i + 1 \in DOMAIN frames /\ frames'[i] = frames[i + 1]
  BY DEF IpcTypeOK, DaemonTypes
<1>5. DueRequests' /\ DueWork'
  BY <1>2, <1>3 DEF PairInv, DueRequests, DueWork, Response
<1>6. DueFrames'
  <2> SUFFICES ASSUME NEW i \in DOMAIN frames', Response(frames[i])'
               PROVE  (/\ Known(frames[i].to) /\ Within(frames[i].to, Lag - 1)
                       /\ \A j \in DOMAIN frames :
                             (i < j /\ Response(frames[j])) => Precedes(frames[i].to, frames[j].to)
                       /\ Response(work) => Precedes(frames[i].to, work.to)
                       /\ \A j \in DOMAIN requests : Precedes(frames[i].to, requests[j]))'
    BY DEF DueFrames
  <2>1. PICK f : f = frames'[i]
    OBVIOUS
  <2>2. f = frames[i + 1] /\ i + 1 \in DOMAIN frames /\ Response(f)
    BY <1>4, <2>1 DEF Response
  <2>3. /\ Known(f.to) /\ Within(f.to, Lag - 1)
        /\ \A j \in DOMAIN frames : (i + 1 < j /\ Response(frames[j])) => Precedes(f.to, frames[j].to)
        /\ Response(work) => Precedes(f.to, work.to)
        /\ \A j \in DOMAIN requests : Precedes(f.to, requests[j])
    BY <2>2 DEF PairInv, DueFrames
  <2>4. Known(f.to)' /\ Within(f.to, Lag - 1)'
    BY <1>2, <2>3
  <2>5. ASSUME NEW j \in DOMAIN frames', i < j, Response(frames[j])'
        PROVE  Precedes(f.to, frames[j].to)'
    <3>1. frames'[j] = frames[j + 1] /\ j + 1 \in DOMAIN frames /\ i + 1 < j + 1
      BY <1>4, <2>5
    <3>2. Precedes(f.to, frames[j + 1].to)
      BY <2>3, <2>5, <3>1 DEF Response
    <3> QED BY <3>1, <3>2 DEF Precedes
  <2>6. (Response(work) => Precedes(f.to, work.to))' /\ \A j \in DOMAIN requests' : Precedes(f.to, requests[j])'
    BY <2>3 DEF Precedes, Response
  <2> QED BY <2>1, <2>4, <2>5, <2>6
<1>7. DueReceived'
  <2> SUFFICES ASSUME Response(received) PROVE DueReceived'
    BY DEF DueReceived, Response
  <2>1. PICK t : t = received.to
    OBVIOUS
  <2>2. /\ slot = Nothing /\ Known(t) /\ Within(t, gaveUp)
        /\ \A j \in DOMAIN frames : Response(frames[j]) => Precedes(t, frames[j].to)
        /\ Response(work) => Precedes(t, work.to)
        /\ \A j \in DOMAIN requests : Precedes(t, requests[j])
    BY <2>1 DEF PairInv, DueReceived
  <2>3. Known(t)' /\ Within(t, gaveUp)' /\ slot' = Nothing
    BY <1>2, <2>2
  <2>4. ASSUME NEW j \in DOMAIN frames', Response(frames[j])' PROVE Precedes(t, frames[j].to)'
    BY <1>4, <2>2, <2>4 DEF Precedes, Response
  <2>5. (Response(work) => Precedes(t, work.to))' /\ \A j \in DOMAIN requests' : Precedes(t, requests[j])'
    BY <2>2 DEF Precedes, Response
  <2> QED BY <2>1, <2>3, <2>4, <2>5 DEF DueReceived
<1> QED BY <1>5, <1>6, <1>7 DEF PairInv

(* Nothing is due on a connection that ended at either end of the stream.  *)
LEMMA PairCut ==
    ASSUME IpcTypeOK, PairInv, requests' = <<>>, work' = NoFrame,
           \/ frames' = <<>> /\ received' = NoFrame
           \/ UNCHANGED <<frames, received, sent, gaveUp, slot, link, current>>
    PROVE  PairInv'
<1>1. DueRequests' /\ DueWork' /\ ~Response(work')
  BY Shapes DEF DueRequests, DueWork
<1>2. CASE frames' = <<>> /\ received' = NoFrame
  BY <1>1, <1>2, Shapes DEF PairInv, DueFrames, DueReceived
<1>3. CASE UNCHANGED <<frames, received, sent, gaveUp, slot, link, current>>
  <2>1. Lag' = Lag
    BY <1>3 DEF Lag, Awaited
  <2>2. \A r : (Known(r) => Known(r)') /\ (Within(r, Lag - 1) => Within(r, Lag - 1)')
               /\ (Within(r, gaveUp) => Within(r, gaveUp)')
    BY <1>3, <2>1 DEF Known, Within
  <2>3. \A r, t : Precedes(r, t) => Precedes(r, t)'
    BY <1>3 DEF Precedes
  <2>4. DueFrames'
    BY <1>1, <1>3, <2>2, <2>3 DEF PairInv, DueFrames
  <2>5. DueReceived'
    BY <1>1, <1>3, <2>2, <2>3 DEF PairInv, DueReceived
  <2> QED BY <1>1, <2>4, <2>5 DEF PairInv
<1> QED BY <1>2, <1>3

LEMMA PairStep ==
    ASSUME IpcTypeOK, FlowInv, QueueInv, PairInv, [Next]_vars PROVE PairInv'
<1> USE DEF daemonVars, serverVars, wireVars, clientVars, readerVars, callVars
<1>1. CASE Connect
  <2>1. /\ requests' = <<Hello>> /\ sent' = <<Hello>> /\ frames' = <<>>
        /\ work' = NoFrame /\ received' = NoFrame /\ Lag' = 1
    BY <1>1, Bounds DEF Connect, Consulting, Lag, Awaited, Hello, Nothing
  <2>2. DueRequests'
    BY <2>1 DEF DueRequests, Known, Within, Precedes
  <2>3. DueWork' /\ DueFrames' /\ DueReceived'
    BY <2>1, Shapes DEF DueWork, DueFrames, DueReceived
  <2> QED BY <2>2, <2>3 DEF PairInv
<1>2. CASE HelloAnswered
  <2>1. Response(received) /\ slot = Nothing /\ slot' = Nothing /\ gaveUp' = gaveUp
        /\ received' = NoFrame /\ UNCHANGED <<requests, work, frames, sent>>
    BY <1>2, Shapes DEF HelloAnswered, IpcTypeOK, ClientTypes, PairInv, DueReceived
  <2>2. Lag' = gaveUp /\ Lag = gaveUp /\ gaveUp \in Nat
    BY <2>1 DEF Lag, IpcTypeOK, ClientTypes
  <2> QED BY <2>1, <2>2, GivesUp
<1>3. CASE HelloTimeout
  <2>1. GivenUp \in Nat /\ GivenUp >= Lag
    BY DEF GivenUp, Lag, IpcTypeOK, ClientTypes
  <2>2. Lag' = GivenUp /\ received' = NoFrame /\ UNCHANGED <<requests, work, frames, sent>>
    BY <1>3, <2>1 DEF HelloTimeout, Lag, ClearedSlot
  <2> QED BY <2>1, <2>2, GivesUp
<1>4. CASE CommandTimeout
  <2>1. GivenUp \in Nat /\ GivenUp >= Lag
    BY DEF GivenUp, Lag, IpcTypeOK, ClientTypes
  <2>2. Lag' = GivenUp /\ received' = NoFrame /\ UNCHANGED <<requests, work, frames, sent>>
    BY <1>4, <2>1 DEF CommandTimeout, Lag, Awaited
  <2> QED BY <2>1, <2>2, GivesUp
<1>5. CASE CommandAnswered
  <2>1. Response(received) /\ slot = Nothing /\ slot' = Nothing /\ gaveUp' = gaveUp
        /\ received' = NoFrame /\ UNCHANGED <<requests, work, frames, sent>>
    BY <1>5, Shapes DEF CommandAnswered, IpcTypeOK, ClientTypes, PairInv, DueReceived
  <2>2. Lag' = gaveUp /\ Lag = gaveUp /\ gaveUp \in Nat
    BY <2>1 DEF Lag, IpcTypeOK, ClientTypes
  <2> QED BY <2>1, <2>2, GivesUp
<1>6. CASE SendFails \/ IdleTick
  <2>1. work = NoFrame /\ work' = work
    BY <1>6 DEF SendFails, IdleTick, ReaderDead, FlowInv
  <2>2. requests' = <<>> /\ frames' = <<>> /\ received' = NoFrame
    BY <1>6 DEF SendFails, IdleTick, Disconnect
  <2> QED BY <2>1, <2>2, PairCut
<1>7. CASE ReplyFails \/ SidecarDies
  BY <1>7, PairCut DEF ReplyFails, SidecarDies, Close
<1>8. CASE SendCommand
  BY <1>8, PairSend
<1>9. CASE ReadResponse
  BY <1>9, PairRead
<1>10. CASE ReadEvent
  BY <1>10, PairDrop, Shapes DEF ReadEvent, Response
<1>11. CASE Execute
  BY <1>11, PairExecute
<1>12. CASE Reply
  <2>1. work \in Responses
    BY <1>12 DEF Reply, IpcTypeOK, DaemonTypes
  <2> QED BY <1>12, <2>1, PairAppend, Shapes DEF Reply
<1>13. CASE ForwardEvent
  <2>1. Head(pending) \in Events
    BY <1>13 DEF ForwardEvent, IpcTypeOK, DaemonTypes
  <2> QED BY <1>13, <2>1, PairAppend, Shapes DEF ForwardEvent
<1>14. ASSUME UNCHANGED <<clientVars, wireVars, work, slot>> PROVE PairInv'
  <2>1. Lag' = Lag
    BY <1>14 DEF Lag, Awaited
  <2>2. \A r : (Known(r) => Known(r)') /\ (Within(r, Lag - 1) => Within(r, Lag - 1)')
               /\ (Within(r, gaveUp) => Within(r, gaveUp)')
    BY <1>14, <2>1 DEF Known, Within
  <2>3. \A r, t : Precedes(r, t) => Precedes(r, t)'
    BY <1>14 DEF Precedes
  <2>4. DueRequests' /\ DueWork'
    BY <1>14, <2>2, <2>3 DEF PairInv, DueRequests, DueWork
  <2>5. DueFrames'
    BY <1>14, <2>2, <2>3 DEF PairInv, DueFrames
  <2>6. DueReceived'
    BY <1>14, <2>2, <2>3 DEF PairInv, DueReceived
  <2> QED BY <2>4, <2>5, <2>6 DEF PairInv
<1>15. CASE Caller \/ ReadEof \/ ReaderStores \/ StragglerStores \/ Accept \/ Sidecar
            \/ UNCHANGED vars
  BY <1>14, <1>15 DEF Caller, Issue, Return, ReadEof, ReaderStores, StragglerStores, Accept,
                     Sidecar, SidecarStarts, Clears, Emit, vars
<1> QED BY <1>1, <1>2, <1>3, <1>4, <1>5, <1>6, <1>7, <1>8, <1>9, <1>10, <1>11, <1>12, <1>13, <1>15
        DEF Next, Client, Reader, Server, Failure

-----------------------------------------------------------------------------
(* Answers and the flag *)

LEMMA AnswerStep ==
    ASSUME IpcTypeOK, QueueInv, PairInv, AnswersLagOnlyByTimeouts, [Next]_vars
    PROVE  AnswersLagOnlyByTimeouts'
<1> USE DEF AnswersLagOnlyByTimeouts, IpcTypeOK, CallTypes
<1>1. ASSUME NEW c \in Calls, NEW a, answer' = [answer EXCEPT ![c] = a],
             a.how \in {"ok", "err"} => a.behind <= a.gaveUp
      PROVE  AnswersLagOnlyByTimeouts'
  BY <1>1
<1>2. ASSUME answer' = answer PROVE AnswersLagOnlyByTimeouts'
  BY <1>2
<1>3. CASE CommandAnswered
  <2>1. Response(received) /\ link = "await" /\ current \in Calls
    BY <1>3, Shapes DEF CommandAnswered, ClientTypes
  <2>2. Behind(current, received.to) <= gaveUp
    BY <2>1, BehindIs
  <2> QED BY <1>1, <1>3, <2>1, <2>2 DEF CommandAnswered, Answered
<1>4. CASE CommandTimeout
  <2>1. current \in Calls
    BY <1>4 DEF CommandTimeout, ClientTypes
  <2> QED BY <1>1, <1>4, <2>1 DEF CommandTimeout, Answered
<1>5. CASE SendFails
  <2>1. Head(queue) \in Calls
    BY <1>5 DEF SendFails
  <2> QED BY <1>1, <1>5, <2>1 DEF SendFails, Answered
<1>6. ASSUME NEW c \in Calls, NEW k \in Kinds, Issue(c, k) PROVE AnswersLagOnlyByTimeouts'
  <2>1. CASE Accepted(k)
    BY <1>2, <1>6, <2>1 DEF Issue
  <2>2. CASE ~Accepted(k)
    BY <1>1, <1>6, <2>2 DEF Issue
  <2> QED BY <2>1, <2>2
<1>7. CASE (\E c \in Calls : Return(c)) \/ Connect \/ HelloAnswered \/ HelloTimeout
           \/ SendCommand \/ IdleTick \/ Reader \/ Server \/ Failure \/ Sidecar
           \/ UNCHANGED vars
  BY <1>2, <1>7 DEF Return, Connect, HelloAnswered, HelloTimeout, SendCommand, IdleTick, Reader,
                    ReadResponse, ReadEvent, ReadEof, ReaderStores, StragglerStores, Server,
                    Accept, Execute, Reply, ForwardEvent, Failure, ReplyFails, SidecarDies,
                    Close, Sidecar, SidecarStarts, Clears, Emit, callVars, vars
<1> QED BY <1>3, <1>4, <1>5, <1>6, <1>7 DEF Next, Caller, Client

LEMMA FlagStep ==
    ASSUME IpcTypeOK, FlowInv, FlagFollowsReader, [Next]_vars PROVE FlagFollowsReader'
<1> USE DEF IpcTypeOK, ClientTypes, FlowInv, FlagFollowsReader, clientVars, readerVars
<1>1. ASSUME UNCHANGED <<connected, reader, clobbered>>,
             (link = "down") = (link' = "down")
      PROVE  FlagFollowsReader'
  BY <1>1
<1>2. CASE Connect
  BY <1>2 DEF Connect, Consulting
<1>3. CASE SendFails \/ IdleTick
  BY <1>3 DEF SendFails, IdleTick, Disconnect, Lost
<1>4. CASE ReadEof
  BY <1>4 DEF ReadEof
<1>5. CASE ReaderStores
  BY <1>5 DEF ReaderStores
<1>6. CASE StragglerStores
  <2>1. CASE link = "down"
    BY <1>6, <2>1 DEF StragglerStores
  <2>2. CASE link # "down"
    BY <1>6, <2>2 DEF StragglerStores
  <2> QED BY <2>1, <2>2
<1>7. CASE Caller \/ HelloAnswered \/ HelloTimeout \/ SendCommand \/ CommandAnswered
           \/ CommandTimeout \/ ReadResponse \/ ReadEvent \/ Server \/ Failure \/ Sidecar
           \/ UNCHANGED vars
  BY <1>1, <1>7 DEF Caller, Issue, Return, HelloAnswered, HelloTimeout, SendCommand,
                    CommandAnswered, CommandTimeout, ReadResponse, ReadEvent, Server, Accept,
                    Execute, Reply, ForwardEvent, Failure, ReplyFails, SidecarDies, Close,
                    Sidecar, SidecarStarts, Clears, Emit, vars
<1> QED BY <1>2, <1>3, <1>4, <1>5, <1>6, <1>7 DEF Next, Client, Reader

-----------------------------------------------------------------------------
(* Events *)

AnyFrame == Responses \cup Events

LEMMA PartTypes ==
    ASSUME IpcTypeOK
    PROVE  /\ relayed \in Seq(AnyFrame) /\ frames \in Seq(AnyFrame) /\ pending \in Seq(AnyFrame)
           /\ emitted \in Nat /\ since \in Nat
  BY Bounds DEF IpcTypeOK, ClientTypes, DaemonTypes, AnyFrame

LEMMA TailIs ==
    ASSUME NEW s \in Seq(AnyFrame), s # <<>>
    PROVE  /\ Tail(s) \in Seq(AnyFrame) /\ 1 \in DOMAIN s /\ Head(s) = s[1]
           /\ \A i \in DOMAIN Tail(s) :
                 i \in Nat /\ 1 < i + 1 /\ i + 1 \in DOMAIN s /\ Tail(s)[i] = s[i + 1]
           /\ \A i \in DOMAIN s : i # 1 => i - 1 \in DOMAIN Tail(s) /\ s[i] = Tail(s)[i - 1]
  OBVIOUS

LEMMA AppendIs ==
    ASSUME NEW s \in Seq(AnyFrame), NEW e \in AnyFrame
    PROVE  /\ Append(s, e) \in Seq(AnyFrame)
           /\ Len(s) + 1 \in DOMAIN Append(s, e) /\ Append(s, e)[Len(s) + 1] = e
           /\ \A i \in DOMAIN s : i \in Nat /\ i < Len(s) + 1 /\ i \in DOMAIN Append(s, e)
                                   /\ Append(s, e)[i] = s[i]
           /\ \A i \in DOMAIN Append(s, e) : i \in DOMAIN s \/ i = Len(s) + 1
  OBVIOUS

LEMMA TailOrdered ==
    ASSUME NEW s \in Seq(AnyFrame), s # <<>>, NEW t
    PROVE  /\ Ordered(s) => Ordered(Tail(s))
           /\ Before(s, t) => Before(Tail(s), t)
           /\ Before(t, s) => Before(t, Tail(s))
           /\ UpToNow(s) => UpToNow(Tail(s))
           /\ Range(s) = {Head(s)} \cup Range(Tail(s))
<1>1. Ordered(s) => Ordered(Tail(s))
  <2> SUFFICES ASSUME Ordered(s), NEW i \in DOMAIN Tail(s), NEW j \in DOMAIN Tail(s), i < j,
                      Tail(s)[i].type = "event", Tail(s)[j].type = "event"
               PROVE  Tail(s)[i].number < Tail(s)[j].number
    BY DEF Ordered
  <2>1. i + 1 \in DOMAIN s /\ j + 1 \in DOMAIN s /\ i + 1 < j + 1
        /\ Tail(s)[i] = s[i + 1] /\ Tail(s)[j] = s[j + 1]
    BY TailIs
  <2> QED BY <2>1 DEF Ordered
<1>2. (Before(s, t) => Before(Tail(s), t)) /\ (Before(t, s) => Before(t, Tail(s)))
      /\ (UpToNow(s) => UpToNow(Tail(s)))
  BY TailIs DEF Before, UpToNow
<1>3. Range(s) = {Head(s)} \cup Range(Tail(s))
  <2>1. ASSUME NEW i \in DOMAIN s PROVE s[i] \in {Head(s)} \cup Range(Tail(s))
    <3>1. CASE i = 1
      BY <3>1, TailIs
    <3>2. CASE i # 1
      BY <3>2, TailIs DEF Range
    <3> QED BY <3>1, <3>2
  <2>2. ASSUME NEW i \in DOMAIN Tail(s) PROVE Tail(s)[i] \in Range(s)
    BY TailIs DEF Range
  <2>3. Head(s) \in Range(s)
    BY TailIs DEF Range
  <2> QED BY <2>1, <2>2, <2>3 DEF Range
<1> QED BY <1>1, <1>2, <1>3

LEMMA AppendOrdered ==
    ASSUME NEW s \in Seq(AnyFrame), NEW e \in AnyFrame, NEW t
    PROVE  /\ (Ordered(s) /\ Before(s, <<e>>)) => Ordered(Append(s, e))
           /\ (Before(s, t) /\ Before(<<e>>, t)) => Before(Append(s, e), t)
           /\ (Before(t, s) /\ Before(t, <<e>>)) => Before(t, Append(s, e))
           /\ (UpToNow(s) /\ UpToNow(<<e>>)) => UpToNow(Append(s, e))
           /\ Range(Append(s, e)) = Range(s) \cup {e}
<1>1. ASSUME Ordered(s), Before(s, <<e>>) PROVE Ordered(Append(s, e))
  <2> SUFFICES ASSUME NEW i \in DOMAIN Append(s, e), NEW j \in DOMAIN Append(s, e), i < j,
                      Append(s, e)[i].type = "event", Append(s, e)[j].type = "event"
               PROVE  Append(s, e)[i].number < Append(s, e)[j].number
    BY DEF Ordered
  <2>1. i \in DOMAIN s /\ Append(s, e)[i] = s[i]
    BY AppendIs
  <2>2. CASE j \in DOMAIN s
    BY <1>1, <2>1, <2>2, AppendIs DEF Ordered
  <2>3. CASE j = Len(s) + 1
    BY <1>1, <2>1, <2>3, AppendIs DEF Before
  <2> QED BY <2>2, <2>3, AppendIs
<1>2. ASSUME Before(s, t), Before(<<e>>, t) PROVE Before(Append(s, e), t)
  BY <1>2, AppendIs DEF Before
<1>3. ASSUME Before(t, s), Before(t, <<e>>) PROVE Before(t, Append(s, e))
  BY <1>3, AppendIs DEF Before
<1>4. ASSUME UpToNow(s), UpToNow(<<e>>) PROVE UpToNow(Append(s, e))
  BY <1>4, AppendIs DEF UpToNow
<1>5. Range(Append(s, e)) = Range(s) \cup {e}
  BY AppendIs DEF Range
<1> QED BY <1>1, <1>2, <1>3, <1>4, <1>5

LEMMA HeadBefore ==
    ASSUME NEW s \in Seq(AnyFrame), s # <<>>, NEW t
    PROVE  /\ Ordered(s) => Before(<<Head(s)>>, Tail(s))
           /\ Before(s, t) => Before(<<Head(s)>>, t)
           /\ Before(t, s) => Before(t, <<Head(s)>>)
           /\ UpToNow(s) => UpToNow(<<Head(s)>>)
<1>1. ASSUME Ordered(s) PROVE Before(<<Head(s)>>, Tail(s))
  BY <1>1, TailIs DEF Ordered, Before
<1>2. Before(s, t) => Before(<<Head(s)>>, t)
  BY TailIs DEF Before
<1>3. Before(t, s) => Before(t, <<Head(s)>>)
  BY TailIs DEF Before
<1>4. UpToNow(s) => UpToNow(<<Head(s)>>)
  BY TailIs DEF UpToNow
<1> QED BY <1>1, <1>2, <1>3, <1>4

LEMMA Silent ==
    ASSUME NEW f, f.type # "event", NEW t
    PROVE  Before(<<f>>, t) /\ Before(t, <<f>>) /\ UpToNow(<<f>>)
  BY DEF Before, UpToNow

LEMMA Empty ==
    ASSUME NEW t PROVE Ordered(<<>>) /\ Before(<<>>, t) /\ Before(t, <<>>) /\ UpToNow(<<>>)
  BY DEF Ordered, Before, UpToNow

LEMMA EventStep ==
    ASSUME IpcTypeOK, FlowInv, EventInv, [Next]_vars PROVE EventInv'
<1> USE PartTypes DEF daemonVars, serverVars, wireVars, clientVars, readerVars, callVars
<1>0. \A t : emitted' = emitted => (UpToNow(t) => UpToNow(t)')
  BY DEF UpToNow
<1>1. ASSUME UNCHANGED <<relayed, frames, pending, emitted, server, since>> PROVE EventInv'
  BY <1>1 DEF EventInv, Ordered, Before, UpToNow
<1>2. ASSUME pending' = <<>>, server' # "serving", frames' \in {frames, <<>>},
             relayed' \in {relayed, <<>>}, UNCHANGED emitted
      PROVE  EventInv'
  <2>1. /\ Ordered(relayed') /\ Ordered(frames') /\ Ordered(pending')
        /\ Before(relayed', frames') /\ Before(relayed', pending') /\ Before(frames', pending')
        /\ UpToNow(relayed') /\ UpToNow(frames') /\ UpToNow(pending')
    BY <1>2, Empty DEF EventInv
  <2> QED BY <1>2, <2>1 DEF EventInv, Ordered, Before, UpToNow
<1>3. CASE Connect
  BY <1>2, <1>3 DEF Connect
<1>4. CASE SendFails \/ IdleTick
  <2>1. server = "closed" /\ pending = <<>>
    BY <1>4 DEF SendFails, IdleTick, ReaderDead, FlowInv
  <2> QED BY <1>2, <1>4, <2>1 DEF SendFails, IdleTick, Disconnect
<1>5. CASE ReplyFails \/ SidecarDies
  BY <1>2, <1>5 DEF ReplyFails, SidecarDies, Close
<1>6. CASE ReadResponse
  <2>1. frames # <<>> /\ frames' = Tail(frames) /\ Head(frames).type # "event"
        /\ UNCHANGED <<relayed, pending, emitted, server, since>>
    BY <1>6 DEF ReadResponse
  <2>2. \A n : Event(n) \in Range(frames) => Event(n) \in Range(Tail(frames))
    <3>1. Range(frames) = {Head(frames)} \cup Range(Tail(frames))
      BY <2>1, TailOrdered
    <3>2. \A n : Event(n).type = "event"
      BY DEF Event
    <3> QED BY <2>1, <3>1, <3>2
  <2>3. /\ Ordered(Tail(frames)) /\ Before(relayed, Tail(frames)) /\ Before(Tail(frames), pending)
        /\ UpToNow(Tail(frames))
    BY <2>1, TailOrdered DEF EventInv
  <2>4. (Ordered(relayed) /\ Ordered(pending) /\ Before(relayed, pending)
         /\ UpToNow(relayed) /\ UpToNow(pending))'
    BY <2>1 DEF EventInv, Ordered, Before, UpToNow
  <2>5. (Ordered(frames) /\ Before(relayed, frames) /\ Before(frames, pending) /\ UpToNow(frames))'
    BY <2>1, <2>3 DEF Ordered, Before, UpToNow
  <2>6. ((server = "serving" /\ emitted > since)
          => Event(emitted) \in Range(relayed) \cup Range(frames) \cup Range(pending))'
    BY <2>1, <2>2 DEF EventInv, Event
  <2> QED BY <2>4, <2>5, <2>6 DEF EventInv
<1>7. CASE ReadEvent
  <2>0. PICK h : h = Head(frames)
    OBVIOUS
  <2>1. frames # <<>> /\ frames' = Tail(frames) /\ h \in AnyFrame
        /\ relayed' = Append(relayed, h) /\ UNCHANGED <<pending, emitted, server, since>>
    BY <1>7, <2>0, TailIs DEF ReadEvent
  <2>2. /\ Ordered(Tail(frames)) /\ Before(Tail(frames), pending) /\ UpToNow(Tail(frames))
        /\ Before(relayed, Tail(frames)) /\ Range(frames) = {h} \cup Range(Tail(frames))
    BY <2>0, <2>1, TailOrdered DEF EventInv
  <2>3. /\ Before(<<h>>, Tail(frames)) /\ Before(<<h>>, pending) /\ Before(relayed, <<h>>)
        /\ UpToNow(<<h>>)
    BY <2>0, <2>1, HeadBefore DEF EventInv
  <2>4. /\ Ordered(Append(relayed, h)) /\ Before(Append(relayed, h), Tail(frames))
        /\ Before(Append(relayed, h), pending) /\ UpToNow(Append(relayed, h))
        /\ Range(Append(relayed, h)) = Range(relayed) \cup {h}
    <3> HIDE DEF EventInv
    <3>1. Ordered(relayed) /\ Before(relayed, pending) /\ UpToNow(relayed)
      BY DEF EventInv
    <3> QED BY <2>1, <2>2, <2>3, <3>1, AppendOrdered
  <2>5. (Ordered(relayed) /\ Ordered(frames) /\ Before(relayed, frames))'
    BY <2>1, <2>2, <2>4 DEF Ordered, Before
  <2>6. (Ordered(pending) /\ Before(relayed, pending) /\ Before(frames, pending))'
    BY <2>1, <2>2, <2>4 DEF EventInv, Ordered, Before
  <2>7. (UpToNow(relayed) /\ UpToNow(frames) /\ UpToNow(pending))'
    BY <2>1, <2>2, <2>4 DEF EventInv, UpToNow
  <2>8. ((server = "serving" /\ emitted > since)
          => Event(emitted) \in Range(relayed) \cup Range(frames) \cup Range(pending))'
    BY <2>1, <2>2, <2>4 DEF EventInv, Event
  <2> QED BY <2>5, <2>6, <2>7, <2>8 DEF EventInv
<1>8. CASE Reply
  <2>0. PICK w : w = work
    OBVIOUS
  <2>1. frames' = Append(frames, w) /\ w \in AnyFrame /\ w.type # "event"
        /\ UNCHANGED <<relayed, pending, emitted, server, since>>
    <3>1. w \in Responses
      BY <1>8, <2>0 DEF Reply, IpcTypeOK, DaemonTypes
    <3>2. w.type # "event"
      BY <3>1 DEF Responses
    <3> QED BY <1>8, <2>0, <3>1, <3>2 DEF Reply, AnyFrame
  <2>2. /\ Ordered(Append(frames, w)) /\ Before(relayed, Append(frames, w))
        /\ Before(Append(frames, w), pending) /\ UpToNow(Append(frames, w))
        /\ Range(Append(frames, w)) = Range(frames) \cup {w}
    <3>1. Ordered(frames) /\ Before(relayed, frames) /\ Before(frames, pending) /\ UpToNow(frames)
      BY DEF EventInv
    <3>2. Before(frames, <<w>>) /\ Before(relayed, <<w>>) /\ Before(<<w>>, pending) /\ UpToNow(<<w>>)
      BY <2>1, Silent
    <3> QED BY <2>1, <3>1, <3>2, AppendOrdered
  <2>3. (Ordered(relayed) /\ Ordered(pending) /\ Before(relayed, pending)
         /\ UpToNow(relayed) /\ UpToNow(pending))'
    BY <2>1 DEF EventInv, Ordered, Before, UpToNow
  <2>4. (Ordered(frames) /\ Before(relayed, frames) /\ Before(frames, pending) /\ UpToNow(frames))'
    BY <2>1, <2>2 DEF Ordered, Before, UpToNow
  <2>5. ((server = "serving" /\ emitted > since)
          => Event(emitted) \in Range(relayed) \cup Range(frames) \cup Range(pending))'
    BY <2>1, <2>2 DEF EventInv, Event
  <2> QED BY <2>3, <2>4, <2>5 DEF EventInv
<1>9. CASE ForwardEvent
  <2>0. PICK h : h = Head(pending)
    OBVIOUS
  <2>1. pending # <<>> /\ pending' = Tail(pending) /\ h \in AnyFrame
        /\ frames' = Append(frames, h) /\ UNCHANGED <<relayed, emitted, server, since>>
    BY <1>9, <2>0, TailIs DEF ForwardEvent
  <2>2. /\ Ordered(Tail(pending)) /\ Before(frames, Tail(pending)) /\ Before(relayed, Tail(pending))
        /\ UpToNow(Tail(pending)) /\ Range(pending) = {h} \cup Range(Tail(pending))
    BY <2>0, <2>1, TailOrdered DEF EventInv
  <2>3. /\ Before(<<h>>, Tail(pending)) /\ Before(relayed, <<h>>) /\ Before(frames, <<h>>)
        /\ UpToNow(<<h>>)
    BY <2>0, <2>1, HeadBefore DEF EventInv
  <2>4. /\ Ordered(Append(frames, h)) /\ Before(relayed, Append(frames, h))
        /\ Before(Append(frames, h), Tail(pending)) /\ UpToNow(Append(frames, h))
        /\ Range(Append(frames, h)) = Range(frames) \cup {h}
    <3>1. Ordered(frames) /\ Before(relayed, frames) /\ UpToNow(frames)
      BY DEF EventInv
    <3> QED BY <2>1, <2>2, <2>3, <3>1, AppendOrdered
  <2>5. (Ordered(frames) /\ Ordered(pending) /\ Before(frames, pending))'
    BY <2>1, <2>2, <2>4 DEF Ordered, Before
  <2>6. (Ordered(relayed) /\ Before(relayed, pending) /\ Before(relayed, frames))'
    BY <2>1, <2>2, <2>4 DEF EventInv, Ordered, Before
  <2>7. (UpToNow(relayed) /\ UpToNow(frames) /\ UpToNow(pending))'
    BY <2>1, <2>2, <2>4 DEF EventInv, UpToNow
  <2>8. ((server = "serving" /\ emitted > since)
          => Event(emitted) \in Range(relayed) \cup Range(frames) \cup Range(pending))'
    BY <2>1, <2>2, <2>4 DEF EventInv, Event
  <2> QED BY <2>5, <2>6, <2>7, <2>8 DEF EventInv
<1>10. CASE Accept
  <2>1. pending = <<>> /\ since' = emitted /\ UNCHANGED <<relayed, frames, pending, emitted>>
    BY <1>10 DEF Accept, FlowInv
  <2> QED BY <2>1 DEF EventInv, Ordered, Before, UpToNow
<1>11. CASE Emit
  <2>0. PICK e : e = Event(emitted + 1)
    OBVIOUS
  <2>1. /\ emitted' = emitted + 1 /\ UNCHANGED <<relayed, frames, server, since>>
        /\ e \in AnyFrame /\ e.type = "event" /\ e.number = emitted + 1
        /\ pending' = IF server = "serving" THEN Pushed(pending, e) ELSE pending
    BY <1>11, <2>0 DEF Emit, Event, AnyFrame, Events
  <2>2. \A t : UpToNow(t) /\ t \in Seq(AnyFrame) => UpToNow(t)' /\ Before(t, <<e>>)
    <3> SUFFICES ASSUME NEW t \in Seq(AnyFrame), UpToNow(t) PROVE UpToNow(t)' /\ Before(t, <<e>>)
      OBVIOUS
    <3>1. \A i \in DOMAIN t : t[i].type = "event" => t[i].number \in Nat /\ t[i].number <= emitted
      BY DEF UpToNow, AnyFrame, Responses, Events
    <3> QED BY <2>1, <3>1 DEF UpToNow, Before
  <2>3. UpToNow(<<e>>)'
    BY <2>1 DEF UpToNow
  <2>4. (UpToNow(relayed) /\ UpToNow(frames))'
    BY <2>1, <2>2 DEF EventInv, UpToNow
  <2>5. (Ordered(relayed) /\ Ordered(frames) /\ Before(relayed, frames))'
    BY <2>1 DEF EventInv, Ordered, Before
  <2>6. CASE server # "serving"
    <3>1. pending' = pending /\ server' # "serving"
      BY <2>1, <2>6
    <3>2. (Ordered(pending) /\ Before(relayed, pending) /\ Before(frames, pending))'
      BY <2>1, <3>1 DEF EventInv, Ordered, Before
    <3>3. UpToNow(pending)'
      BY <2>2, <3>1 DEF EventInv, UpToNow
    <3> QED BY <2>4, <2>5, <3>1, <3>2, <3>3 DEF EventInv
  <2>7. CASE server = "serving"
    <3>1. PICK q \in Seq(AnyFrame) :
             /\ pending' = Append(q, e)
             /\ Ordered(q) /\ Before(relayed, q) /\ Before(frames, q) /\ UpToNow(q)
      <4>1. CASE Len(pending) < EventCap
        BY <2>1, <2>7, <4>1 DEF Pushed, EventInv
      <4>2. CASE ~(Len(pending) < EventCap)
        <5>1. pending # <<>>
          BY <4>2, Bounds
        <5>2. pending' = Append(Tail(pending), e) /\ Tail(pending) \in Seq(AnyFrame)
          BY <2>1, <2>7, <4>2, <5>1, TailIs DEF Pushed
        <5>3. Ordered(Tail(pending)) /\ Before(relayed, Tail(pending)) /\ Before(frames, Tail(pending))
              /\ UpToNow(Tail(pending))
          BY <5>1, TailOrdered DEF EventInv
        <5> QED BY <5>2, <5>3
      <4> QED BY <4>1, <4>2
    <3>2. Before(q, <<e>>) /\ Before(relayed, <<e>>) /\ Before(frames, <<e>>)
      BY <2>2, <3>1 DEF EventInv
    <3>3. Ordered(Append(q, e)) /\ Before(relayed, Append(q, e)) /\ Before(frames, Append(q, e))
          /\ Range(Append(q, e)) = Range(q) \cup {e}
      BY <2>1, <3>1, <3>2, AppendOrdered
    <3>4. UpToNow(Append(q, e))'
      <4>1. UpToNow(q)' /\ Append(q, e)' = Append(q, e)
        BY <2>2, <3>1
      <4>2. \A i \in DOMAIN Append(q, e) :
               Append(q, e)[i].type = "event" => Append(q, e)[i].number <= emitted'
        BY <2>1, <4>1, AppendIs DEF UpToNow
      <4> QED BY <4>2 DEF UpToNow
    <3>5. (Ordered(pending) /\ Before(relayed, pending) /\ Before(frames, pending))'
      BY <2>1, <3>1, <3>3 DEF Ordered, Before
    <3>6. UpToNow(pending)'
      BY <3>1, <3>4 DEF UpToNow
    <3>7. Event(emitted') = e /\ e \in Range(pending')
      BY <2>0, <2>1, <3>1, <3>3 DEF Event
    <3> QED BY <2>4, <2>5, <3>5, <3>6, <3>7 DEF EventInv, Event
  <2> QED BY <2>6, <2>7
<1>12. CASE Caller \/ HelloAnswered \/ HelloTimeout \/ SendCommand \/ CommandAnswered
            \/ CommandTimeout \/ ReadEof \/ ReaderStores \/ StragglerStores \/ Execute
            \/ SidecarStarts \/ Clears \/ UNCHANGED vars
  BY <1>1, <1>12 DEF Caller, Issue, Return, HelloAnswered, HelloTimeout, SendCommand,
                     CommandAnswered, CommandTimeout, ReadEof, ReaderStores, StragglerStores,
                     Execute, SidecarStarts, Clears, vars
<1> QED BY <1>3, <1>4, <1>5, <1>6, <1>7, <1>8, <1>9, <1>10, <1>11, <1>12
        DEF Next, Client, Reader, Server, Failure, Sidecar

LEMMA EventsKept ==
    ASSUME IpcTypeOK, EventInv PROVE EventsInOrderLatestKept
<1> DEFINE a == Len(relayed)
           b == Len(relayed) + Len(frames)
<1>1. relayed \in Seq(AnyFrame) /\ frames \in Seq(AnyFrame) /\ pending \in Seq(AnyFrame)
  BY PartTypes
<1>2. /\ DOMAIN Stream = 1 .. b + Len(pending)
      /\ \A i \in DOMAIN relayed : i \in DOMAIN Stream /\ Stream[i] = relayed[i]
      /\ \A i \in DOMAIN frames : a + i \in DOMAIN Stream /\ Stream[a + i] = frames[i]
      /\ \A i \in DOMAIN pending : b + i \in DOMAIN Stream /\ Stream[b + i] = pending[i]
  BY <1>1 DEF Stream
<1>3. \A i \in DOMAIN Stream :
         \/ i \in DOMAIN relayed
         \/ i - a \in DOMAIN frames /\ i > a
         \/ i - b \in DOMAIN pending /\ i > b
  BY <1>1, <1>2
<1>4. Ordered(Stream)
  <2> SUFFICES ASSUME NEW i \in DOMAIN Stream, NEW j \in DOMAIN Stream, i < j,
                      Stream[i].type = "event", Stream[j].type = "event"
               PROVE  Stream[i].number < Stream[j].number
    BY DEF Ordered
  <2> USE DEF EventInv, Ordered, Before
  <2>0. i \in Nat /\ j \in Nat /\ a \in Nat /\ b \in Nat /\ a <= b
        /\ DOMAIN relayed = 1 .. a /\ DOMAIN frames = 1 .. Len(frames) /\ b = a + Len(frames)
        /\ Len(frames) \in Nat
    BY <1>1, <1>2
  <2>1. CASE i \in DOMAIN relayed
    <3>1. Stream[i] = relayed[i]
      BY <1>2, <2>1
    <3>2. CASE j \in DOMAIN relayed
      BY <1>2, <2>1, <3>1, <3>2
    <3>3. CASE j - a \in DOMAIN frames
      <4>1. Stream[j] = frames[j - a]
        BY <1>2, <2>0, <3>3
      <4> QED BY <2>1, <3>1, <3>3, <4>1
    <3>4. CASE j - b \in DOMAIN pending
      <4>1. Stream[j] = pending[j - b]
        BY <1>2, <2>0, <3>4
      <4> QED BY <2>1, <3>1, <3>4, <4>1
    <3> QED BY <1>3, <3>2, <3>3, <3>4
  <2>2. CASE i - a \in DOMAIN frames /\ i > a
    <3>1. Stream[i] = frames[i - a] /\ j \notin DOMAIN relayed
      BY <1>2, <2>0, <2>2
    <3>3. CASE j - a \in DOMAIN frames
      <4>1. Stream[j] = frames[j - a] /\ i - a < j - a
        BY <1>2, <2>0, <3>3
      <4> QED BY <2>2, <3>1, <3>3, <4>1
    <3>4. CASE j - b \in DOMAIN pending
      <4>1. Stream[j] = pending[j - b]
        BY <1>2, <2>0, <3>4
      <4> QED BY <2>2, <3>1, <3>4, <4>1
    <3> QED BY <1>3, <3>1, <3>3, <3>4
  <2>3. CASE i - b \in DOMAIN pending /\ i > b
    <3>1. Stream[i] = pending[i - b] /\ j \notin DOMAIN relayed /\ ~(j - a \in DOMAIN frames)
      BY <1>2, <2>0, <2>3
    <3>2. Stream[j] = pending[j - b] /\ j - b \in DOMAIN pending /\ i - b < j - b
      BY <1>2, <1>3, <2>0, <3>1
    <3> QED BY <2>3, <3>1, <3>2
  <2> QED BY <1>3, <2>1, <2>2, <2>3
<1>5. Range(relayed) \cup Range(frames) \cup Range(pending) \subseteq Range(Stream)
  BY <1>2 DEF Range
<1> QED BY <1>4, <1>5 DEF EventInv, EventsInOrderLatestKept

-----------------------------------------------------------------------------
(* What the calls know of themselves *)

(* What is due differs from what comes before it.                          *)
LEMMA NotAgain ==
    ASSUME IpcTypeOK, NEW r, NEW t, Known(r), Precedes(r, t) PROVE r # t
<1>1. PICK p \in 1 .. Len(sent) : sent[p] = r
  BY DEF Known, IpcTypeOK, ClientTypes
<1> QED BY <1>1 DEF Precedes

LEMMA CallsKeep ==
    ASSUME CallInv, UNCHANGED <<status, kind, answer, overlap>>,
           Range(requests') \cap Calls \subseteq Range(requests),
           \A c \in Calls : Known(c)' => Known(c)
    PROVE  CallInv'
  BY DEF CallInv, Own, Live, Writers, UnderWay

LEMMA CallAnswered ==
    ASSUME IpcTypeOK, CallInv, NEW c \in Calls, NEW a, status[c] \in {"queued", "sent"},
           Answered(c, a), a.how # "refused", (a.how \in {"ok", "err"} /\ a.behind = 0) => c \notin Range(requests),
           UNCHANGED sent, Range(requests') \subseteq Range(requests)
    PROVE  CallInv'
<1> USE DEF IpcTypeOK, CallTypes, Answered
<1>1. \A d \in Calls : /\ d # c => status'[d] = status[d] /\ answer'[d] = answer[d]
                        /\ status'[c] = "answered" /\ answer'[c] = a
  OBVIOUS
<1>2. \A d : Known(d)' = Known(d)
  BY DEF Known
<1>3. Live' = Live
  BY <1>1 DEF Live, Writers, UnderWay
<1>4. \A d \in Calls : status'[d] = "new" => kind'[d] = "query"
  BY <1>1 DEF CallInv
<1>5. \A d \in Calls : status'[d] \in {"new", "queued", "sent"} => answer'[d].how = "pending"
  BY <1>1 DEF CallInv
<1>6. \A d \in Calls : answer'[d].how = "refused" => status'[d] = "returned" /\ ~Known(d)'
  BY <1>1, <1>2 DEF CallInv
<1>7. \A d \in Calls : Own(d)' => d \notin Range(requests')
  BY <1>1 DEF CallInv, Own
<1>8. ~overlap' => \A d, e \in Live' : d = e
  BY <1>3 DEF CallInv
<1> QED BY <1>4, <1>5, <1>6, <1>7, <1>8 DEF CallInv

LEMMA RangeTail == ASSUME NEW S, NEW s \in Seq(S), s # <<>> PROVE Range(Tail(s)) \subseteq Range(s)
<1>1. \A i \in DOMAIN Tail(s) : i + 1 \in DOMAIN s /\ Tail(s)[i] = s[i + 1]
  OBVIOUS
<1> QED BY <1>1 DEF Range

LEMMA RangeAppend ==
    ASSUME NEW S, NEW s \in Seq(S), NEW e \in S PROVE Range(Append(s, e)) = Range(s) \cup {e}
<1>1. /\ \A i \in DOMAIN s : i \in DOMAIN Append(s, e) /\ Append(s, e)[i] = s[i]
      /\ Len(s) + 1 \in DOMAIN Append(s, e) /\ Append(s, e)[Len(s) + 1] = e
      /\ \A i \in DOMAIN Append(s, e) : i \in DOMAIN s \/ i = Len(s) + 1
  OBVIOUS
<1> QED BY <1>1 DEF Range

LEMMA NoRange == Range(<<>>) = {} /\ Range(<<Hello>>) = {Hello}
  BY DEF Range

LEMMA CallStep ==
    ASSUME IpcTypeOK, FlowInv, QueueInv, PairInv, CallInv, [Next]_vars PROVE CallInv'
<1> USE DEF daemonVars, serverVars, wireVars, clientVars, readerVars, callVars
<1>1. ASSUME NEW c \in Calls, NEW k \in Kinds, Issue(c, k) PROVE CallInv'
  <2>1. /\ status[c] = "new" /\ kind[c] = "query" /\ kind' = [kind EXCEPT ![c] = k]
        /\ answer[c].how = "pending" /\ UNCHANGED <<requests, sent>>
    BY <1>1 DEF Issue, CallInv
  <2>2. ~Known(c) /\ \A d : Known(d)' = Known(d)
    BY <2>1 DEF Known, QueueInv
  <2>3. \A d \in Calls : d # c => kind'[d] = kind[d]
    BY <2>1 DEF IpcTypeOK, CallTypes
  <2>4. kind'[c] = k
    BY <2>1 DEF IpcTypeOK, CallTypes
  <2>5. CASE Accepted(k)
    <3>1. /\ status' = [status EXCEPT ![c] = "queued"] /\ answer' = answer
          /\ overlap' = (overlap \/ (k # "query" /\ UnderWay \cap Writers # {}))
      BY <1>1, <2>5 DEF Issue
    <3>2. status'[c] = "queued" /\ \A d \in Calls : d # c => status'[d] = status[d]
      BY <3>1 DEF IpcTypeOK, CallTypes
    <3>3. Live' \subseteq Live \cup (IF k = "query" THEN {} ELSE {c})
      BY <2>3, <2>4, <3>2 DEF Live, Writers, UnderWay
    <3>4. ~overlap' => \A d, e \in Live' : d = e
      BY <3>1, <3>3 DEF CallInv, Live
    <3>5. /\ \A d \in Calls : status'[d] = "new" => kind'[d] = "query"
          /\ \A d \in Calls : status'[d] \in {"new", "queued", "sent"} => answer'[d].how = "pending"
      BY <2>1, <2>3, <3>1, <3>2 DEF CallInv
    <3>6. \A d \in Calls : answer'[d].how = "refused" => status'[d] = "returned" /\ ~Known(d)'
      BY <2>1, <2>2, <3>1, <3>2 DEF CallInv
    <3>7. \A d \in Calls : Own(d)' => d \notin Range(requests')
      BY <2>1, <3>1 DEF CallInv, Own
    <3> QED BY <3>4, <3>5, <3>6, <3>7 DEF CallInv
  <2>6. CASE ~Accepted(k)
    <3>1. /\ status' = [status EXCEPT ![c] = "returned"] /\ overlap' = overlap
          /\ answer' = [answer EXCEPT ![c] = [how |-> "refused"]]
      BY <1>1, <2>6 DEF Issue
    <3>2. status'[c] = "returned" /\ answer'[c].how = "refused"
          /\ \A d \in Calls : d # c => status'[d] = status[d] /\ answer'[d] = answer[d]
      BY <3>1 DEF IpcTypeOK, CallTypes
    <3>3. Live' \subseteq Live
      BY <2>3, <3>2 DEF Live, Writers, UnderWay
    <3>4. ~overlap' => \A d, e \in Live' : d = e
      BY <3>1, <3>3 DEF CallInv
    <3>5. /\ \A d \in Calls : status'[d] = "new" => kind'[d] = "query"
          /\ \A d \in Calls : status'[d] \in {"new", "queued", "sent"} => answer'[d].how = "pending"
      BY <2>3, <3>2 DEF CallInv
    <3>6. \A d \in Calls : answer'[d].how = "refused" => status'[d] = "returned" /\ ~Known(d)'
      BY <2>2, <3>2 DEF CallInv
    <3>7. \A d \in Calls : Own(d)' => d \notin Range(requests')
      BY <2>1, <3>2 DEF CallInv, Own
    <3> QED BY <3>4, <3>5, <3>6, <3>7 DEF CallInv
  <2> QED BY <2>5, <2>6
<1>2. ASSUME NEW c \in Calls, Return(c) PROVE CallInv'
  <2>1. status[c] = "answered" /\ status' = [status EXCEPT ![c] = "returned"]
        /\ UNCHANGED <<kind, answer, overlap, requests, sent>>
    BY <1>2 DEF Return
  <2>2. status'[c] = "returned" /\ \A d \in Calls : d # c => status'[d] = status[d]
    BY <2>1 DEF IpcTypeOK, CallTypes
  <2>3. Live' \subseteq Live
    BY <2>1, <2>2 DEF Live, Writers, UnderWay
  <2>4. \A d : Known(d)' = Known(d) /\ (d \in Calls => Own(d)' = Own(d))
    BY <2>1 DEF Known, Own
  <2> QED BY <2>1, <2>2, <2>3, <2>4 DEF CallInv
<1>3. CASE SendCommand
  <2>0. PICK h : h = Head(queue)
    OBVIOUS
  <2>1. /\ h \in Calls /\ status[h] = "queued" /\ status' = [status EXCEPT ![h] = "sent"]
        /\ requests' = Append(requests, h) /\ sent' = Append(sent, h)
        /\ UNCHANGED <<kind, answer, overlap>>
    BY <1>3, <2>0 DEF SendCommand, QueueInv, IpcTypeOK, CallTypes
  <2>2. status'[h] = "sent" /\ \A d \in Calls : d # h => status'[d] = status[d]
    BY <2>1 DEF IpcTypeOK, CallTypes
  <2>3. Live' = Live
    BY <2>1, <2>2 DEF Live, Writers, UnderWay
  <2>4. \A d \in Calls : d # h => (Known(d)' => Known(d))
    BY <2>1 DEF Known, IpcTypeOK, ClientTypes
  <2>5. h \in Requests /\ requests \in Seq(Requests)
    BY <2>1 DEF Requests, IpcTypeOK, DaemonTypes
  <2>6. Range(requests') = Range(requests) \cup {h}
    BY <2>1, <2>5, RangeAppend
  <2>7. answer[h].how = "pending"
    BY <2>1 DEF CallInv
  <2>8. /\ \A d \in Calls : status'[d] = "new" => kind'[d] = "query"
        /\ \A d \in Calls : status'[d] \in {"new", "queued", "sent"} => answer'[d].how = "pending"
    BY <2>1, <2>2, <2>7 DEF CallInv
  <2>9. \A d \in Calls : answer'[d].how = "refused" => status'[d] = "returned" /\ ~Known(d)'
    BY <2>1, <2>2, <2>4, <2>7 DEF CallInv
  <2>10. \A d \in Calls : Own(d)' => d \notin Range(requests')
    BY <2>1, <2>6, <2>7 DEF CallInv, Own
  <2> QED BY <2>1, <2>3, <2>8, <2>9, <2>10 DEF CallInv
<1>4. CASE CommandAnswered
  <2>1. /\ current \in Calls /\ status[current] = "sent" /\ Response(received)
        /\ link = "await" /\ UNCHANGED <<kind, overlap, sent, requests>>
    BY <1>4, Shapes DEF CommandAnswered, Answered, QueueInv, IpcTypeOK, ClientTypes
  <2>2. Behind(current, received.to) = 0 => current \notin Range(requests)
    <3> SUFFICES ASSUME Behind(current, received.to) = 0, NEW j \in DOMAIN requests
                 PROVE  requests[j] # current
      BY DEF Range
    <3>1. received.to = current
      BY <2>1, BehindIs
    <3>2. Known(received.to) /\ Precedes(received.to, requests[j])
      BY <2>1 DEF PairInv, DueReceived
    <3> QED BY <3>1, <3>2, NotAgain
  <2>3. PICK a : a = [how |-> IF received.ok THEN "ok" ELSE "err",
                       behind |-> Behind(current, received.to), gaveUp |-> gaveUp]
    OBVIOUS
  <2>4. PICK c : c = current
    OBVIOUS
  <2>5. Answered(c, a)
    BY <1>4, <2>3, <2>4 DEF CommandAnswered
  <2>6. a.how # "refused" /\ (a.behind = 0 => c \notin Range(requests))
    BY <2>2, <2>3, <2>4
  <2> QED BY <2>1, <2>4, <2>5, <2>6, CallAnswered
<1>5. CASE CommandTimeout
  <2>1. PICK c : c = current
    OBVIOUS
  <2>2. PICK a : a = [how |-> "timeout"]
    OBVIOUS
  <2>3. c \in Calls /\ status[c] = "sent" /\ Answered(c, a) /\ UNCHANGED <<sent, requests>>
    BY <1>5, <2>1, <2>2 DEF CommandTimeout, QueueInv, IpcTypeOK, ClientTypes
  <2>4. a.how # "refused" /\ a.how \notin {"ok", "err"} /\ Range(requests') \subseteq Range(requests)
    BY <2>2, <2>3
  <2> QED BY <2>3, <2>4, CallAnswered
<1>6. CASE SendFails
  <2>1. PICK c : c = Head(queue)
    OBVIOUS
  <2>2. PICK a : a = [how |-> "failed"]
    OBVIOUS
  <2>3. c \in Calls /\ status[c] = "queued" /\ Answered(c, a) /\ sent' = sent /\ requests' = <<>>
    BY <1>6, <2>1, <2>2 DEF SendFails, Disconnect, QueueInv, IpcTypeOK, CallTypes
  <2>4. a.how # "refused" /\ a.how \notin {"ok", "err"} /\ Range(requests') \subseteq Range(requests)
    BY <2>2, <2>3, NoRange
  <2> QED BY <2>3, <2>4, CallAnswered
<1>7. CASE Connect
  <2>1. \A c \in Calls : ~Known(c)'
    BY <1>7, Bounds DEF Connect, Known
  <2> QED BY <1>7, <2>1, CallsKeep, NoRange, Bounds DEF Connect
<1>8. ASSUME UNCHANGED <<status, kind, answer, overlap, sent>>,
             Range(requests') \subseteq Range(requests)
      PROVE  CallInv'
  <2>1. \A c \in Calls : Known(c)' => Known(c)
    BY <1>8 DEF Known
  <2> QED BY <1>8, <2>1, CallsKeep
<1>9. CASE IdleTick \/ ReplyFails \/ SidecarDies
  BY <1>8, <1>9, NoRange DEF IdleTick, Disconnect, ReplyFails, SidecarDies, Close
<1>10. CASE Execute
  <2>1. Range(Tail(requests)) \subseteq Range(requests)
    BY <1>10, RangeTail DEF Execute, IpcTypeOK, DaemonTypes
  <2> QED BY <1>8, <1>10, <2>1 DEF Execute
<1>11. CASE HelloAnswered \/ HelloTimeout \/ Reader \/ Accept \/ Reply \/ ForwardEvent
            \/ Sidecar \/ UNCHANGED vars
  BY <1>8, <1>11 DEF HelloAnswered, HelloTimeout, Reader, ReadResponse, ReadEvent, ReadEof,
                     ReaderStores, StragglerStores, Accept, Reply, ForwardEvent, Sidecar,
                     SidecarStarts, Clears, Emit, vars
<1> QED BY <1>1, <1>2, <1>3, <1>4, <1>5, <1>6, <1>7, <1>9, <1>10, <1>11
        DEF Next, Caller, Client, Server, Failure

-----------------------------------------------------------------------------
(* The mirror *)

(* A step of the client, the reader or the wire that leaves the callers and *)
(* the daemon alone may only lose responses, or hand one to its call.      *)
LEMMA MirrorKeeps ==
    ASSUME IpcTypeOK, CallInv, MirrorInv, UNCHANGED <<kind, overlap, mirror>>, Asked' = Asked,
           \A c \in Calls : (status[c] = "returned") = (status'[c] = "returned"),
           \A c \in Calls : (status[c] = "new") = (status'[c] = "new"),
           \A c \in Calls : status[c] = "returned" => answer'[c] = answer[c],
           Around' \subseteq Around,
           \A w \in Live : Undone(w)' => Undone(w),
           \A w \in Live : Own(w)' =>
              \/ answer'[w] = answer[w]
              \/ \E r \in Around : r.to = w /\ r.ok = (answer'[w].how = "ok")
    PROVE  MirrorInv'
<1> SUFFICES ASSUME ~overlap', Past'
             PROVE  /\ ((\A w \in Live : Undone(w)) => Agrees)'
                    /\ (\A w \in Live, r \in Around : r.to = w => Effect(w, r.ok))'
                    /\ (\A w \in Live : Own(w) => Effect(w, answer[w].how = "ok"))'
  BY DEF MirrorInv
<1>1. Writers' = Writers /\ Live' = Live
  BY DEF Live, Writers, UnderWay
<1>2. Writers \subseteq Calls /\ Live \subseteq Calls
  BY DEF Live, Writers
<1>3. Exists' = Exists
  BY <1>1, <1>2 DEF Exists
<1>4. ~overlap /\ Past
  BY <1>1, <1>2 DEF Past, Conclusive
<1>5. Agrees' = Agrees
  BY <1>3 DEF Agrees
<1>6. \A w \in Calls, o \in BOOLEAN : Effect(w, o)' = Effect(w, o)
  BY <1>5 DEF Effect
<1>7. /\ (\A w \in Live : Undone(w)) => Agrees
      /\ \A w \in Live, r \in Around : r.to = w => Effect(w, r.ok)
      /\ \A w \in Live : Own(w) => Effect(w, answer[w].how = "ok")
  BY <1>4 DEF MirrorInv
<1>8. ((\A w \in Live : Undone(w)) => Agrees)'
  BY <1>1, <1>5, <1>7
<1>9. \A r \in Around : r.ok \in BOOLEAN
  <2>1. \A r \in Around : r \in Responses \cup Events \/ r = NoFrame
    BY DEF Around, Range, IpcTypeOK, DaemonTypes, ClientTypes
  <2> QED BY <2>1, Shapes DEF Around
<1>10. (\A w \in Live, r \in Around : r.to = w => Effect(w, r.ok))'
  <2> SUFFICES ASSUME NEW w \in Live, NEW r \in Around, r.to = w PROVE Effect(w, r.ok)'
    BY <1>1
  <2> QED BY <1>2, <1>6, <1>7, <1>9
<1>11. (\A w \in Live : Own(w) => Effect(w, answer[w].how = "ok"))'
  <2> SUFFICES ASSUME NEW w \in Live, Own(w)' PROVE Effect(w, answer[w].how = "ok")'
    BY <1>1
  <2>1. PICK o \in BOOLEAN : o = (answer'[w].how = "ok")
    OBVIOUS
  <2>2. Effect(w, o)
    <3>1. CASE answer'[w] = answer[w]
      BY <1>7, <2>1, <3>1 DEF Own
    <3>2. CASE \E r \in Around : r.to = w /\ r.ok = o
      BY <1>7, <3>2
    <3> QED BY <2>1, <3>1, <3>2
  <2>3. Effect(w, o)'
    BY <1>2, <1>6, <2>2
  <2> QED BY <2>1, <2>3 DEF Effect
<1> QED BY <1>8, <1>10, <1>11

LEMMA MirrorIssue ==
    ASSUME IpcTypeOK, QueueInv, PairInv, CallInv, MirrorInv, NEW c \in Calls, NEW k \in Kinds, Issue(c, k)
    PROVE  MirrorInv'
<1> USE DEF daemonVars, serverVars, wireVars, clientVars, readerVars
<1> SUFFICES ASSUME ~overlap', Past'
             PROVE  /\ ((\A w \in Live : Undone(w)) => Agrees)'
                    /\ (\A w \in Live, r \in Around : r.to = w => Effect(w, r.ok))'
                    /\ (\A w \in Live : Own(w) => Effect(w, answer[w].how = "ok"))'
  BY DEF MirrorInv
<1>1. /\ status[c] = "new" /\ kind[c] = "query" /\ kind' = [kind EXCEPT ![c] = k]
      /\ answer[c].how = "pending"
      /\ UNCHANGED <<requests, frames, work, received, sent, mirror, desired, strayed>>
  BY DEF Issue, CallInv
<1>2. kind'[c] = k /\ \A d \in Calls : d # c => kind'[d] = kind[d]
  BY <1>1 DEF IpcTypeOK, CallTypes
<1>3. /\ \A d \in Calls : d # c => status'[d] = status[d] /\ answer'[d] = answer[d]
      /\ status'[c] \in {"queued", "returned"}
      /\ status'[c] = "returned" => answer'[c].how = "refused"
      /\ status'[c] = "queued" => answer'[c] = answer[c]
  <2>1. CASE Accepted(k)
    BY <2>1 DEF Issue, IpcTypeOK, CallTypes
  <2>2. CASE ~Accepted(k)
    BY <2>2 DEF Issue, IpcTypeOK, CallTypes
  <2> QED BY <2>1, <2>2
<1>4. overlap' = (overlap \/ (status'[c] = "queued" /\ k # "query" /\ Live # {}))
  <2>1. CASE Accepted(k)
    BY <2>1 DEF Issue, Live, IpcTypeOK, CallTypes
  <2>2. CASE ~Accepted(k)
    BY <2>2 DEF Issue, IpcTypeOK, CallTypes
  <2> QED BY <2>1, <2>2
<1>5. Live \subseteq Calls /\ c \notin Live /\ Writers \subseteq Calls /\ c \notin Writers
      /\ Live \subseteq Writers
  BY <1>1 DEF Live, Writers, UnderWay
<1>6. /\ Writers' \subseteq Writers \cup {c} /\ Writers \subseteq Writers'
      /\ c \in Writers' => k # "query"
  BY <1>1, <1>2 DEF Writers
<1>7. /\ Live \subseteq Live' /\ Live' \subseteq Live \cup {c}
      /\ c \in Live' => status'[c] = "queued" /\ k # "query"
  BY <1>2, <1>3, <1>5, <1>6 DEF Live, Writers, UnderWay
<1>8. ~overlap /\ (c \in Live' => Live = {})
  BY <1>4, <1>7
<1>9. \A d \in Writers : status[d] = "returned" => Conclusive(d)
  <2> SUFFICES ASSUME NEW d \in Writers, status[d] = "returned" PROVE Conclusive(d)
    OBVIOUS
  <2>1. d # c /\ d \in Calls /\ d \in Writers' /\ status'[d] = "returned" /\ answer'[d] = answer[d]
    BY <1>3, <1>5, <1>6
  <2>2. Conclusive(d)'
    BY <2>1 DEF Past
  <2> QED BY <2>1, <2>2 DEF Conclusive
<1>10. Exists' = Exists
  BY <1>1, <1>3, <1>5, <1>6 DEF Exists
<1>11. Agrees' = Agrees
  BY <1>1, <1>10 DEF Agrees, Asked
<1>12. /\ (\A w \in Live : Undone(w)) => Agrees
       /\ \A w \in Live, r \in Around : r.to = w => Effect(w, r.ok)
       /\ \A w \in Live : Own(w) => Effect(w, answer[w].how = "ok")
  BY <1>8, <1>9 DEF MirrorInv, Past
<1>13. ((\A w \in Live : Undone(w)) => Agrees)'
  <2> SUFFICES ASSUME \A w \in Live' : Undone(w)' PROVE Agrees
    BY <1>11
  <2>1. \A w \in Live : Undone(w)
    BY <1>1, <1>3, <1>5, <1>7 DEF Undone
  <2> QED BY <1>12, <2>1
<1>14. Around' = Around
  BY <1>1 DEF Around, Response
<1>15. \A r \in Around : r.to # c
  <2>1. ~Known(c)
    BY <1>1 DEF Known, QueueInv
  <2>2. \A r \in Around : Known(r.to)
    BY DEF Around, Range, PairInv, DueFrames, DueWork, DueReceived
  <2> QED BY <2>1, <2>2
<1>16. \A w \in Live : \A o : Effect(w, o) => Effect(w, o)'
  BY <1>1, <1>2, <1>5, <1>11 DEF Effect, Asked
<1>17. (\A w \in Live, r \in Around : r.to = w => Effect(w, r.ok))'
  <2> SUFFICES ASSUME NEW w \in Live', NEW r \in Around, r.to = w PROVE Effect(w, r.ok)'
    BY <1>14
  <2>1. w \in Live
    BY <1>7, <1>15
  <2> QED BY <1>12, <1>16, <2>1
<1>18. (\A w \in Live : Own(w) => Effect(w, answer[w].how = "ok"))'
  <2> SUFFICES ASSUME NEW w \in Live', Own(w)' PROVE Effect(w, answer[w].how = "ok")'
    OBVIOUS
  <2>1. w # c
    BY <1>1, <1>3, <1>7 DEF Own
  <2>2. w \in Live /\ answer'[w] = answer[w]
    BY <1>3, <1>5, <1>7, <2>1
  <2>3. PICK o : o = (answer[w].how = "ok")
    OBVIOUS
  <2>4. Effect(w, o)'
    BY <1>12, <1>16, <2>2, <2>3 DEF Own
  <2> QED BY <2>2, <2>3, <2>4
<1> QED BY <1>13, <1>17, <1>18

LEMMA MirrorReturn ==
    ASSUME IpcTypeOK, CallInv, MirrorInv, NEW c \in Calls, Return(c) PROVE MirrorInv'
<1> USE DEF daemonVars, serverVars, wireVars, clientVars, readerVars
<1> SUFFICES ASSUME ~overlap', Past'
             PROVE  /\ ((\A w \in Live : Undone(w)) => Agrees)'
                    /\ (\A w \in Live, r \in Around : r.to = w => Effect(w, r.ok))'
                    /\ (\A w \in Live : Own(w) => Effect(w, answer[w].how = "ok"))'
  BY DEF MirrorInv
<1>1. /\ status[c] = "answered" /\ status' = [status EXCEPT ![c] = "returned"]
      /\ UNCHANGED <<kind, answer, overlap, requests, frames, work, received, desired, strayed>>
      /\ mirror' = Mirrored(c)
  BY DEF Return
<1>2. status'[c] = "returned" /\ \A d \in Calls : d # c => status'[d] = status[d]
  BY <1>1 DEF IpcTypeOK, CallTypes
<1>3. Writers' = Writers /\ Writers \subseteq Calls /\ Live' = Live \ {c} /\ (c \in Live <=> c \in Writers)
  BY <1>1, <1>2 DEF Live, Writers, UnderWay
<1>4. ~overlap /\ Past
  <2>1. \A d \in Writers : status[d] = "returned" => d # c /\ Conclusive(d)' /\ answer'[d] = answer[d]
    BY <1>1, <1>2, <1>3 DEF Past
  <2>2. \A d \in Writers : Conclusive(d)' = Conclusive(d)
    BY <1>1 DEF Conclusive
  <2> QED BY <1>1, <2>1, <2>2 DEF Past
<1>5. /\ (\A w \in Live : Undone(w)) => Agrees
      /\ \A w \in Live, r \in Around : r.to = w => Effect(w, r.ok)
      /\ \A w \in Live : Own(w) => Effect(w, answer[w].how = "ok")
  BY <1>4 DEF MirrorInv
<1>6. Around' = Around
  BY <1>1 DEF Around, Response
<1>7. CASE c \notin Writers
  <2>1. mirror' = mirror /\ Live' = Live
    BY <1>1, <1>3, <1>7 DEF Mirrored, Writers
  <2>2. Exists' = Exists
    BY <1>1, <1>2, <1>3, <1>7 DEF Exists
  <2>3. Agrees' = Agrees
    BY <1>1, <2>1, <2>2 DEF Agrees, Asked
  <2>4. \A w, o : Effect(w, o)' = Effect(w, o)
    BY <1>1, <2>3 DEF Effect, Asked
  <2>5. \A w \in Live : Undone(w)' => Undone(w)
    BY <1>1, <1>2, <1>3, <1>7 DEF Undone, Live
  <2>6. \A w \in Live : Own(w)' = Own(w)
    BY <1>1 DEF Own
  <2>7. ((\A w \in Live : Undone(w)) => Agrees)'
    BY <1>5, <2>1, <2>3, <2>5
  <2>8. (\A w \in Live, r \in Around : r.to = w => Effect(w, r.ok))'
    BY <1>5, <1>6, <2>1, <2>4
  <2>9. (\A w \in Live : Own(w) => Effect(w, answer[w].how = "ok"))'
    <3> SUFFICES ASSUME NEW w \in Live, Own(w) PROVE Effect(w, answer[w].how = "ok")'
      BY <2>1, <2>6
    <3>1. PICK o : o = (answer[w].how = "ok")
      OBVIOUS
    <3>2. Effect(w, o)'
      BY <1>5, <2>4, <3>1
    <3> QED BY <1>1, <3>1, <3>2
  <2> QED BY <2>7, <2>8, <2>9
<1>8. CASE c \in Writers
  <2>1. Live = {c} /\ Live' = {}
    BY <1>3, <1>4, <1>8 DEF CallInv
  <2>2. Own(c)
    <3>1. Conclusive(c)'
      BY <1>2, <1>3, <1>8 DEF Past
    <3>2. answer[c].how # "refused"
      BY <1>1 DEF CallInv
    <3> QED BY <1>1, <3>1, <3>2 DEF Conclusive, Own
  <2>3. Effect(c, answer[c].how = "ok")
    BY <1>5, <2>1, <2>2
  <2>4. Agrees'
    <3>1. CASE answer[c].how = "ok"
      <4>1. Asked <=> kind[c] = "start"
        BY <2>3, <3>1 DEF Effect, Asked
      <4>2. mirror' = (kind[c] = "start")
        BY <1>1, <1>8, <3>1 DEF Mirrored, Writers
      <4> QED BY <1>1, <4>1, <4>2 DEF Agrees, Asked
    <3>2. CASE answer[c].how # "ok"
      <4>1. Agrees
        BY <2>3, <3>2 DEF Effect, Asked
      <4>2. Exists' => Exists
        BY <1>1, <1>2, <1>3, <3>2 DEF Exists
      <4>3. mirror' = mirror
        BY <1>1, <2>2, <3>2 DEF Mirrored
      <4> QED BY <1>1, <4>1, <4>2, <4>3 DEF Agrees, Asked
    <3> QED BY <3>1, <3>2
  <2> QED BY <2>1, <2>4
<1> QED BY <1>7, <1>8

LEMMA MirrorExecute ==
    ASSUME IpcTypeOK, QueueInv, PairInv, CallInv, MirrorInv, Execute PROVE MirrorInv'
<1> USE DEF serverVars, clientVars, callVars
<1> SUFFICES ASSUME ~overlap', Past'
             PROVE  /\ ((\A w \in Live : Undone(w)) => Agrees)'
                    /\ (\A w \in Live, r \in Around : r.to = w => Effect(w, r.ok))'
                    /\ (\A w \in Live : Own(w) => Effect(w, answer[w].how = "ok"))'
  BY DEF MirrorInv
<1>0. PICK h : h = Head(requests)
  OBVIOUS
<1>1. PICK ok \in BOOLEAN :
         /\ requests # <<>> /\ requests' = Tail(requests) /\ work = NoFrame
         /\ work' = [type |-> "response", to |-> h, ok |-> ok]
         /\ IF ok /\ Changes(h) THEN Saved(kind[h] = "start")
            ELSE UNCHANGED <<desired, strayed>>
         /\ UNCHANGED <<status, kind, answer, overlap, mirror, frames, received, sent>>
  BY <1>0 DEF Execute, Changes
<1>2. h = requests[1] /\ 1 \in DOMAIN requests /\ requests \in Seq(Requests) /\ h \in Requests
  BY <1>0, <1>1 DEF IpcTypeOK, DaemonTypes
<1>3. Range(requests') \subseteq Range(requests)
  BY <1>1, <1>2, RangeTail
<1>4. Live' = Live /\ Writers' = Writers /\ Live \subseteq Calls /\ Live \subseteq Writers
  BY <1>1 DEF Live, Writers, UnderWay
<1>5. Exists' = Exists /\ ~overlap /\ Past
  BY <1>1, <1>4 DEF Exists, Past, Conclusive
<1>6. /\ (\A w \in Live : Undone(w)) => Agrees
      /\ \A w \in Live, r \in Around : r.to = w => Effect(w, r.ok)
      /\ \A w \in Live : Own(w) => Effect(w, answer[w].how = "ok")
  BY <1>5 DEF MirrorInv
<1>7. Around' \subseteq Around \cup {work'} /\ work'.to = h /\ work'.ok = ok
  BY <1>1 DEF Around, Response
<1>8. \A w : Undone(w)' => Undone(w)
  BY <1>1, <1>3 DEF Undone
<1>9. \A w : Own(w)' = Own(w)
  BY <1>1 DEF Own
<1>10. CASE ~Changes(h)
  <2>1. h \notin Live /\ desired' = desired /\ strayed' = strayed
    BY <1>1, <1>10 DEF Live, Writers, Changes
  <2>2. Agrees' = Agrees
    BY <1>1, <1>5, <2>1 DEF Agrees, Asked
  <2>3. \A w, o : Effect(w, o)' = Effect(w, o)
    BY <1>1, <2>1, <2>2 DEF Effect, Asked
  <2>4. ((\A w \in Live : Undone(w)) => Agrees)'
    BY <1>4, <1>6, <1>8, <2>2
  <2>5. (\A w \in Live, r \in Around : r.to = w => Effect(w, r.ok))'
    <3> SUFFICES ASSUME NEW w \in Live, NEW r \in Around', r.to = w PROVE Effect(w, r.ok)'
      BY <1>4
    <3>1. r \in Around
      BY <1>7, <2>1
    <3> QED BY <1>6, <2>3, <3>1
  <2>6. (\A w \in Live : Own(w) => Effect(w, answer[w].how = "ok"))'
    <3> SUFFICES ASSUME NEW w \in Live, Own(w) PROVE Effect(w, answer[w].how = "ok")'
      BY <1>4, <1>9
    <3>1. PICK o : o = (answer[w].how = "ok")
      OBVIOUS
    <3>2. Effect(w, o)'
      BY <1>6, <2>3, <3>1
    <3> QED BY <1>1, <3>1, <3>2
  <2> QED BY <2>4, <2>5, <2>6
<1>11. CASE Changes(h)
  <2>1. h \in Writers /\ h \in Calls /\ h \in Range(requests)
    BY <1>2, <1>11 DEF Changes, Writers, Range
  <2>2. Known(h) /\ \A j \in DOMAIN requests : 1 < j => Precedes(h, requests[j])
    BY <1>2 DEF PairInv, DueRequests
  <2>3. ~Own(h) /\ answer[h].how # "refused"
    BY <2>1, <2>2 DEF CallInv
  <2>4. status[h] \in {"sent", "answered"}
    <3>1. status[h] \in {"sent", "answered", "returned"}
      BY <2>1, <2>2 DEF QueueInv, Known
    <3>2. status[h] # "returned"
      BY <1>5, <2>1, <2>3 DEF Past, Conclusive, Own
    <3> QED BY <3>1, <3>2
  <2>5. Live = {h}
    <3>1. h \in Live
      BY <2>1, <2>4 DEF Live, UnderWay
    <3> QED BY <1>5, <3>1 DEF CallInv
  <2>6. Agrees
    BY <1>6, <2>1, <2>5 DEF Undone
  <2>7. h \notin Range(requests')
    <3> SUFFICES ASSUME NEW i \in DOMAIN requests', requests'[i] = h PROVE FALSE
      BY DEF Range
    <3>1. i + 1 \in DOMAIN requests /\ requests[i + 1] = h /\ 1 < i + 1
      BY <1>1, <1>2
    <3> QED BY <2>2, <3>1, NotAgain
  <2>8. ~Undone(h)'
    BY <1>1, <2>4, <2>7 DEF Undone
  <2>9. \A r \in Around : r.to # h
    <3> SUFFICES ASSUME NEW r \in Around PROVE r.to # h
      OBVIOUS
    <3>1. r \in Range(frames) \/ r = received
      BY <1>1, Shapes DEF Around
    <3>2. Known(r.to) /\ Precedes(r.to, requests[1])
      <4>1. CASE r = received
        BY <1>2, <4>1 DEF Around, PairInv, DueReceived
      <4>2. CASE r \in Range(frames)
        <5>1. PICK i \in DOMAIN frames : r = frames[i]
          BY <4>2 DEF Range
        <5> QED BY <1>2, <5>1 DEF Around, PairInv, DueFrames
      <4> QED BY <3>1, <4>1, <4>2
    <3> QED BY <1>2, <3>2, NotAgain
  <2>10. Effect(h, ok)'
    <3>1. CASE ok = TRUE
      <4>1. Saved(kind[h] = "start")
        BY <1>1, <1>11, <3>1
      <4>2. Asked' <=> kind[h] = "start"
        BY <4>1 DEF Saved, Asked, IpcTypeOK, DaemonTypes
      <4> QED BY <1>1, <3>1, <4>2 DEF Effect
    <3>2. CASE ok = FALSE
      <4>1. desired' = desired /\ strayed' = strayed
        BY <1>1, <3>2
      <4>2. Agrees'
        BY <1>1, <1>5, <2>6, <4>1 DEF Agrees, Asked
      <4> QED BY <3>2, <4>2 DEF Effect, Asked
    <3> QED BY <3>1, <3>2
  <2>11. (\A w \in Live, r \in Around : r.to = w => Effect(w, r.ok))'
    <3> SUFFICES ASSUME NEW r \in Around', r.to = h PROVE Effect(h, r.ok)'
      BY <1>4, <2>5
    <3>1. r = work' /\ r.ok = ok
      BY <1>7, <2>9
    <3> QED BY <2>10, <3>1
  <2>12. (\A w \in Live : Own(w) => Effect(w, answer[w].how = "ok"))'
    BY <1>4, <1>9, <2>3, <2>5
  <2>13. ((\A w \in Live : Undone(w)) => Agrees)'
    BY <1>4, <2>5, <2>8
  <2> QED BY <2>11, <2>12, <2>13
<1> QED BY <1>10, <1>11

LEMMA MirrorQuiet ==
    ASSUME IpcTypeOK, CallInv, MirrorInv, UNCHANGED <<status, kind, answer, overlap, mirror>>,
           Asked' = Asked,
           Around' \subseteq Around, Range(requests') \cap Calls \subseteq Range(requests)
    PROVE  MirrorInv'
<1>1. \A w \in Live : w \in Calls /\ (Undone(w)' => Undone(w))
  BY DEF Undone, Live, Writers
<1> QED BY <1>1, MirrorKeeps

(* An answer is the response at hand, or none.                             *)
LEMMA MirrorAnswered ==
    ASSUME IpcTypeOK, CallInv, MirrorInv, NEW c \in Calls, NEW a, status[c] \in {"queued", "sent"},
           Answered(c, a), desired' = desired, strayed' = strayed,
           (a.how \in {"ok", "err"} /\ a.behind = 0)
              => Response(received) /\ received.to = c /\ received.ok = (a.how = "ok"),
           Around' \subseteq Around, Range(requests') \subseteq Range(requests)
    PROVE  MirrorInv'
<1> USE DEF Answered, IpcTypeOK, CallTypes, Asked
<1>1. /\ \A d \in Calls : d # c => status'[d] = status[d] /\ answer'[d] = answer[d]
      /\ status'[c] = "answered" /\ answer'[c] = a
  OBVIOUS
<1>2. /\ \A d \in Calls : (status[d] = "returned") = (status'[d] = "returned")
      /\ \A d \in Calls : (status[d] = "new") = (status'[d] = "new")
      /\ \A d \in Calls : status[d] = "returned" => answer'[d] = answer[d]
  BY <1>1
<1>3. \A w \in Live : Undone(w)' => Undone(w)
  BY <1>1 DEF Undone, Live, Writers
<1>4. \A w \in Live : Own(w)' =>
         \/ answer'[w] = answer[w]
         \/ \E r \in Around : r.to = w /\ r.ok = (answer'[w].how = "ok")
  <2> SUFFICES ASSUME Own(c)' PROVE \E r \in Around : r.to = c /\ r.ok = (answer'[c].how = "ok")
    BY <1>1 DEF Live, Writers
  <2>1. Response(received) /\ received.to = c /\ received.ok = (a.how = "ok")
    BY <1>1 DEF Own
  <2>2. received \in Around
    BY <2>1 DEF Around
  <2> QED BY <1>1, <2>1, <2>2
<1>5. UNCHANGED <<kind, overlap, mirror>> /\ Asked' = Asked
  OBVIOUS
<1> HIDE DEF Answered, IpcTypeOK, CallTypes, Asked
<1> QED BY <1>2, <1>3, <1>4, <1>5, MirrorKeeps

LEMMA MirrorStep ==
    ASSUME IpcTypeOK, FlowInv, QueueInv, PairInv, CallInv, MirrorInv, [Next]_vars PROVE MirrorInv'
<1> USE DEF Asked, daemonVars, serverVars, wireVars, clientVars, readerVars, callVars
<1>0. \A S \in SUBSET (Range(frames) \cup {work, received, NoFrame}) :
         {f \in S : Response(f)} \subseteq Around
  BY Shapes DEF Around
<1>1. ASSUME Range(frames') \cup {work', received'}
                \subseteq Range(frames) \cup {work, received, NoFrame}
      PROVE  Around' \subseteq Around
  BY <1>0, <1>1 DEF Around, Response
<1>2. frames \in Seq(AnyFrame) /\ requests \in Seq(Requests) /\ queue \in Seq(Calls)
  BY PartTypes DEF IpcTypeOK, DaemonTypes, CallTypes
<1>3. CASE Connect
  <2>1. Around' \subseteq Around /\ Range(requests') \cap Calls \subseteq Range(requests)
    BY <1>1, <1>3, NoRange, Bounds DEF Connect
  <2> QED BY <1>3, <2>1, MirrorQuiet DEF Connect
<1>4. CASE HelloAnswered \/ HelloTimeout
  <2>1. Around' \subseteq Around
    BY <1>1, <1>4 DEF HelloAnswered, HelloTimeout
  <2> QED BY <1>4, <2>1, MirrorQuiet DEF HelloAnswered, HelloTimeout
<1>5. CASE SendCommand
  <2>1. PICK h : h = Head(queue)
    OBVIOUS
  <2>2. /\ h \in Calls /\ status[h] = "queued" /\ status' = [status EXCEPT ![h] = "sent"]
        /\ requests' = Append(requests, h) /\ received' = NoFrame
        /\ UNCHANGED <<kind, answer, overlap, mirror, desired, strayed, frames, work>>
    BY <1>5, <2>1 DEF SendCommand, QueueInv, IpcTypeOK, CallTypes
  <2>3. status'[h] = "sent" /\ \A d \in Calls : d # h => status'[d] = status[d]
    BY <2>2 DEF IpcTypeOK, CallTypes
  <2>4. h \in Requests
    BY <2>2 DEF Requests
  <2>5. Range(requests') = Range(requests) \cup {h}
    BY <1>2, <2>2, <2>4, RangeAppend
  <2>6. Around' \subseteq Around
    BY <1>1, <2>2
  <2>7. /\ \A d \in Calls : (status[d] = "returned") = (status'[d] = "returned")
        /\ \A d \in Calls : (status[d] = "new") = (status'[d] = "new")
        /\ \A d \in Calls : status[d] = "returned" => answer'[d] = answer[d]
    BY <2>2, <2>3
  <2>8. \A w \in Live : Undone(w)' => Undone(w)
    BY <2>2, <2>3, <2>5 DEF Undone, Live, Writers
  <2>9. \A w \in Live : answer'[w] = answer[w]
    BY <2>2
  <2>10. UNCHANGED <<kind, overlap, mirror, desired, strayed>>
    BY <2>2
  <2> QED BY <2>6, <2>7, <2>8, <2>9, <2>10, MirrorKeeps
<1>6. CASE SendFails
  <2>1. PICK c : c = Head(queue)
    OBVIOUS
  <2>2. PICK a : a = [how |-> "failed"]
    OBVIOUS
  <2>3. /\ c \in Calls /\ status[c] = "queued" /\ Answered(c, a)
        /\ desired' = desired /\ strayed' = strayed
        /\ requests' = <<>> /\ frames' = <<>> /\ received' = NoFrame /\ work' = work
    BY <1>6, <2>1, <2>2 DEF SendFails, Disconnect, QueueInv, IpcTypeOK, CallTypes
  <2>4. Around' \subseteq Around /\ Range(requests') \subseteq Range(requests)
    BY <1>1, <2>3, NoRange
  <2>5. a.how \notin {"ok", "err"}
    BY <2>2
  <2> QED BY <2>3, <2>4, <2>5, MirrorAnswered
<1>7. CASE CommandAnswered
  <2>1. /\ current \in Calls /\ status[current] = "sent" /\ Response(received) /\ link = "await"
        /\ received' = NoFrame /\ UNCHANGED <<desired, strayed, requests, frames, work>>
    BY <1>7, Shapes DEF CommandAnswered, QueueInv, IpcTypeOK, ClientTypes
  <2>2. PICK a : a = [how |-> IF received.ok THEN "ok" ELSE "err",
                       behind |-> Behind(current, received.to), gaveUp |-> gaveUp]
    OBVIOUS
  <2>3. PICK c : c = current
    OBVIOUS
  <2>4. Answered(c, a)
    BY <1>7, <2>2, <2>3 DEF CommandAnswered
  <2>5. received.ok \in BOOLEAN
    BY <2>1, Shapes DEF IpcTypeOK, ClientTypes
  <2>6. received.ok = (a.how = "ok")
    BY <2>2, <2>5
  <2>7. a.behind = 0 => received.to = c
    BY <2>1, <2>2, <2>3, BehindIs
  <2>8. Around' \subseteq Around /\ Range(requests') \subseteq Range(requests)
    BY <1>1, <2>1
  <2> QED BY <2>1, <2>3, <2>4, <2>6, <2>7, <2>8, MirrorAnswered
<1>8. CASE CommandTimeout
  <2>1. PICK c : c = current
    OBVIOUS
  <2>2. PICK a : a = [how |-> "timeout"]
    OBVIOUS
  <2>3. /\ c \in Calls /\ status[c] = "sent" /\ Answered(c, a)
        /\ received' = NoFrame /\ UNCHANGED <<desired, strayed, requests, frames, work>>
    BY <1>8, <2>1, <2>2 DEF CommandTimeout, QueueInv, IpcTypeOK, ClientTypes
  <2>4. Around' \subseteq Around /\ Range(requests') \subseteq Range(requests)
    BY <1>1, <2>3
  <2>5. a.how \notin {"ok", "err"}
    BY <2>2
  <2> QED BY <2>3, <2>4, <2>5, MirrorAnswered
<1>9. CASE IdleTick
  <2>1. Around' \subseteq Around /\ Range(requests') \cap Calls \subseteq Range(requests)
    BY <1>1, <1>9, NoRange DEF IdleTick, Disconnect
  <2> QED BY <1>9, <2>1, MirrorQuiet DEF IdleTick
<1>10. CASE ReadResponse \/ ReadEvent
  <2>1. frames # <<>> /\ frames' = Tail(frames) /\ work' = work
        /\ received' \in {received, Head(frames)} /\ UNCHANGED <<requests, desired, strayed>>
    BY <1>10 DEF ReadResponse, ReadEvent
  <2>2. Range(Tail(frames)) \subseteq Range(frames) /\ Head(frames) \in Range(frames)
    BY <1>2, <2>1, TailIs, RangeTail DEF Range
  <2>3. Around' \subseteq Around
    BY <1>1, <2>1, <2>2
  <2> QED BY <1>10, <2>1, <2>3, MirrorQuiet DEF ReadResponse, ReadEvent
<1>11. CASE Execute
  BY <1>11, MirrorExecute
<1>12. CASE Reply
  <2>1. work \in AnyFrame /\ frames' = Append(frames, work)
        /\ work' = NoFrame /\ received' = received
    BY <1>12 DEF Reply, AnyFrame, IpcTypeOK, DaemonTypes
  <2>2. PICK w : w = work
    OBVIOUS
  <2>3. Range(Append(frames, w)) = Range(frames) \cup {w}
    BY <1>2, <2>1, <2>2, RangeAppend
  <2>4. Around' \subseteq Around
    BY <1>1, <2>1, <2>2, <2>3
  <2> QED BY <1>12, <2>4, MirrorQuiet DEF Reply
<1>13. CASE ForwardEvent
  <2>1. PICK e : e = Head(pending)
    OBVIOUS
  <2>2. e \in Events /\ frames' = Append(frames, e) /\ UNCHANGED <<work, received>>
    BY <1>13, <2>1 DEF ForwardEvent, IpcTypeOK, DaemonTypes
  <2>3. e \in AnyFrame /\ ~Response(e)
    BY <2>2, Shapes DEF AnyFrame
  <2>4. Range(frames') = Range(frames) \cup {e}
    BY <1>2, <2>2, <2>3, RangeAppend
  <2>5. Around' \subseteq Around
    BY <2>2, <2>3, <2>4 DEF Around, Response
  <2> QED BY <1>13, <2>5, MirrorQuiet DEF ForwardEvent
<1>14. CASE ReplyFails \/ SidecarDies
  <2>1. Around' \subseteq Around /\ Range(requests') \cap Calls \subseteq Range(requests)
    BY <1>1, <1>14, NoRange DEF ReplyFails, SidecarDies, Close
  <2> QED BY <1>14, <2>1, MirrorQuiet DEF ReplyFails, SidecarDies, Close
<1>15. CASE \/ Accept \/ ReadEof \/ ReaderStores \/ StragglerStores
             \/ SidecarStarts \/ Emit \/ UNCHANGED vars
  <2>1. UNCHANGED <<status, kind, answer, overlap, mirror, desired, strayed,
                    requests, frames, work, received>>
    BY <1>15 DEF Accept, ReadEof, ReaderStores, StragglerStores, SidecarStarts, Emit, vars
  <2>2. Around' \subseteq Around
    BY <1>1, <2>1
  <2> QED BY <2>1, <2>2, MirrorQuiet
<1>16. CASE Clears
  <2>1. /\ UNCHANGED <<status, kind, answer, overlap, mirror, requests, frames, work, received>>
        /\ desired = TRUE /\ desired' = FALSE
        /\ strayed' = IF strayed = "no" THEN "cleared" ELSE "no"
    BY <1>16 DEF Clears, IpcTypeOK, DaemonTypes
  <2>2. Around' \subseteq Around
    BY <1>1, <2>1
  <2> QED BY <2>1, <2>2, MirrorQuiet
<1>17. CASE Caller
  BY <1>17, MirrorIssue, MirrorReturn DEF Caller
<1> QED BY <1>3, <1>4, <1>5, <1>6, <1>7, <1>8, <1>9, <1>10, <1>11, <1>12, <1>13, <1>14, <1>15, <1>16, <1>17
        DEF Next, Client, Reader, Server, Failure, Sidecar

(* Only the sidecar's own clearing strays this way, and it clears.         *)
LEMMA StrayStep ==
    ASSUME IpcTypeOK, StrayInv, [Next]_vars PROVE StrayInv'
<1> USE DEF StrayInv, daemonVars, serverVars, wireVars, clientVars, readerVars, callVars
<1>1. CASE Execute
  BY <1>1 DEF Execute, Saved
<1>2. CASE Clears
  BY <1>2 DEF Clears
<1>3. CASE ReplyFails \/ SidecarDies
  BY <1>3 DEF ReplyFails, SidecarDies, Close
<1>4. ASSUME UNCHANGED <<desired, strayed>> PROVE StrayInv'
  BY <1>4
<1>5. CASE Caller
  BY <1>4, <1>5 DEF Caller, Issue, Return
<1>6. CASE Client
  BY <1>4, <1>6 DEF Client, Connect, HelloAnswered, HelloTimeout, SendCommand, SendFails,
                    CommandAnswered, CommandTimeout, IdleTick
<1>7. CASE Reader \/ Accept \/ Reply \/ ForwardEvent \/ SidecarStarts \/ Emit \/ UNCHANGED vars
  BY <1>4, <1>7 DEF Reader, ReadResponse, ReadEvent, ReadEof, ReaderStores, StragglerStores,
                    Accept, Reply, ForwardEvent, SidecarStarts, Emit, vars
<1> QED BY <1>1, <1>2, <1>3, <1>5, <1>6, <1>7 DEF Next, Server, Failure, Sidecar

-----------------------------------------------------------------------------
(* The theorems *)

IpcInv == IpcTypeOK /\ FlowInv /\ QueueInv /\ PairInv /\ CallInv

LEMMA Starts ==
    ASSUME Init
    PROVE  IpcInv /\ EventInv /\ MirrorInv /\ AnswersLagOnlyByTimeouts /\ FlagFollowsReader
<1> USE DEF Init
<1>1. load \in [calls : SUBSET Calls, losses : Nat, events : Nat] /\ EventCap \in Nat \ {0}
  BY IpcAssumption DEF IpcAssumption
<1>2. DaemonTypes
  BY <1>1 DEF DaemonTypes
<1>3. ClientTypes
  <2>1. /\ link = "down" /\ current = Nothing /\ received = NoFrame /\ slot = Nothing
        /\ reader = "gone" /\ relayed = <<>> /\ gaveUp = 0 /\ sent = <<>>
    OBVIOUS
  <2>2. straggler \in BOOLEAN /\ connected \in BOOLEAN /\ clobbered \in BOOLEAN
    OBVIOUS
  <2> QED BY <2>1, <2>2 DEF ClientTypes
<1>4. CallTypes
  <2>1. Pending \in Answers /\ "query" \in Kinds
    BY DEF Pending, Answers, Kinds
  <2>2. status \in [Calls -> {"new", "queued", "sent", "answered", "returned"}]
        /\ kind \in [Calls -> Kinds] /\ answer \in [Calls -> Answers]
    BY <2>1
  <2>3. queue \in Seq(Calls)
    OBVIOUS
  <2>4. overlap \in BOOLEAN /\ mirror \in BOOLEAN
    OBVIOUS
  <2> QED BY <2>2, <2>3, <2>4 DEF CallTypes
<1>5. FlowInv /\ QueueInv
  BY DEF FlowInv, QueueInv, Distinct
<1>6. PairInv
  BY Shapes DEF PairInv, DueRequests, DueWork, DueFrames, DueReceived
<1>7. \A c \in Calls : answer[c].how = "pending" /\ status[c] = "new" /\ kind[c] = "query"
  BY DEF Pending
<1>8. CallInv
  BY <1>7 DEF CallInv, Own, Live, Writers
<1>9. EventInv
  BY Empty DEF EventInv, Range
<1>10. MirrorInv
  <2>1. Writers = {} /\ Live = {}
    BY <1>7 DEF Live, Writers
  <2> QED BY <2>1 DEF MirrorInv, Agrees, Asked, Exists
<1>11. AnswersLagOnlyByTimeouts /\ FlagFollowsReader
  BY <1>7 DEF AnswersLagOnlyByTimeouts, FlagFollowsReader
<1> QED BY <1>2, <1>3, <1>4, <1>5, <1>6, <1>8, <1>9, <1>10, <1>11 DEF IpcInv, IpcTypeOK

LEMMA IpcStep == IpcInv /\ [Next]_vars => IpcInv'
<1> SUFFICES ASSUME IpcInv, [Next]_vars PROVE IpcInv'
  OBVIOUS
<1>1. IpcTypeOK /\ FlowInv /\ QueueInv /\ PairInv /\ CallInv
  BY DEF IpcInv
<1>2. IpcTypeOK'
  BY <1>1, DaemonTyped, ClientTyped, CallsTyped DEF IpcTypeOK
<1>3. FlowInv' /\ QueueInv'
  BY <1>1, FlowStep, QueueStep
<1>4. PairInv' /\ CallInv'
  BY <1>1, PairStep, CallStep
<1> QED BY <1>2, <1>3, <1>4 DEF IpcInv

LEMMA IpcHolds == Spec => []IpcInv
<1>1. Init => IpcInv
  BY Starts
<1> QED BY <1>1, IpcStep, PTL DEF Spec

\* The state of the client, of its calls, of the wire and of the server keeps
\* its types: handle, client task, reader task and server task.
THEOREM IpcTyped == Spec => []IpcTypeOK
<1>1. IpcInv => IpcTypeOK
  BY DEF IpcInv
<1> QED BY <1>1, IpcHolds, PTL

\* A call is answered with a response at most as many requests back as were
\* given up on this connection: the one-at-a-time loop of
\* run_persistent_connection pairs answers that carry no identifier.
THEOREM AnswersPaired == Spec => []AnswersLagOnlyByTimeouts
<1>1. Init => AnswersLagOnlyByTimeouts
  BY Starts
<1>2. IpcInv /\ AnswersLagOnlyByTimeouts /\ [Next]_vars => AnswersLagOnlyByTimeouts'
  BY AnswerStep DEF IpcInv
<1> QED BY <1>1, <1>2, IpcHolds, PTL DEF Spec

\* After conclusive calls that did not overlap, over any number of connections,
\* the desired_running mirror is the daemon's desired state, unless the daemon
\* has cleared it by itself since, and then the mirror is TRUE, or failed to
\* save it.
THEOREM MirrorsAgree == Spec => []MirrorAgrees
<1>1. Init => MirrorInv /\ StrayInv
  BY Starts DEF Init, StrayInv
<1>2. IpcInv /\ MirrorInv /\ [Next]_vars => MirrorInv'
  BY MirrorStep DEF IpcInv
<1>3. IpcInv /\ StrayInv /\ [Next]_vars => StrayInv'
  BY StrayStep DEF IpcInv
<1>4. IpcInv /\ MirrorInv /\ StrayInv => MirrorAgrees
  <2> SUFFICES ASSUME IpcInv, MirrorInv, StrayInv,
                      ~overlap, UnderWay \cap Writers = {},
                      \E c \in Writers : status[c] = "returned" /\ answer[c].how = "ok",
                      \A c \in Writers : Conclusive(c)
               PROVE  \/ mirror = desired
                      \/ strayed = "cleared" /\ mirror
                      \/ strayed = "unsaved"
    BY DEF MirrorAgrees
  <2>1. mirror = Asked
    BY DEF MirrorInv, Live, Past, Agrees, Exists
  <2>2. /\ desired \in BOOLEAN /\ mirror \in BOOLEAN
        /\ strayed \in {"no", "cleared", "unsaved"}
    BY DEF IpcInv, IpcTypeOK, DaemonTypes, CallTypes
  <2> QED BY <2>1, <2>2 DEF Asked, StrayInv
<1> QED BY <1>1, <1>2, <1>3, <1>4, IpcHolds, PTL DEF Spec

\* is_connected() tells whether a connection with a living reader is up, the
\* last store of an aborted reader on a later connection excepted.
THEOREM FlagsFollow == Spec => []FlagFollowsReader
<1>1. Init => FlagFollowsReader
  BY Starts
<1>2. IpcInv /\ FlagFollowsReader /\ [Next]_vars => FlagFollowsReader'
  BY FlagStep DEF IpcInv
<1> QED BY <1>1, <1>2, IpcHolds, PTL DEF Spec

\* The events of a connection reach the GUI in order and none twice, and the
\* last one is never dropped while the server task lives, whatever the
\* capacity of its broadcast channel.
THEOREM EventsInOrder == Spec => []EventsInOrderLatestKept
<1>1. Init => EventInv
  BY Starts
<1>2. IpcInv /\ EventInv /\ [Next]_vars => EventInv'
  BY EventStep DEF IpcInv
<1>3. IpcInv /\ EventInv => EventsInOrderLatestKept
  BY EventsKept DEF IpcInv
<1> QED BY <1>1, <1>2, <1>3, IpcHolds, PTL DEF Spec
=============================================================================
