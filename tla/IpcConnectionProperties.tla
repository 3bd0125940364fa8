------------------------ MODULE IpcConnectionProperties ------------------------
(***************************************************************************)
(* What the persistent connection to the sidecar promises its callers.     *)
(***************************************************************************)
EXTENDS IpcConnection

Requests  == Calls \cup {Hello}
Responses == [type : {"response"}, to : Requests, ok : BOOLEAN]

Events    == [type : {"event"}, number : Nat]

Answers ==
    [how : {"pending", "refused", "failed", "timeout"}]
      \cup [how : {"ok", "err"}, behind : Nat, gaveUp : Nat]

DaemonTypes ==
    /\ load \in Loads
    /\ sidecar \in BOOLEAN /\ desired \in BOOLEAN
    /\ strayed \in {"no", "cleared", "unsaved"}
    /\ emitted \in 0 .. load.events /\ losses \in 0 .. load.losses
    /\ server \in {"closed", "accepting", "serving"}
    /\ work \in Responses \cup {NoFrame} /\ since \in Nat
    /\ pending \in Seq(Events) /\ Len(pending) <= EventCap
    /\ requests \in Seq(Requests) /\ frames \in Seq(Responses \cup Events)

ClientTypes ==
    /\ link \in {"down", "hello", "idle", "await"}
    /\ current \in Calls \cup {Nothing} /\ (link = "await") = (current # Nothing)
    /\ received \in Responses \cup {NoFrame} /\ slot \in Requests \cup {Nothing}
    /\ reader \in {"reading", "leaving", "gone"} /\ straggler \in BOOLEAN
    /\ relayed \in Seq(Events) /\ connected \in BOOLEAN /\ clobbered \in BOOLEAN
    /\ gaveUp \in Nat /\ sent \in Seq(Requests)

CallTypes ==
    /\ queue \in Seq(Calls)
    /\ status \in [Calls -> {"new", "queued", "sent", "answered", "returned"}]
    /\ kind \in [Calls -> Kinds] /\ answer \in [Calls -> Answers]
    /\ overlap \in BOOLEAN /\ mirror \in BOOLEAN

\* The types of the state of both ends and of the wire between them.
IpcTypeOK == DaemonTypes /\ ClientTypes /\ CallTypes

\* A call is answered with the response to its own request, unless earlier
\* requests of the same connection were given up (2 s for Hello, 10 s for a
\* command) before their responses came: then it may be answered with the
\* response to an earlier request, at most one back for each of those.
\* Responses carry no identifier, so only the one-at-a-time discipline of
\* run_persistent_connection keeps questions and answers together.
AnswersLagOnlyByTimeouts ==
    \A c \in Calls :
        answer[c].how \in {"ok", "err"} => answer[c].behind <= answer[c].gaveUp

Conclusive(c) ==
    CASE answer[c].how \in {"ok", "err"} -> answer[c].behind = 0
      [] answer[c].how = "refused" -> TRUE
      [] OTHER -> FALSE

\* The local desired_running mirror is what get_lifecycle_status synthesizes
\* RecoveryPending or Stopped from while disconnected (DESK-03).  Once a Start
\* or a Stop succeeded, and as long as each of them was issued after the one
\* before returned and got a conclusive answer, the mirror equals the desired
\* state the sidecar keeps, whatever connections were lost in between.  It can
\* differ in two ways only, which no answer tells the client: the sidecar has
\* cleared the desired state by itself since, and then the mirror is TRUE; or
\* its save of that Start or Stop failed.
MirrorAgrees ==
    (/\ ~overlap
     /\ UnderWay \cap Writers = {}
     /\ \E c \in Writers : status[c] = "returned" /\ answer[c].how = "ok"
     /\ \A c \in Writers : Conclusive(c))
    => \/ mirror = desired
       \/ strayed = "cleared" /\ mirror
       \/ strayed = "unsaved"

\* is_connected() is true exactly while a connection with a living reader is
\* up.  The one exception is the last store of an aborted reader that lands on
\* a later connection, which then counts as disconnected to its end.
FlagFollowsReader ==
    ~clobbered => (connected = (link # "down" /\ reader # "gone"))

\* All that this connection has brought or is about to bring to the GUI.
Stream   == relayed \o frames \o pending

Ordered(s) ==
    \A i, j \in DOMAIN s :
        (i < j /\ s[i].type = "event" /\ s[j].type = "event") => s[i].number < s[j].number

\* Events of a connection reach the GUI in the order in which the sidecar
\* emitted them and none twice; a slow client loses old events but, while the
\* server task lives, never the last one, so what the GUI ends up showing is
\* the last state the sidecar announced.
EventsInOrderLatestKept ==
    /\ Ordered(Stream)
    /\ (server = "serving" /\ emitted > since) => Event(emitted) \in Range(Stream)

\* Once the sidecar stays up, every call that was accepted returns to its
\* caller: a Start queued while disconnected, a call whose connection broke
\* under it, one whose response was lost.
CallsReturn ==
    <>[]sidecar => \A c \in Calls : (status[c] = "queued") ~> (status[c] = "returned")

\* Once the sidecar stays up the client ends up on a connection that works,
\* also when the last one broke with no command to notice it.
Reconnects ==
    <>[]sidecar => <>[](server = "serving" /\ reader = "reading")

\* The debug assertion of prepare_response_slot: no command finds the sender
\* of another one in the slot.
SlotSequential == [][SendCommand => slot = Nothing]_vars
=============================================================================
