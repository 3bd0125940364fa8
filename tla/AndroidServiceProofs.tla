------------------------ MODULE AndroidServiceProofs ------------------------
(***************************************************************************)
(* Proofs about the Android foreground service, for any number of          *)
(* commands, stops, timeouts, type updates, kills and reboots.             *)
(***************************************************************************)
EXTENDS AndroidServiceProperties, TLAPS

(* What the looper holds.                                                  *)
Has(q, kind) == \E n \in DOMAIN q : q[n].kind = kind

HasStart(q, s) == \E n \in DOMAIN q : q[n].kind = "start" /\ q[n].source = s

EndsDown(q) == q # <<>> /\ q[Len(q)].kind = "destroy"

StartsOnce(q) ==
    \A m, n \in DOMAIN q :
        q[m].kind = "start" /\ q[n].kind = "start" /\ q[m].source = q[n].source => m = n

StartsSurvive(q) ==
    \A m, n \in DOMAIN q : m < n /\ q[m].kind = "start" => q[n].kind # "destroy"

InFlight(s) == worker[s].phase # "idle"

(* A service that was stopped has its onDestroy at the end of the queue.   *)
DownInv == ~started /\ (alive \/ looper # <<>>) => EndsDown(looper)

(* A start goes from its command through the queue to its worker, and its  *)
(* future is not completed before the worker is done.                      *)
OrderInv ==
    /\ StartsOnce(looper)
    /\ \A s \in Sources : HasStart(looper, s) => ~InFlight(s)
    /\ \A i \in Invokes : HasStart(looper, i) \/ InFlight(i) =>
          /\ waiter[i] \in {"lookup", "waiting", "failed", "saving", "rejected"}
          /\ ack[i] \in {"pending", "none"}
    /\ \A i \in Invokes : waiter[i] = "resolved" /\ last = i => ack[i] = "ok"
    /\ \A s \in Sources : IF InFlight(s) THEN worker[s].orphan \/ alive ELSE ~worker[s].orphan

(* Nothing runs yet in a recreated process.                                *)
RestartInv ==
    Has(looper, "restart") =>
        /\ Head(looper).kind = "restart" /\ ~Has(Tail(looper), "restart")
        /\ ~Has(looper, "destroy") /\ started
        /\ ~core /\ ~isRunning /\ ~isForeground /\ ~monitor
        /\ stoppers = 0 /\ ~StartInFlight

(* The rest holds as long as no start overlapped a stop.  A core start has *)
(* the service to itself.                                                  *)
FlightInv ==
    /\ ~leaked
    /\ StartsSurvive(looper)
    /\ \A s \in Sources : InFlight(s) =>
          /\ last \in {s, "refused"}
          /\ ~worker[s].orphan /\ started /\ stoppers = 0 /\ ~Has(looper, "destroy")
          /\ \A t \in Sources : InFlight(t) => t = s
          /\ worker[s].phase \in {"accepted", "saving"} => core
          /\ worker[s].phase = "saving" =>
                isRunning /\ monitor /\ (s \in Invokes => prefs \/ Has(looper, "stop"))
    /\ worker["restart"].phase \in {"call", "rejected"} => ~core

(* After a stop, what still runs has its stop on the way, and the label is *)
(* there only for a start on the way.                                      *)
StopInv ==
    last = "stop" =>
        /\ ~durable.desired /\ ~durable.recovery
        /\ prefs => \E i \in Invokes :
              HasStart(looper, i) /\ waiter[i] \in {"lookup", "waiting", "failed"}
        /\ core => stoppers > 0 \/ Has(looper, "stop")
        /\ isRunning \/ monitor => Has(looper, "destroy") \/ Has(looper, "stop")

(* A rollback's stop is queued, or was the last thing that happened.       *)
RollInv ==
    \A i \in Invokes :
        /\ waiter[i] = "saving" =>
              \/ Has(looper, "stop")
              \/ last = "stop" /\ ~isForeground /\ ~Has(looper, "start") /\ ~Has(looper, "restart")
        /\ waiter[i] \in {"saving", "rejected"}
              /\ (HasStart(looper, i) \/ InFlight(i) \/ last = i) => Has(looper, "stop")

(* An acknowledged start stays up until something else happens.            *)
UpInv ==
    \A i \in Invokes : last = i /\ ack[i] = "ok" =>
        /\ core /\ isRunning /\ monitor /\ started
        /\ stoppers = 0 /\ ~Has(looper, "destroy")
        /\ (prefs /\ durable.desired) \/ Has(looper, "stop")

(* What a recreation and a timeout leave behind, on the way to rest.       *)
RecoverInv ==
    /\ last = "restart" =>
        /\ stoppers = 0
        /\ StartInFlight \/ (durable.recovery <=> ~core) \/ Has(looper, "stop")
    /\ last = "timeout" =>
        /\ ~isRunning /\ ~isForeground /\ (core => stoppers > 0)
        /\ started => Has(looper, "start") \/ Has(looper, "stop")
        /\ durable.native = "timeout" \/ Has(looper, "stop")

CalmInv == FlightInv /\ StopInv /\ RollInv /\ UpInv /\ RecoverInv

ServiceInv == AndroidTypeOK /\ DownInv /\ OrderInv /\ RestartInv /\ (~raced => CalmInv)
-----------------------------------------------------------------------------
(* The looper *)

LEMMA Sent ==
    ASSUME NEW q \in Seq(Messages), NEW m \in Messages
    PROVE  /\ Append(q, m) \in Seq(Messages) /\ Append(q, m) # <<>>
           /\ \A k : Has(Append(q, m), k) <=> Has(q, k) \/ m.kind = k
           /\ \A s : HasStart(Append(q, m), s)
                        <=> HasStart(q, s) \/ (m.kind = "start" /\ m.source = s)
           /\ EndsDown(Append(q, m)) <=> m.kind = "destroy"
           /\ StartsOnce(q) /\ (m.kind = "start" => ~HasStart(q, m.source))
                 => StartsOnce(Append(q, m))
           /\ StartsSurvive(q) /\ (m.kind = "destroy" => ~Has(q, "start"))
                 => StartsSurvive(Append(q, m))
           /\ q # <<>> => /\ Head(Append(q, m)) = Head(q)
                          /\ Tail(Append(q, m)) = Append(Tail(q), m)
<1> DEFINE r == Append(q, m)
<1>1. /\ r \in Seq(Messages) /\ r # <<>> /\ DOMAIN q = 1 .. Len(q) /\ Len(q) \in Nat
      /\ DOMAIN r = 1 .. Len(q) + 1 /\ Len(r) = Len(q) + 1
      /\ r[Len(q) + 1] = m /\ \A n \in 1 .. Len(q) : r[n] = q[n]
  OBVIOUS
<1>2. \A n \in DOMAIN r : n \in DOMAIN q \/ n = Len(q) + 1
  BY <1>1
<1> HIDE DEF r
<1>3. \A k : Has(r, k) <=> Has(q, k) \/ m.kind = k
  BY <1>1, <1>2 DEF Has
<1>4. \A s : HasStart(r, s) <=> HasStart(q, s) \/ (m.kind = "start" /\ m.source = s)
  BY <1>1, <1>2 DEF HasStart
<1>5. EndsDown(r) <=> m.kind = "destroy"
  BY <1>1 DEF EndsDown
<1>6. StartsOnce(q) /\ (m.kind = "start" => ~HasStart(q, m.source)) => StartsOnce(r)
  BY <1>1, <1>2 DEF StartsOnce, HasStart
<1>7. StartsSurvive(q) /\ (m.kind = "destroy" => ~Has(q, "start")) => StartsSurvive(r)
  BY <1>1, <1>2 DEF StartsSurvive, Has
<1>8. q # <<>> => Head(r) = Head(q) /\ Tail(r) = Append(Tail(q), m)
  BY DEF r
<1> QED BY <1>1, <1>3, <1>4, <1>5, <1>6, <1>7, <1>8 DEF r

LEMMA Taken ==
    ASSUME NEW q \in Seq(Messages), q # <<>>
    PROVE  /\ Tail(q) \in Seq(Messages) /\ Head(q) \in Messages
           /\ \A k : Has(q, k) <=> Head(q).kind = k \/ Has(Tail(q), k)
           /\ \A s : HasStart(q, s)
                        <=> HasStart(Tail(q), s) \/ (Head(q).kind = "start" /\ Head(q).source = s)
           /\ EndsDown(q) /\ Head(q).kind # "destroy" => EndsDown(Tail(q))
           /\ EndsDown(q) /\ Tail(q) # <<>> => EndsDown(Tail(q))
           /\ StartsOnce(q) => /\ StartsOnce(Tail(q))
                               /\ Head(q).kind = "start" => ~HasStart(Tail(q), Head(q).source)
           /\ StartsSurvive(q) => /\ StartsSurvive(Tail(q))
                                  /\ Head(q).kind = "start" => ~Has(Tail(q), "destroy")
<1> DEFINE r == Tail(q)
<1> DEFINE h == Head(q)
<1>1. /\ r \in Seq(Messages) /\ h \in Messages /\ h = q[1] /\ Len(q) \in Nat \ {0}
      /\ DOMAIN q = 1 .. Len(q) /\ DOMAIN r = 1 .. Len(q) - 1 /\ Len(r) = Len(q) - 1
      /\ \A n \in 1 .. Len(q) - 1 : r[n] = q[n + 1]
  OBVIOUS
<1>2. \A n \in DOMAIN q : n = 1 \/ (n - 1 \in DOMAIN r /\ r[n - 1] = q[n])
  BY <1>1
<1>3. \A n \in DOMAIN r : n + 1 \in DOMAIN q /\ r[n] = q[n + 1] /\ n \in Nat \ {0}
  BY <1>1
<1>4. 1 \in DOMAIN q /\ DOMAIN q \subseteq Nat
  BY <1>1
<1>5. r # <<>> => Len(q) # 1
  <2>1. ASSUME r # <<>> PROVE Len(r) # 0
    BY <1>1, <2>1
  <2> QED BY <2>1, <1>1
<1> HIDE DEF r, h
<1>6. \A k : Has(q, k) <=> h.kind = k \/ Has(r, k)
  BY <1>1, <1>2, <1>3, <1>4 DEF Has
<1>7. \A s : HasStart(q, s) <=> HasStart(r, s) \/ (h.kind = "start" /\ h.source = s)
  BY <1>1, <1>2, <1>3, <1>4 DEF HasStart
<1>8. EndsDown(q) /\ r # <<>> => EndsDown(r)
  BY <1>1, <1>5 DEF EndsDown
<1>9. ASSUME EndsDown(q), h.kind # "destroy" PROVE r # <<>>
  <2>1. Len(r) # 0
    BY <1>1, <1>9 DEF EndsDown
  <2> QED BY <2>1
<1>10. StartsOnce(q) => StartsOnce(r)
  <2> SUFFICES ASSUME StartsOnce(q), NEW m \in DOMAIN r, NEW n \in DOMAIN r,
                      r[m].kind = "start", r[n].kind = "start", r[m].source = r[n].source
               PROVE  m = n
    BY DEF StartsOnce
  <2>1. m + 1 = n + 1
    BY <1>3 DEF StartsOnce
  <2> QED BY <2>1, <1>3
<1>11. StartsOnce(q) /\ h.kind = "start" => ~HasStart(r, h.source)
  BY <1>1, <1>3, <1>4 DEF StartsOnce, HasStart
<1>12. StartsSurvive(q) => StartsSurvive(r)
  <2> SUFFICES ASSUME StartsSurvive(q), NEW m \in DOMAIN r, NEW n \in DOMAIN r,
                      m < n, r[m].kind = "start"
               PROVE  r[n].kind # "destroy"
    BY DEF StartsSurvive
  <2>1. m + 1 < n + 1
    BY <1>3
  <2> QED BY <2>1, <1>3 DEF StartsSurvive
<1>13. StartsSurvive(q) /\ h.kind = "start" => ~Has(r, "destroy")
  <2> SUFFICES ASSUME StartsSurvive(q), h.kind = "start", NEW n \in DOMAIN r
               PROVE  r[n].kind # "destroy"
    BY DEF Has
  <2>1. 1 < n + 1 /\ n + 1 \in DOMAIN q
    BY <1>3
  <2> QED BY <2>1, <1>1, <1>3, <1>4 DEF StartsSurvive
<1> QED BY <1>1, <1>6, <1>7, <1>8, <1>9, <1>10, <1>11, <1>12, <1>13 DEF r, h

LEMMA Empty ==
    /\ \A k : ~Has(<<>>, k)
    /\ \A s : ~HasStart(<<>>, s)
    /\ StartsOnce(<<>>) /\ StartsSurvive(<<>>) /\ <<>> \in Seq(Messages)
  BY DEF Has, HasStart, StartsOnce, StartsSurvive

LEMMA Queued == \A q \in Seq(Messages) : StartQueued(q) <=> Has(q, "start")
  BY DEF StartQueued, Has

LEMMA Letters ==
    /\ \A s \in Invokes \cup {"boot"} : Message("start", s) \in Messages
    /\ \A i \in Invokes \cup {"command", "notification"} : Message("stop", i) \in Messages
    /\ Message("type", "command") \in Messages
    /\ Message("restart", "android") \in Messages /\ Message("destroy", "android") \in Messages
    /\ \A k, s : Message(k, s).kind = k /\ Message(k, s).source = s
    /\ \A m \in Messages : m.kind = "start" => m.source \in Invokes \cup {"boot"}
  BY DEF Message, Messages

LEMMA RestartIsNoStart ==
    ASSUME looper \in Seq(Messages) PROVE ~HasStart(looper, "restart")
<1>1. \A n \in DOMAIN looper : looper[n] \in Messages
  OBVIOUS
<1> QED BY <1>1, Letters, BoundsAssumption DEF BoundsAssumption, HasStart

LEMMA Sends ==
    ASSUME looper \in Seq(Messages), NEW k, NEW s, Message(k, s) \in Messages, Send(k, s)
    PROVE  /\ looper' \in Seq(Messages) /\ looper' # <<>> /\ started'
           /\ \A j : Has(looper', j) <=> Has(looper, j) \/ k = j
           /\ \A t : HasStart(looper', t) <=> HasStart(looper, t) \/ (k = "start" /\ s = t)
           /\ StartsOnce(looper) /\ (k = "start" => ~HasStart(looper, s)) => StartsOnce(looper')
           /\ StartsSurvive(looper) /\ k # "destroy" => StartsSurvive(looper')
           /\ looper # <<>> => /\ Head(looper') = Head(looper)
                               /\ \A j : Has(Tail(looper'), j) <=> Has(Tail(looper), j) \/ k = j
<1>1. looper' = Append(looper, Message(k, s)) /\ started'
  BY DEF Send
<1>2. Message(k, s).kind = k /\ Message(k, s).source = s
  BY Letters
<1>3. looper # <<>> => Tail(looper) \in Seq(Messages)
  BY Taken
<1>4. ASSUME looper # <<>>
      PROVE  /\ Head(looper') = Head(looper)
             /\ \A j : Has(Tail(looper'), j) <=> Has(Tail(looper), j) \/ k = j
  <2>1. Head(looper') = Head(looper) /\ Tail(looper') = Append(Tail(looper), Message(k, s))
    BY <1>1, <1>4, Sent
  <2>2. \A j : Has(Append(Tail(looper), Message(k, s)), j)
                  <=> Has(Tail(looper), j) \/ Message(k, s).kind = j
    BY <1>3, <1>4, Sent
  <2> QED BY <1>2, <2>1, <2>2
<1> QED BY <1>1, <1>2, <1>4, Sent

LEMMA Stops ==
    ASSUME NEW q \in Seq(Messages), started \in BOOLEAN, StopSelf(q)
    PROVE  /\ looper' \in Seq(Messages) /\ ~started' /\ started' \in BOOLEAN
           /\ \A j : Has(looper', j) <=> Has(q, j) \/ (j = "destroy" /\ started)
           /\ \A t : HasStart(looper', t) <=> HasStart(q, t)
           /\ StartsOnce(q) => StartsOnce(looper')
           /\ StartsSurvive(q) /\ ~Has(q, "start") => StartsSurvive(looper')
           /\ started \/ EndsDown(q) => EndsDown(looper')
<1>1. Message("destroy", "android").kind = "destroy" /\ Message("destroy", "android") \in Messages
  BY Letters
<1>2. CASE started
  <2>1. looper' = Append(q, Message("destroy", "android")) /\ started' = FALSE
    BY <1>2 DEF StopSelf
  <2> DEFINE d == Message("destroy", "android")
  <2>2. /\ Append(q, d) \in Seq(Messages)
        /\ \A j : Has(Append(q, d), j) <=> Has(q, j) \/ d.kind = j
        /\ \A t : HasStart(Append(q, d), t) <=> HasStart(q, t) \/ (d.kind = "start" /\ d.source = t)
        /\ StartsOnce(q) /\ (d.kind = "start" => ~HasStart(q, d.source)) => StartsOnce(Append(q, d))
        /\ StartsSurvive(q) /\ (d.kind = "destroy" => ~Has(q, "start"))
              => StartsSurvive(Append(q, d))
        /\ EndsDown(Append(q, d)) <=> d.kind = "destroy"
    BY <1>1, Sent
  <2>3. looper' = Append(q, d) /\ d.kind = "destroy"
    BY <1>1, <2>1
  <2> HIDE DEF d
  <2> QED BY <1>2, <2>1, <2>2, <2>3
<1>3. CASE ~started
  BY <1>3 DEF StopSelf
<1> QED BY <1>2, <1>3

LEMMA Rests ==
    ASSUME looper \in Seq(Messages), NEW kind, Received(kind)
    PROVE  /\ Rest \in Seq(Messages) /\ Head(looper) \in Messages
           /\ looper # <<>> /\ Head(looper).kind = kind /\ Has(looper, kind)
           /\ \A k : Has(looper, k) <=> kind = k \/ Has(Rest, k)
           /\ \A s : HasStart(looper, s)
                        <=> HasStart(Rest, s) \/ (kind = "start" /\ Head(looper).source = s)
           /\ EndsDown(looper) /\ kind # "destroy" => EndsDown(Rest)
           /\ EndsDown(looper) /\ Rest # <<>> => EndsDown(Rest)
           /\ StartsOnce(looper) => /\ StartsOnce(Rest)
                                    /\ kind = "start" => ~HasStart(Rest, Head(looper).source)
           /\ StartsSurvive(looper) => /\ StartsSurvive(Rest)
                                       /\ kind = "start" => ~Has(Rest, "destroy")
           /\ kind = "start" => Head(looper).source \in Invokes \cup {"boot"}
           /\ StartQueued(Rest) <=> Has(Rest, "start")
  BY Taken, Letters, Queued DEF Received, Rest
-----------------------------------------------------------------------------
(* Types *)

LEMMA SourcesAre ==
    /\ Invokes \subseteq Sources /\ "boot" \in Sources /\ "restart" \in Sources
    /\ \A s \in Sources : s \notin {"none", "refused", "stop", "timeout", "killed"}
    /\ "boot" \notin Invokes /\ "restart" \notin Invokes
    /\ MaxEvents \in Nat
  BY BoundsAssumption DEF BoundsAssumption, Sources

LEMMA ServiceTyped ==
    ASSUME AndroidTypeOK, Next PROVE ServiceTypes'
<1> USE DEF AndroidTypeOK, ServiceTypes, flags
<1>1. FreshState \in Records
  BY DEF FreshState, Records
<1>2. /\ BuildStartState(durable) \in Records /\ BuildStopState(durable) \in Records
      /\ BuildTimeoutState(durable) \in Records /\ Recovering(durable) \in Records
      /\ Recovering(BuildTimeoutState(durable)) \in Records
      /\ \A b \in BOOLEAN : [BuildStartState(durable) EXCEPT !.recovery = @ /\ b] \in Records
      /\ \A b \in BOOLEAN :
            [durable EXCEPT !.native = "core_start_failed", !.recovery = @ \/ b] \in Records
  BY DEF BuildStartState, BuildStopState, BuildTimeoutState, Recovering, Records
<1>3. ASSUME NEW i \in Invokes, StartKeepalive(i) \/ Await(i) PROVE ServiceTypes'
  BY <1>1, <1>3 DEF StartKeepalive, Await, AwaitLookup, AwaitAnswered, AwaitTimeout, RollBack,
                    RejectStart
<1>4. CASE StopKeepalive \/ NotificationStop \/ UpdateType
  BY <1>1, <1>4 DEF StopKeepalive, NotificationStop, UpdateType
<1>5. CASE HandleStart \/ HandleStop \/ HandleOsRestart \/ HandleUpdateType \/ OnDestroy
  BY <1>2, <1>5 DEF HandleStart, HandleStop, HandleOsRestart, HandleUpdateType, OnDestroy
<1>6. ASSUME NEW p \in Policies, OnTimeout(p) PROVE ServiceTypes'
  BY <1>2, <1>6 DEF OnTimeout
<1>7. ASSUME NEW s \in Sources, CoreStart(s) PROVE ServiceTypes'
  <2>1. CASE CallCore(s)
    BY <2>1 DEF CallCore
  <2>2. CASE Rejected(s)
    BY <1>2, <2>2 DEF Rejected
  <2>3. CASE Accepted(s)
    BY <2>3 DEF Accepted
  <2>4. CASE SaveStart(s)
    BY <1>2, <2>4 DEF SaveStart
  <2> QED BY <1>7, <2>1, <2>2, <2>3, <2>4 DEF CoreStart
<1>8. CASE StopCore \/ Kill \/ Boot
  BY <1>2, <1>8 DEF StopCore, Kill, Boot, ProcessGone
<1> QED BY <1>3, <1>4, <1>5, <1>6, <1>7, <1>8 DEF Next, HandleMessage

LEMMA LooperTyped ==
    ASSUME AndroidTypeOK, Next PROVE LooperTypes'
<1> USE SourcesAre DEF AndroidTypeOK, LooperTypes, os
<1>1. ASSUME NEW i \in Invokes, StartKeepalive(i) \/ Await(i) PROVE LooperTypes'
  BY <1>1, Sends, Letters
     DEF StartKeepalive, Await, AwaitLookup, AwaitAnswered, AwaitTimeout, RollBack, RejectStart,
         SendGuarded, NoteRace, Send
<1>2. CASE StopKeepalive \/ NotificationStop \/ UpdateType
  <2>1. used' \in 0 .. MaxEvents
    BY <1>2 DEF StopKeepalive, NotificationStop, UpdateType, Spend
  <2> QED BY <1>2, <2>1, Sends, Letters
          DEF StopKeepalive, NotificationStop, UpdateType, SendGuarded, NoteRace, Send
<1>3. ASSUME NEW k, Received(k), looper' = Rest \/ StopSelf(Rest)
      PROVE  looper' \in Seq(Messages)
  BY <1>3, Rests, Stops
<1>4. ASSUME NEW q, StopSelf(q) PROVE started' \in BOOLEAN
  BY <1>4 DEF StopSelf
<1>5. CASE HandleStart
  BY <1>3, <1>4, <1>5 DEF HandleStart, PromotionFails, ReturnSticky, ReturnNotSticky, NoteRace
<1>6. CASE HandleStop
  BY <1>3, <1>4, <1>6 DEF HandleStop, ReturnNotSticky, NoteRace
<1>7. CASE HandleOsRestart
  BY <1>3, <1>4, <1>7
     DEF HandleOsRestart, PromotionFails, ReturnSticky, ReturnNotSticky, NoteRace
<1>8. CASE HandleUpdateType
  BY <1>3, <1>4, <1>8 DEF HandleUpdateType, PromotionFails, ReturnNotSticky, NoteRace
<1>9. CASE OnDestroy
  BY <1>3, <1>9 DEF OnDestroy
<1>10. ASSUME NEW p \in Policies, OnTimeout(p) PROVE LooperTypes'
  BY <1>10, Stops DEF OnTimeout, Spend, NoteRace
<1>11. ASSUME NEW s \in Sources, CoreStart(s) PROVE LooperTypes'
  BY <1>11, Stops DEF CoreStart, CallCore, Rejected, Accepted, SaveStart, NoteRace
<1>12. CASE StopCore \/ Kill \/ Boot
  <2>1. used' \in 0 .. MaxEvents
    BY <1>12 DEF StopCore, Kill, Boot, Spend
  <2>2. <<Message("restart", "android")>> \in Seq(Messages)
        /\ <<Message("start", "boot")>> \in Seq(Messages)
    BY Letters
  <2>3. looper' \in Seq(Messages)
    BY <1>12, <2>2, Empty DEF StopCore, Kill, Boot
  <2>4. CASE StopCore
    BY <2>1, <2>3, <2>4 DEF StopCore
  <2>5. CASE Kill
    BY <2>1, <2>3, <2>5 DEF Kill, ProcessGone
  <2>6. CASE Boot
    BY <2>1, <2>3, <2>6 DEF Boot, ProcessGone
  <2> QED BY <1>12, <2>4, <2>5, <2>6
<1> QED BY <1>1, <1>2, <1>5, <1>6, <1>7, <1>8, <1>9, <1>10, <1>11, <1>12
        DEF Next, HandleMessage

LEMMA ThreadTyped ==
    ASSUME AndroidTypeOK, Next PROVE ThreadTypes'
<1> USE SourcesAre DEF AndroidTypeOK, ThreadTypes, commands, Answered
<1>1. ASSUME NEW i \in Invokes, StartKeepalive(i) PROVE ThreadTypes'
  BY <1>1 DEF StartKeepalive
<1>2. ASSUME NEW i \in Invokes, Await(i) PROVE ThreadTypes'
  BY <1>2 DEF Await, AwaitLookup, AwaitAnswered, AwaitTimeout, RollBack, RejectStart, Found
<1>3. CASE StopKeepalive \/ NotificationStop \/ UpdateType
  BY <1>3 DEF StopKeepalive, NotificationStop, UpdateType
<1>4. ASSUME NEW s \in Sources, SpawnStart(s)
      PROVE  worker' \in [Sources -> [phase : {"idle", "call", "accepted", "rejected", "saving"},
                                     orphan : BOOLEAN]]
  BY <1>4 DEF SpawnStart
<1>5. ASSUME NEW s, NEW r \in {"ok", "fail"}, Complete(s, r)
      PROVE  ack' \in [Invokes -> {"none", "pending", "ok", "fail"}]
  BY <1>5 DEF Complete
<1>6. CASE HandleStart
  <2>1. Head(looper).source \in Sources
    BY <1>6, Rests DEF HandleStart, LooperTypes
  <2> QED BY <1>4, <1>5, <1>6, <2>1 DEF HandleStart
<1>7. CASE HandleStop \/ HandleUpdateType
  BY <1>7 DEF HandleStop, HandleUpdateType, SpawnStop
<1>8. CASE HandleOsRestart
  BY <1>4, <1>8 DEF HandleOsRestart
<1>9. CASE OnDestroy
  BY <1>9 DEF OnDestroy
<1>10. ASSUME NEW p \in Policies, OnTimeout(p) PROVE ThreadTypes'
  BY <1>10 DEF OnTimeout, SpawnStop
<1>11. ASSUME NEW s \in Sources, CoreStart(s) PROVE ThreadTypes'
  <2> DEFINE Phases == {"idle", "call", "accepted", "rejected", "saving"}
  <2>1. \A f \in Phases : [worker[s] EXCEPT !.phase = f] \in [phase : Phases, orphan : BOOLEAN]
    OBVIOUS
  <2>2. NoWorker \in [phase : Phases, orphan : BOOLEAN]
    BY DEF NoWorker
  <2>3. worker' \in [Sources -> [phase : Phases, orphan : BOOLEAN]]
    BY <1>11, <2>1, <2>2 DEF CoreStart, CallCore, Rejected, Accepted, SaveStart
  <2> QED BY <1>5, <1>11, <2>3 DEF CoreStart, CallCore, Rejected, Accepted, SaveStart
<1>12. CASE StopCore
  BY <1>12 DEF StopCore
<1>13. CASE Kill \/ Boot
  <2>1. ProcessGone /\ last' \in Sources \cup {"stop", "killed"}
    BY <1>13 DEF Kill, Boot
  <2>2. NoWorker \in [phase : {"idle", "call", "accepted", "rejected", "saving"},
                      orphan : BOOLEAN]
    BY DEF NoWorker
  <2> QED BY <2>1, <2>2 DEF ProcessGone
<1> QED BY <1>1, <1>2, <1>3, <1>6, <1>7, <1>8, <1>9, <1>10, <1>11, <1>12, <1>13
        DEF Next, HandleMessage
-----------------------------------------------------------------------------
(* The queue of a stopped service *)

LEMMA DownStep ==
    ASSUME AndroidTypeOK, DownInv, Next PROVE DownInv'
<1> USE DEF AndroidTypeOK, LooperTypes, DownInv, os
<1>1. ASSUME NEW i \in Invokes, StartKeepalive(i) \/ Await(i) PROVE DownInv'
  BY <1>1 DEF StartKeepalive, Await, AwaitLookup, AwaitAnswered, AwaitTimeout, RollBack,
              RejectStart, SendGuarded, Send, EndsDown
<1>2. CASE StopKeepalive \/ NotificationStop \/ UpdateType
  BY <1>2 DEF StopKeepalive, NotificationStop, UpdateType, SendGuarded, Send, EndsDown
<1>3. ASSUME NEW k, Received(k), k # "destroy",
             StopSelf(Rest) \/ (looper' = Rest /\ started' = started)
      PROVE  DownInv'
  BY <1>3, Rests, Stops DEF EndsDown
<1>4. CASE HandleStart \/ HandleStop \/ HandleOsRestart \/ HandleUpdateType
  BY <1>3, <1>4 DEF HandleStart, HandleStop, HandleOsRestart, HandleUpdateType, PromotionFails
<1>5. CASE OnDestroy
  BY <1>5, Rests DEF OnDestroy, EndsDown
<1>6. ASSUME NEW p \in Policies, OnTimeout(p) PROVE DownInv'
  BY <1>6, Stops DEF OnTimeout
<1>7. ASSUME NEW s \in Sources, CoreStart(s) PROVE DownInv'
  <2>1. CASE StopSelf(looper) /\ alive' = alive
    BY <2>1, Stops DEF StopSelf
  <2>2. CASE UNCHANGED <<looper, started, alive>>
    BY <2>2 DEF EndsDown
  <2> QED BY <1>7, <2>1, <2>2 DEF CoreStart, CallCore, Rejected, Accepted, SaveStart
<1>8. CASE StopCore
  BY <1>8 DEF StopCore, EndsDown
<1>9. CASE Kill \/ Boot
  BY <1>9 DEF Kill, Boot, ProcessGone
<1> QED BY <1>1, <1>2, <1>4, <1>5, <1>6, <1>7, <1>8, <1>9 DEF Next, HandleMessage
-----------------------------------------------------------------------------
(* Starts on their way *)

LEMMA OrderSame ==
    ASSUME AndroidTypeOK, OrderInv,
           StartsOnce(looper'), \A s : HasStart(looper', s) => HasStart(looper, s),
           UNCHANGED <<worker, ack, waiter>>, alive => alive', last' = last \/ last' \notin Invokes
    PROVE  OrderInv'
  BY DEF AndroidTypeOK, ThreadTypes, OrderInv, InFlight

LEMMA Fewer ==
    ASSUME looper \in Seq(Messages), started \in BOOLEAN, StartsOnce(looper), NEW k, Received(k),
           looper' = Rest \/ StopSelf(Rest)
    PROVE  /\ StartsOnce(looper') /\ \A s : HasStart(looper', s) => HasStart(looper, s)
           /\ k = "start" => ~HasStart(looper', Head(looper).source)
  BY Rests, Stops

LEMMA OrderStep ==
    ASSUME AndroidTypeOK, OrderInv, Next PROVE OrderInv'
<1> USE SourcesAre DEF AndroidTypeOK, LooperTypes, os, commands
<1>1. ASSUME NEW i \in Invokes, StartKeepalive(i) PROVE OrderInv'
  <2>1. ~HasStart(looper, i) /\ ~InFlight(i) /\ waiter[i] = "idle"
    BY <1>1 DEF StartKeepalive, OrderInv
  <2>2. CASE Send("start", i) /\ UNCHANGED last
    <3>1. /\ StartsOnce(looper') /\ \A t : HasStart(looper', t) <=> HasStart(looper, t) \/ i = t
      BY <2>1, <2>2, Sends, Letters DEF OrderInv
    <3> QED BY <1>1, <2>1, <2>2, <3>1
            DEF StartKeepalive, OrderInv, ThreadTypes, InFlight
  <2>3. CASE UNCHANGED looper /\ last' = "refused" /\ UNCHANGED ack
                /\ waiter' = [waiter EXCEPT ![i] = "rejected"]
    BY <1>1, <2>1, <2>3 DEF StartKeepalive, OrderInv, ThreadTypes, InFlight
  <2> QED BY <1>1, <2>2, <2>3 DEF StartKeepalive
<1>2. ASSUME NEW i \in Invokes, Await(i) PROVE OrderInv'
  <2>1. CASE AwaitLookup(i)
    BY <2>1 DEF AwaitLookup, Found, OrderInv, ThreadTypes, InFlight
  <2>2. CASE AwaitAnswered(i)
    BY <2>2 DEF AwaitAnswered, OrderInv, ThreadTypes, InFlight
  <2>3. CASE AwaitTimeout(i)
    BY <2>3 DEF AwaitTimeout, OrderInv, ThreadTypes, InFlight
  <2>4. CASE RejectStart(i)
    BY <2>4 DEF RejectStart, OrderInv, ThreadTypes, InFlight
  <2>5. CASE RollBack(i)
    <3>1. Message("stop", i) \in Messages
      BY Letters
    <3>2. StartsOnce(looper') /\ \A t : HasStart(looper', t) <=> HasStart(looper, t)
      BY <2>5, <3>1, Sends DEF RollBack, SendGuarded, OrderInv
    <3> QED BY <2>5, <3>2 DEF RollBack, OrderInv, ThreadTypes, InFlight
  <2> QED BY <1>2, <2>1, <2>2, <2>3, <2>4, <2>5 DEF Await
<1>3. CASE StopKeepalive \/ NotificationStop \/ UpdateType
  <2> DEFINE Kept == StartsOnce(looper') /\ \A t : HasStart(looper', t) <=> HasStart(looper, t)
  <2>1. Message("stop", "command") \in Messages /\ Message("stop", "notification") \in Messages
        /\ Message("type", "command") \in Messages
    BY Letters
  <2>2. ASSUME Send("stop", "command") PROVE Kept
    BY <2>1, <2>2, Sends DEF OrderInv
  <2>3. ASSUME Send("stop", "notification") PROVE Kept
    BY <2>1, <2>3, Sends DEF OrderInv
  <2>4. ASSUME Send("type", "command") PROVE Kept
    BY <2>1, <2>4, Sends DEF OrderInv
  <2>5. Kept
    BY <1>3, <2>2, <2>3, <2>4
       DEF StopKeepalive, NotificationStop, UpdateType, SendGuarded, OrderInv
  <2> QED BY <1>3, <2>5, OrderSame DEF StopKeepalive, NotificationStop, UpdateType
<1>4. CASE HandleStart
  <2>1. PICK s \in Sources : s = Head(looper).source /\ HasStart(looper, s)
    BY <1>4, Rests DEF HandleStart
  <2>2. /\ StartsOnce(looper') /\ \A t : HasStart(looper', t) => HasStart(looper, t)
        /\ ~HasStart(looper', s)
    BY <1>4, <2>1, Fewer DEF HandleStart, PromotionFails, OrderInv
  <2>3. last' = s /\ alive' /\ UNCHANGED waiter /\ ~InFlight(s)
    BY <1>4, <2>1 DEF HandleStart, OrderInv
  <2>4. CASE SpawnStart(s) /\ UNCHANGED ack
    BY <2>1, <2>2, <2>3, <2>4 DEF OrderInv, InFlight, SpawnStart, ThreadTypes
  <2>5. CASE Complete(s, "fail") /\ UNCHANGED worker
    BY <2>1, <2>2, <2>3, <2>5 DEF OrderInv, InFlight, Complete, ThreadTypes
  <2> QED BY <1>4, <2>1, <2>4, <2>5 DEF HandleStart
<1>5. CASE HandleStop \/ HandleUpdateType
  <2>1. StartsOnce(looper') /\ \A t : HasStart(looper', t) => HasStart(looper, t)
    BY <1>5, Fewer DEF HandleStop, HandleUpdateType, PromotionFails, OrderInv
  <2> QED BY <1>5, <2>1, OrderSame DEF HandleStop, HandleUpdateType
<1>6. CASE HandleOsRestart
  <2>1. StartsOnce(looper') /\ \A t : HasStart(looper', t) => HasStart(looper, t)
    BY <1>6, Fewer DEF HandleOsRestart, PromotionFails, OrderInv
  <2>2. ~HasStart(looper, "restart")
    BY RestartIsNoStart
  <2>3. CASE UNCHANGED worker
    BY <1>6, <2>1, <2>3, OrderSame DEF HandleOsRestart
  <2>4. CASE SpawnStart("restart") /\ last' = "restart"
    BY <1>6, <2>1, <2>2, <2>4
       DEF HandleOsRestart, SpawnStart, OrderInv, ThreadTypes, InFlight
  <2> QED BY <1>6, <2>3, <2>4 DEF HandleOsRestart
<1>7. CASE OnDestroy
  <2>1. StartsOnce(looper') /\ \A t : HasStart(looper', t) => HasStart(looper, t)
    BY <1>7, Fewer DEF OnDestroy, OrderInv
  <2> QED BY <1>7, <2>1 DEF OnDestroy, OrderInv, ThreadTypes, InFlight
<1>8. ASSUME NEW p \in Policies, OnTimeout(p) PROVE OrderInv'
  BY <1>8, Stops, OrderSame DEF OnTimeout, OrderInv
<1>9. ASSUME NEW s \in Sources, CoreStart(s) PROVE OrderInv'
  <2>1. StartsOnce(looper') /\ \A t : HasStart(looper', t) <=> HasStart(looper, t)
    BY <1>9, Stops DEF CoreStart, CallCore, Rejected, Accepted, SaveStart, OrderInv
  <2>2. CASE CallCore(s) \/ Accepted(s)
    <3>1. \A t \in Sources : /\ InFlight(t)' <=> InFlight(t)
                             /\ worker'[t].orphan <=> worker[t].orphan
      BY <2>2 DEF CallCore, Accepted, ThreadTypes, InFlight
    <3>2. UNCHANGED <<ack, waiter, last, alive>>
      BY <2>2 DEF CallCore, Accepted
    <3> QED BY <2>1, <3>1, <3>2 DEF OrderInv
  <2>3. ASSUME NEW r, InFlight(s), Complete(s, r), worker' = [worker EXCEPT ![s] = NoWorker],
               UNCHANGED <<waiter, alive, last>>
        PROVE  OrderInv'
    <3>1. ~InFlight(s)' /\ ~worker'[s].orphan
          /\ \A t \in Sources \ {s} : worker'[t] = worker[t]
      BY <2>3 DEF NoWorker, ThreadTypes, InFlight
    <3>2. \A i \in Invokes : ack'[i] = ack[i] \/ (i = s /\ ack[i] = "pending")
      BY <2>3 DEF Complete, ThreadTypes
    <3> QED BY <2>1, <2>3, <3>1, <3>2 DEF OrderInv, InFlight
  <2>4. CASE Rejected(s)
    BY <2>3, <2>4 DEF Rejected, InFlight
  <2>5. CASE SaveStart(s)
    BY <2>3, <2>5 DEF SaveStart, InFlight
  <2> QED BY <1>9, <2>2, <2>4, <2>5 DEF CoreStart
<1>10. CASE StopCore
  BY <1>10, OrderSame DEF StopCore, OrderInv
<1>11. CASE Kill \/ Boot
  <2>1. looper' \in {<<>>, <<Message("restart", "android")>>, <<Message("start", "boot")>>}
    BY <1>11 DEF Kill, Boot
  <2>2. StartsOnce(looper') /\ \A s \in Invokes : ~HasStart(looper', s)
    BY <2>1, Empty, Letters, BoundsAssumption DEF BoundsAssumption, StartsOnce, HasStart
  <2>3. \A s \in Sources : worker'[s] = NoWorker
    BY <1>11 DEF Kill, Boot, ProcessGone
  <2>4. last' \notin Invokes
    BY <1>11 DEF Kill, Boot
  <2> QED BY <2>2, <2>3, <2>4 DEF OrderInv, InFlight, NoWorker
<1> QED BY <1>1, <1>2, <1>3, <1>4, <1>5, <1>6, <1>7, <1>8, <1>9, <1>10, <1>11
        DEF Next, HandleMessage
-----------------------------------------------------------------------------
(* A recreated process *)

LEMMA RestartStep ==
    ASSUME AndroidTypeOK, RestartInv, Next PROVE RestartInv'
<1> USE DEF AndroidTypeOK, LooperTypes, flags, os, commands
<1>1. ASSUME NEW k \in {"start", "stop", "type"}, NEW s, Message(k, s) \in Messages, Send(k, s),
             UNCHANGED <<core, flags, monitor, stoppers, worker>>
      PROVE  RestartInv'
  <2>1. CASE looper = <<>>
    BY <1>1, <2>1, Sends, Empty DEF RestartInv
  <2>2. CASE looper # <<>>
    BY <1>1, <2>2, Sends DEF RestartInv, StartInFlight
  <2> QED BY <2>1, <2>2
<1>2. ASSUME UNCHANGED <<looper, started, core, flags, monitor, stoppers, worker>>
      PROVE  RestartInv'
  BY <1>2 DEF RestartInv, StartInFlight
<1>3. ASSUME NEW i \in Invokes, StartKeepalive(i) \/ Await(i) PROVE RestartInv'
  BY <1>1, <1>2, <1>3, Letters
     DEF StartKeepalive, Await, AwaitLookup, AwaitAnswered, AwaitTimeout, RollBack, RejectStart,
         SendGuarded
<1>4. CASE StopKeepalive \/ NotificationStop \/ UpdateType
  BY <1>1, <1>2, <1>4, Letters DEF StopKeepalive, NotificationStop, UpdateType, SendGuarded
<1>5. ASSUME NEW k, Received(k), looper' = Rest \/ StopSelf(Rest) PROVE ~Has(looper', "restart")
  <2>1. Has(looper', "restart") <=> Has(Rest, "restart")
    BY <1>5, Rests, Stops
  <2> QED BY <1>5, <2>1, Rests DEF RestartInv, Received, Rest
<1>6. CASE HandleMessage
  BY <1>5, <1>6
     DEF HandleMessage, HandleStart, HandleStop, HandleOsRestart, HandleUpdateType, OnDestroy,
         PromotionFails, RestartInv
<1>7. ASSUME NEW p \in Policies, OnTimeout(p) PROVE RestartInv'
  BY <1>7, Stops DEF OnTimeout, RestartInv
<1>8. ASSUME NEW s \in Sources, CoreStart(s) PROVE RestartInv'
  <2>1. ~Has(looper, "restart")
    BY <1>8 DEF CoreStart, CallCore, Rejected, Accepted, SaveStart, RestartInv, StartInFlight
  <2>2. ~Has(looper', "restart")
    BY <1>8, <2>1, Stops DEF CoreStart, CallCore, Rejected, Accepted, SaveStart
  <2> QED BY <2>2 DEF RestartInv
<1>9. CASE StopCore
  BY <1>9 DEF StopCore, RestartInv
<1>10. CASE Kill
  <2>1. CASE looper' = <<>>
    BY <2>1, Empty DEF RestartInv
  <2>2. CASE looper' = <<Message("restart", "android")>> /\ started'
    <3>1. /\ Head(looper').kind = "restart" /\ Tail(looper') = <<>>
          /\ \A n \in DOMAIN looper' : looper'[n].kind = "restart"
      BY <2>2, Letters
    <3>2. ~Has(Tail(looper'), "restart") /\ ~Has(looper', "destroy")
      BY <3>1, Empty DEF Has
    <3>3. ~StartInFlight'
      BY <1>10 DEF Kill, ProcessGone, StartInFlight, NoWorker
    <3> QED BY <1>10, <2>2, <3>1, <3>2, <3>3 DEF Kill, ProcessGone, RestartInv
  <2> QED BY <1>10, <2>1, <2>2 DEF Kill
<1>11. CASE Boot
  <2>1. looper' \in {<<>>, <<Message("start", "boot")>>}
    BY <1>11 DEF Boot
  <2>2. ~Has(looper', "restart")
    BY <2>1, Empty, Letters DEF Has
  <2> QED BY <2>2 DEF RestartInv
<1> QED BY <1>3, <1>4, <1>6, <1>7, <1>8, <1>9, <1>10, <1>11 DEF Next
-----------------------------------------------------------------------------
(* A core start has the service to itself *)

LEMMA DownIsDestroyed == \A q \in Seq(Messages) : EndsDown(q) => Has(q, "destroy")
  BY DEF EndsDown, Has

LEMMA Grounded ==
    ASSUME ~leaked', StartsSurvive(looper'), ~StartInFlight'
    PROVE  FlightInv'
<1>1. \A s \in Sources : ~InFlight(s)'
  BY DEF StartInFlight, InFlight
<1> QED BY <1>1, SourcesAre DEF FlightInv, InFlight

LEMMA FlightStep ==
    ASSUME AndroidTypeOK, DownInv, OrderInv, RestartInv, FlightInv, RollInv, Next, ~raced'
    PROVE  FlightInv'
<1> USE SourcesAre DEF AndroidTypeOK, LooperTypes, flags, os, commands
<1>1. ~StartInFlight => \A s \in Sources : ~InFlight(s)
  BY DEF StartInFlight, InFlight
<1>2. ASSUME NEW k \in {"start", "stop", "type"}, NEW m, Message(k, m) \in Messages, Send(k, m),
             UNCHANGED <<leaked, worker, stoppers, core, isRunning, monitor>>,
             last' \in {last, "refused"}, prefs => prefs'
      PROVE  FlightInv'
  BY <1>2, Sends DEF FlightInv, InFlight
<1>3. ASSUME UNCHANGED <<looper, started, leaked, worker, stoppers, core, isRunning, monitor>>,
             last' \in {last, "refused"}, prefs => prefs'
      PROVE  FlightInv'
  BY <1>3 DEF FlightInv, InFlight
<1>4. ASSUME NEW m, Message("stop", m) \in Messages, SendGuarded("stop", m),
             UNCHANGED <<leaked, worker>>
      PROVE  FlightInv'
  <2>1. ~StartInFlight /\ Send("stop", m)
    BY <1>4 DEF SendGuarded, NoteRace
  <2> QED BY <1>4, <2>1, Sends, Grounded DEF FlightInv, StartInFlight
<1>5. ASSUME NEW i \in Invokes, StartKeepalive(i) PROVE FlightInv'
  <2>1. CASE Send("start", i) /\ prefs' /\ UNCHANGED last
    BY <1>2, <1>5, <2>1, Letters DEF StartKeepalive
  <2>2. CASE last' = "refused" /\ UNCHANGED <<looper, started>>
    <3>1. \A s \in Invokes : InFlight(s) => Has(looper, "stop")
      BY <1>5 DEF StartKeepalive, CommandsIdle, Answered, OrderInv, RollInv
    <3> QED BY <1>5, <2>2, <3>1 DEF StartKeepalive, FlightInv, InFlight
  <2> QED BY <1>5, <2>1, <2>2 DEF StartKeepalive
<1>6. ASSUME NEW i \in Invokes, Await(i) PROVE FlightInv'
  BY <1>3, <1>4, <1>6, Letters
     DEF Await, AwaitLookup, AwaitAnswered, AwaitTimeout, RollBack, RejectStart
<1>7. CASE StopKeepalive
  BY <1>4, <1>7, Letters DEF StopKeepalive
<1>8. CASE NotificationStop \/ UpdateType
  BY <1>2, <1>8, Letters DEF NotificationStop, UpdateType
<1>9. ASSUME NEW k, Received(k), StopSelf(Rest), UNCHANGED <<leaked, worker>>,
             ~StartInFlight, ~StartQueued(Rest)
      PROVE  FlightInv'
  BY <1>9, Rests, Stops, Grounded DEF FlightInv, StartInFlight
<1>10. ASSUME NEW s \in Sources, NEW k, Received(k), looper' = Rest, SpawnStart(s), last' = s,
              started' = started, started, stoppers = 0, ~StartInFlight, ~Has(Rest, "destroy"),
              s = "restart" => ~core, UNCHANGED <<leaked, stoppers, core>>
       PROVE  FlightInv'
  <2>1. worker'[s] = [phase |-> "call", orphan |-> FALSE]
        /\ \A t \in Sources \ {s} : worker'[t] = worker[t]
    BY <1>10 DEF SpawnStart, ThreadTypes
  <2> QED BY <1>1, <1>10, <2>1, Rests DEF FlightInv, InFlight
<1>11. CASE HandleStart
  <2>1. PICK s \in Invokes \cup {"boot"} : s = Head(looper).source
    BY <1>11, Rests DEF HandleStart
  <2>2. Rest \in Seq(Messages) /\ ~Has(Rest, "destroy") /\ started
    BY <1>11, Rests, DownIsDestroyed DEF HandleStart, FlightInv, DownInv
  <2>3. CASE SpawnStart(s) /\ looper' = Rest /\ NoteRace(stoppers > 0 \/ StartInFlight)
             /\ UNCHANGED started
    <3> DEFINE busy == stoppers > 0
    <3>1. ~busy /\ ~StartInFlight
      <4> HIDE DEF busy
      <4>1. raced' = (raced \/ (busy \/ StartInFlight))
        BY <2>3 DEF NoteRace, busy
      <4> QED BY <4>1
    <3>2. /\ Received("start") /\ last' = s /\ UNCHANGED <<leaked, stoppers, core>>
          /\ s \in Sources /\ s # "restart"
      BY <1>11, <2>1 DEF HandleStart
    <3>3. stoppers = 0
      BY <3>1 DEF ThreadTypes
    <3> QED BY <1>10, <2>2, <2>3, <3>1, <3>2, <3>3
  <2>4. CASE PromotionFails /\ UNCHANGED worker
    BY <1>9, <1>11, <2>4 DEF HandleStart, PromotionFails, NoteRace
  <2> QED BY <1>11, <2>1, <2>3, <2>4 DEF HandleStart
<1>12. CASE HandleStop
  BY <1>9, <1>12 DEF HandleStop, NoteRace
<1>13. CASE HandleOsRestart
  <2>1. /\ ~StartInFlight /\ started /\ stoppers = 0 /\ ~core /\ ~Has(Rest, "destroy")
    BY <1>13, Rests DEF HandleOsRestart, RestartInv
  <2>2. CASE StopSelf(Rest) /\ NoteRace(StartQueued(Rest)) /\ UNCHANGED worker
    BY <1>9, <1>13, <2>1, <2>2 DEF HandleOsRestart, NoteRace
  <2>3. CASE SpawnStart("restart") /\ looper' = Rest /\ last' = "restart" /\ UNCHANGED started
    BY <1>10, <1>13, <2>1, <2>3 DEF HandleOsRestart
  <2>4. CASE PromotionFails /\ UNCHANGED worker
    BY <1>9, <1>13, <2>1, <2>4 DEF HandleOsRestart, PromotionFails, NoteRace
  <2> QED BY <1>13, <2>2, <2>3, <2>4 DEF HandleOsRestart
<1>14. CASE HandleUpdateType
  <2>1. CASE looper' = Rest /\ UNCHANGED <<started, last>>
    BY <1>14, <2>1, Rests DEF HandleUpdateType, FlightInv, InFlight
  <2>2. CASE PromotionFails
    BY <1>9, <1>14, <2>2 DEF HandleUpdateType, PromotionFails, NoteRace
  <2> QED BY <1>14, <2>1, <2>2 DEF HandleUpdateType
<1>15. CASE OnDestroy
  <2>1. Has(looper, "destroy") /\ StartsSurvive(Rest)
    BY <1>15, Rests DEF OnDestroy, FlightInv
  <2>2. \A s \in Sources : worker[s].phase = "idle"
    BY <2>1 DEF FlightInv, InFlight
  <2>3. ~StartInFlight'
    BY <1>15, <2>2 DEF OnDestroy, StartInFlight, ThreadTypes
  <2> QED BY <1>15, <2>1, <2>3, Grounded DEF OnDestroy, FlightInv
<1>16. ASSUME NEW p \in Policies, OnTimeout(p) PROVE FlightInv'
  BY <1>16, Stops, Queued, Grounded DEF OnTimeout, NoteRace, FlightInv, StartInFlight
<1>17. ASSUME NEW s \in Sources, CoreStart(s) PROVE FlightInv'
  <2>1. /\ InFlight(s) /\ ~worker[s].orphan
        /\ \A t \in Sources \ {s} : ~InFlight(t)
    BY <1>17 DEF CoreStart, CallCore, Rejected, Accepted, SaveStart, FlightInv, InFlight
  <2>2. ASSUME worker' = [worker EXCEPT ![s] = NoWorker] PROVE ~StartInFlight'
    BY <2>1, <2>2 DEF StartInFlight, InFlight, NoWorker, ThreadTypes
  <2>3. CASE CallCore(s)
    <3>1. /\ \A t \in Sources \ {s} : worker'[t] = worker[t]
          /\ worker'[s].orphan = worker[s].orphan
          /\ \/ worker'[s].phase = "accepted" /\ core'
             \/ worker'[s].phase = "rejected" /\ core' = core
      BY <2>3 DEF CallCore, ThreadTypes
    <3>2. "restart" # s => worker["restart"].phase = "idle"
      BY <2>1 DEF InFlight
    <3>3. worker[s].phase = "call"
      BY <2>3 DEF CallCore
    <3> QED BY <2>1, <2>3, <3>1, <3>2, <3>3 DEF CallCore, FlightInv, InFlight
  <2>4. CASE Rejected(s)
    BY <2>1, <2>2, <2>4, Stops, Queued, Grounded DEF Rejected, NoteRace, FlightInv
  <2>5. CASE Accepted(s)
    BY <2>1, <2>5 DEF Accepted, FlightInv, InFlight, ThreadTypes
  <2>6. CASE SaveStart(s)
    BY <2>2, <2>6, Grounded DEF SaveStart, FlightInv
  <2> QED BY <1>17, <2>3, <2>4, <2>5, <2>6 DEF CoreStart
<1>18. CASE StopCore
  BY <1>18 DEF StopCore, FlightInv, InFlight
<1>19. CASE Kill \/ Boot
  <2>1. looper' \in {<<>>, <<Message("restart", "android")>>, <<Message("start", "boot")>>}
    BY <1>19 DEF Kill, Boot
  <2>2. StartsSurvive(looper')
    BY <2>1, Empty, Letters DEF StartsSurvive
  <2> QED BY <1>19, <2>2, Grounded DEF Kill, Boot, ProcessGone, StartInFlight, NoWorker
<1> QED BY <1>5, <1>6, <1>7, <1>8, <1>11, <1>12, <1>13, <1>14, <1>15, <1>16, <1>17, <1>18, <1>19
        DEF Next, HandleMessage
-----------------------------------------------------------------------------
(* After a stop *)

LEMMA NoFlightOtherwise ==
    ASSUME FlightInv, last \in {"none", "stop", "timeout", "killed"}
    PROVE  ~StartInFlight
  BY SourcesAre DEF FlightInv, InFlight, StartInFlight

LEMMA StopStep ==
    ASSUME AndroidTypeOK, DownInv, OrderInv, RestartInv, FlightInv, StopInv, Next, ~raced'
    PROVE  StopInv'
<1> USE SourcesAre DEF AndroidTypeOK, LooperTypes, flags, os, commands
<1>1. ASSUME NEW k \in {"start", "stop", "type"}, NEW m, Message(k, m) \in Messages, Send(k, m),
             UNCHANGED <<durable, prefs, core, isRunning, monitor, stoppers, last, waiter>>
      PROVE  StopInv'
  BY <1>1, Sends DEF StopInv
<1>2. ASSUME NEW m, Message("stop", m) \in Messages, SendGuarded("stop", m) PROVE Has(looper', "stop")
  BY <1>2, Sends DEF SendGuarded, NoteRace
<1>3. ASSUME NEW i \in Invokes, StartKeepalive(i) PROVE StopInv'
  <2>1. CASE Send("start", i) /\ waiter' = [waiter EXCEPT ![i] = "lookup"]
             /\ UNCHANGED <<durable, last>>
    <3>1. HasStart(looper', i) /\ waiter'[i] = "lookup"
          /\ \A k : Has(looper, k) => Has(looper', k)
      BY <2>1, Sends, Letters DEF ThreadTypes
    <3> QED BY <1>3, <2>1, <3>1 DEF StartKeepalive, StopInv
  <2>2. CASE last' = "refused"
    BY <2>2 DEF StopInv
  <2> QED BY <1>3, <2>1, <2>2 DEF StartKeepalive
<1>4. ASSUME NEW i \in Invokes, Await(i) PROVE StopInv'
  <2>1. ASSUME NEW j \in Invokes, HasStart(looper, j), waiter[j] \in {"lookup", "waiting", "failed"},
               ~RollBack(i)
        PROVE  HasStart(looper', j) /\ waiter'[j] \in {"lookup", "waiting", "failed"}
    BY <1>4, <2>1
       DEF Await, AwaitLookup, AwaitAnswered, AwaitTimeout, RejectStart, Found, ThreadTypes,
           OrderInv
  <2>2. CASE AwaitLookup(i) \/ AwaitAnswered(i) \/ AwaitTimeout(i)
    BY <2>1, <2>2 DEF AwaitLookup, AwaitAnswered, AwaitTimeout, RollBack, StopInv
  <2>3. CASE RejectStart(i)
    BY <2>1, <2>3 DEF RejectStart, RollBack, FreshState, StopInv
  <2>4. CASE RollBack(i)
    BY <1>2, <2>4, Letters DEF RollBack, StopInv
  <2> QED BY <1>4, <2>2, <2>3, <2>4 DEF Await
<1>5. CASE StopKeepalive
  BY <1>2, <1>5, Letters DEF StopKeepalive, FreshState, StopInv
<1>6. CASE NotificationStop \/ UpdateType
  BY <1>1, <1>6, Letters DEF NotificationStop, UpdateType
<1>7. CASE HandleStart
  <2>1. last' \in Invokes \cup {"boot"}
    BY <1>7, Rests DEF HandleStart
  <2> QED BY <2>1 DEF StopInv
<1>8. CASE HandleStop
  <2>1. Has(looper', "destroy")
    BY <1>8, Rests, Stops, DownIsDestroyed DEF HandleStop, DownInv
  <2>2. stoppers' > 0
    BY <1>8 DEF HandleStop, SpawnStop, ThreadTypes
  <2>3. ~durable'.desired /\ ~durable'.recovery
    BY <1>8 DEF HandleStop, BuildStopState, ServiceTypes, Records
  <2> QED BY <1>8, <2>1, <2>2, <2>3 DEF HandleStop, StopInv
<1>9. CASE HandleOsRestart
  <2>1. ~core /\ ~isRunning /\ ~monitor
    BY <1>9, Rests DEF HandleOsRestart, RestartInv
  <2> QED BY <1>9, <2>1 DEF HandleOsRestart, StopInv
<1>10. CASE HandleUpdateType
  <2>1. CASE looper' = Rest
    BY <1>10, <2>1, Rests DEF HandleUpdateType, StopInv
  <2>2. CASE last' = "refused"
    BY <2>2 DEF StopInv
  <2> QED BY <1>10, <2>1, <2>2 DEF HandleUpdateType
<1>11. CASE OnDestroy
  BY <1>11, Rests DEF OnDestroy, StopInv
<1>12. ASSUME NEW p \in Policies, OnTimeout(p) PROVE StopInv'
  BY <1>12 DEF OnTimeout, StopInv
<1>13. ASSUME NEW s \in Sources, CoreStart(s) PROVE StopInv'
  BY <1>13, NoFlightOtherwise
     DEF CoreStart, CallCore, Rejected, Accepted, SaveStart, StopInv, StartInFlight
<1>14. CASE StopCore
  BY <1>14 DEF StopCore, StopInv
<1>15. CASE Kill
  BY <1>15, Empty DEF Kill, ProcessGone, StopInv
<1>16. CASE Boot
  <2>1. SUFFICES ASSUME last' = "stop" PROVE StopInv'
    BY DEF StopInv
  <2>2. last = "stop" /\ CommandsIdle /\ UNCHANGED durable
    BY <1>16, <2>1 DEF Boot
  <2>3. ~prefs
    BY <2>2 DEF StopInv, CommandsIdle, Answered
  <2> QED BY <1>16, <2>2, <2>3 DEF Boot, ProcessGone, StopInv
<1> QED BY <1>3, <1>4, <1>5, <1>6, <1>7, <1>8, <1>9, <1>10, <1>11, <1>12, <1>13, <1>14, <1>15,
           <1>16 DEF Next, HandleMessage
-----------------------------------------------------------------------------
(* Rollbacks *)

LEMMA RollStep ==
    ASSUME AndroidTypeOK, OrderInv, RestartInv, FlightInv, RollInv, Next, ~raced'
    PROVE  RollInv'
<1> USE SourcesAre DEF AndroidTypeOK, LooperTypes, flags, os, commands
<1>1. ASSUME NEW m, Message("stop", m) \in Messages, SendGuarded("stop", m) PROVE Has(looper', "stop")
  BY <1>1, Sends DEF SendGuarded, NoteRace
<1>2. ASSUME Has(looper', "stop") PROVE RollInv'
  BY <1>2 DEF RollInv
<1>3. ASSUME NEW i \in Invokes, StartKeepalive(i) PROVE RollInv'
  <2>1. /\ waiter[i] = "idle" /\ ~HasStart(looper, i) /\ ~InFlight(i)
        /\ \A j \in Invokes : waiter[j] # "saving"
    BY <1>3 DEF StartKeepalive, CommandsIdle, Answered, OrderInv
  <2>2. CASE Send("start", i) /\ waiter' = [waiter EXCEPT ![i] = "lookup"] /\ UNCHANGED last
    <3>1. /\ \A k : Has(looper, k) => Has(looper', k)
          /\ \A s : s # i => (HasStart(looper', s) <=> HasStart(looper, s))
      BY <2>2, Sends, Letters
    <3> QED BY <1>3, <2>1, <2>2, <3>1 DEF StartKeepalive, RollInv, InFlight, ThreadTypes
  <2>3. CASE last' = "refused" /\ waiter' = [waiter EXCEPT ![i] = "rejected"] /\ UNCHANGED looper
    BY <1>3, <2>1, <2>3 DEF StartKeepalive, RollInv, InFlight, ThreadTypes
  <2> QED BY <1>3, <2>2, <2>3 DEF StartKeepalive
<1>4. ASSUME NEW i \in Invokes, Await(i) PROVE RollInv'
  <2>1. CASE AwaitLookup(i)
    BY <2>1 DEF AwaitLookup, Found, RollInv, InFlight, ThreadTypes
  <2>2. CASE AwaitAnswered(i)
    BY <2>2 DEF AwaitAnswered, RollInv, InFlight, ThreadTypes
  <2>3. CASE AwaitTimeout(i)
    BY <2>3 DEF AwaitTimeout, RollInv, InFlight, ThreadTypes
  <2>4. CASE RollBack(i)
    BY <1>1, <1>2, <2>4, Letters DEF RollBack
  <2>5. CASE RejectStart(i)
    BY <2>5 DEF RejectStart, RollInv, InFlight, ThreadTypes
  <2> QED BY <1>4, <2>1, <2>2, <2>3, <2>4, <2>5 DEF Await
<1>5. CASE StopKeepalive
  BY <1>1, <1>2, <1>5, Letters DEF StopKeepalive
<1>6. CASE NotificationStop
  BY <1>2, <1>6, Sends, Letters DEF NotificationStop
<1>7. CASE UpdateType
  BY <1>7, Sends, Letters DEF UpdateType, RollInv, InFlight
<1>8. CASE HandleStart
  <2>1. PICK s \in Invokes \cup {"boot"} : s = Head(looper).source /\ HasStart(looper, s)
    BY <1>8, Rests DEF HandleStart
  <2>2. /\ Has(looper, "start") /\ (Has(looper, "stop") => Has(looper', "stop"))
        /\ \A t : HasStart(looper', t) => HasStart(looper, t)
    BY <1>8, Rests, Stops DEF HandleStart, PromotionFails
  <2>3. \A t \in Sources : InFlight(t)' => InFlight(t) \/ t = s
    BY <1>8, <2>1 DEF HandleStart, SpawnStart, InFlight, ThreadTypes
  <2>4. last' = s /\ UNCHANGED waiter
    BY <1>8, <2>1 DEF HandleStart
  <2> QED BY <2>1, <2>2, <2>3, <2>4 DEF RollInv
<1>9. CASE HandleStop
  <2>1. ~StartInFlight /\ ~Has(Rest, "start") /\ UNCHANGED worker
    BY <1>9, Rests DEF HandleStop, NoteRace
  <2>2. ~Has(looper', "start") /\ ~Has(looper', "restart")
    BY <1>9, <2>1, Rests, Stops DEF HandleStop, RestartInv
  <2>3. \A t \in Sources : ~InFlight(t)' /\ ~HasStart(looper', t)
    BY <2>1, <2>2 DEF StartInFlight, InFlight, Has, HasStart
  <2> QED BY <1>9, <2>2, <2>3 DEF HandleStop, RollInv
<1>10. CASE HandleOsRestart
  <2>1. /\ Has(looper, "restart") /\ (Has(looper, "stop") => Has(looper', "stop"))
        /\ \A t : HasStart(looper', t) => HasStart(looper, t)
    BY <1>10, Rests, Stops DEF HandleOsRestart, PromotionFails
  <2>2. \A i \in Invokes : InFlight(i)' => InFlight(i)
    BY <1>10 DEF HandleOsRestart, SpawnStart, InFlight, ThreadTypes
  <2> QED BY <1>10, <2>1, <2>2 DEF HandleOsRestart, RollInv
<1>11. CASE HandleUpdateType
  <2>1. CASE looper' = Rest /\ UNCHANGED last
    BY <1>11, <2>1, Rests DEF HandleUpdateType, RollInv, InFlight
  <2>2. CASE isForeground /\ PromotionFails /\ last' = "refused"
    <3>1. /\ Has(looper, "stop") => Has(looper', "stop")
          /\ \A t : HasStart(looper', t) => HasStart(looper, t)
      BY <1>11, <2>2, Rests, Stops DEF HandleUpdateType, PromotionFails
    <3> QED BY <1>11, <2>2, <3>1 DEF HandleUpdateType, RollInv, InFlight
  <2> QED BY <1>11, <2>1, <2>2 DEF HandleUpdateType
<1>12. CASE OnDestroy
  <2>1. \A t \in Sources : InFlight(t)' => InFlight(t)
    BY <1>12 DEF OnDestroy, InFlight, ThreadTypes
  <2> QED BY <1>12, <2>1, Rests DEF OnDestroy, RollInv
<1>13. ASSUME NEW p \in Policies, OnTimeout(p) PROVE RollInv'
  <2>1. /\ \A k : Has(looper, k) => Has(looper', k)
        /\ \A t : HasStart(looper', t) => HasStart(looper, t)
    BY <1>13, Stops DEF OnTimeout
  <2> QED BY <1>13, <2>1 DEF OnTimeout, RollInv, InFlight
<1>14. ASSUME NEW s \in Sources, CoreStart(s) PROVE RollInv'
  <2>1. /\ \A k : k # "destroy" => (Has(looper', k) <=> Has(looper, k))
        /\ \A t : HasStart(looper', t) => HasStart(looper, t)
    BY <1>14, Stops DEF CoreStart, CallCore, Rejected, Accepted, SaveStart
  <2>2. \A t \in Sources : InFlight(t)' => InFlight(t)
    BY <1>14
       DEF CoreStart, CallCore, Rejected, Accepted, SaveStart, NoWorker, InFlight, ThreadTypes
  <2>3. UNCHANGED <<waiter, last>> /\ (isForeground' => isForeground)
    BY <1>14 DEF CoreStart, CallCore, Rejected, Accepted, SaveStart
  <2> QED BY <2>1, <2>2, <2>3 DEF RollInv
<1>15. CASE StopCore
  BY <1>15 DEF StopCore, RollInv, InFlight
<1>16. CASE Kill \/ Boot
  <2>1. looper' \in {<<>>, <<Message("restart", "android")>>, <<Message("start", "boot")>>}
    BY <1>16 DEF Kill, Boot
  <2>2. \A i \in Invokes : ~HasStart(looper', i)
    BY <2>1, Empty, Letters DEF HasStart
  <2>3. \A i \in Invokes : ~InFlight(i)' /\ waiter'[i] # "saving" /\ last' # i
    BY <1>16 DEF Kill, Boot, ProcessGone, InFlight, NoWorker, Answered
  <2> QED BY <2>2, <2>3 DEF RollInv
<1> QED BY <1>3, <1>4, <1>5, <1>6, <1>7, <1>8, <1>9, <1>10, <1>11, <1>12, <1>13, <1>14, <1>15,
           <1>16 DEF Next, HandleMessage
-----------------------------------------------------------------------------
(* Acknowledged starts *)

LEMMA UpStep ==
    ASSUME AndroidTypeOK, OrderInv, RestartInv, FlightInv, RollInv, UpInv, Next, ~raced'
    PROVE  UpInv'
<1> USE SourcesAre DEF AndroidTypeOK, LooperTypes, flags, os, commands
<1>1. ASSUME NEW k \in {"start", "stop", "type"}, NEW m, Message(k, m) \in Messages, Send(k, m),
             UNCHANGED <<core, isRunning, monitor, stoppers>>,
             k = "stop" \/ (durable' = durable /\ (prefs => prefs')),
             \A i \in Invokes : last' = i /\ ack'[i] = "ok" => last = i /\ ack[i] = "ok"
      PROVE  UpInv'
  BY <1>1, Sends DEF UpInv
<1>2. ASSUME last' \notin Invokes PROVE UpInv'
  BY <1>2 DEF UpInv
<1>3. ASSUME NEW i \in Invokes, StartKeepalive(i) PROVE UpInv'
  <2>1. CASE Send("start", i) /\ prefs' = TRUE /\ ack' = [ack EXCEPT ![i] = "pending"]
             /\ UNCHANGED <<durable, last>>
    <3>1. \A j \in Invokes : ack'[j] = "ok" => ack[j] = "ok"
      BY <2>1 DEF ThreadTypes
    <3> QED BY <1>1, <1>3, <2>1, <3>1, Letters DEF StartKeepalive
  <2>2. CASE last' = "refused"
    BY <1>2, <2>2
  <2> QED BY <1>3, <2>1, <2>2 DEF StartKeepalive
<1>4. ASSUME NEW i \in Invokes, Await(i) PROVE UpInv'
  <2>1. CASE AwaitLookup(i) \/ AwaitAnswered(i)
    BY <2>1 DEF AwaitLookup, AwaitAnswered, UpInv
  <2>2. CASE AwaitTimeout(i)
    <3>1. \A j \in Invokes : ack'[j] = "ok" => ack[j] = "ok"
      BY <2>2 DEF AwaitTimeout, ThreadTypes
    <3> QED BY <2>2, <3>1 DEF AwaitTimeout, UpInv
  <2>3. CASE RollBack(i)
    BY <1>1, <2>3, Letters DEF RollBack, SendGuarded, NoteRace
  <2>4. CASE RejectStart(i)
    <3>1. Has(looper, "stop") \/ last = "stop"
      BY <2>4 DEF RejectStart, RollInv
    <3> QED BY <2>4, <3>1 DEF RejectStart, UpInv
  <2> QED BY <1>4, <2>1, <2>2, <2>3, <2>4 DEF Await
<1>5. CASE StopKeepalive
  BY <1>2, <1>5 DEF StopKeepalive
<1>6. CASE NotificationStop \/ UpdateType
  BY <1>1, <1>6, Letters DEF NotificationStop, UpdateType
<1>7. CASE HandleStart
  <2>1. PICK s \in Invokes \cup {"boot"} : s = Head(looper).source /\ HasStart(looper, s)
    BY <1>7, Rests DEF HandleStart
  <2>2. last' = s /\ (s \in Invokes => ack[s] \in {"pending", "none"})
    BY <1>7, <2>1 DEF HandleStart, OrderInv
  <2>3. s \in Invokes => ack'[s] # "ok"
    BY <1>7, <2>1, <2>2 DEF HandleStart, Complete, ThreadTypes
  <2> QED BY <2>2, <2>3 DEF UpInv
<1>8. CASE HandleStop
  BY <1>2, <1>8 DEF HandleStop
<1>9. CASE HandleOsRestart
  <2>1. ~core
    BY <1>9, Rests DEF HandleOsRestart, RestartInv
  <2> QED BY <1>2, <1>9, <2>1 DEF HandleOsRestart, UpInv
<1>10. CASE HandleUpdateType
  <2>1. CASE looper' = Rest /\ UNCHANGED <<started, last>>
    BY <1>10, <2>1, Rests DEF HandleUpdateType, UpInv
  <2>2. CASE last' = "refused"
    BY <1>2, <2>2
  <2> QED BY <1>10, <2>1, <2>2 DEF HandleUpdateType
<1>11. CASE OnDestroy
  BY <1>11, Rests DEF OnDestroy, UpInv
<1>12. ASSUME NEW p \in Policies, OnTimeout(p) PROVE UpInv'
  BY <1>2, <1>12 DEF OnTimeout
<1>13. ASSUME NEW s \in Sources, CoreStart(s) PROVE UpInv'
  <2>1. /\ InFlight(s) /\ last \in {s, "refused"} /\ ~worker[s].orphan
        /\ started /\ stoppers = 0 /\ ~Has(looper, "destroy")
        /\ s \in Invokes => ack[s] \in {"pending", "none"}
    BY <1>13 DEF CoreStart, CallCore, Rejected, Accepted, SaveStart, FlightInv, InFlight, OrderInv
  <2>2. \A i \in Invokes : last = i => i = s /\ ack[i] # "ok"
    BY <2>1
  <2>3. CASE CallCore(s) \/ Accepted(s)
    BY <2>2, <2>3 DEF CallCore, Accepted, UpInv
  <2>4. CASE Rejected(s)
    <3>1. s \in Invokes => ack'[s] # "ok"
      BY <2>1, <2>4 DEF Rejected, Complete, ThreadTypes
    <3>2. UNCHANGED last
      BY <2>4 DEF Rejected
    <3> QED BY <2>2, <3>1, <3>2 DEF UpInv
  <2>5. CASE SaveStart(s)
    <3>1. core /\ isRunning /\ monitor /\ (s \in Invokes => prefs \/ Has(looper, "stop"))
      BY <2>1, <2>5 DEF SaveStart, FlightInv
    <3>2. durable'.desired
      BY <2>5 DEF SaveStart, BuildStartState, ServiceTypes, Records
    <3>3. UNCHANGED <<core, isRunning, monitor, prefs, started, stoppers, looper, last>>
      BY <2>5 DEF SaveStart
    <3> QED BY <2>1, <2>2, <3>1, <3>2, <3>3 DEF UpInv
  <2> QED BY <1>13, <2>3, <2>4, <2>5 DEF CoreStart
<1>14. CASE StopCore
  BY <1>14 DEF StopCore, UpInv
<1>15. CASE Kill \/ Boot
  <2>1. last' \in {"stop", "killed", "boot"}
    BY <1>15 DEF Kill, Boot
  <2> QED BY <1>2, <2>1
<1> QED BY <1>3, <1>4, <1>5, <1>6, <1>7, <1>8, <1>9, <1>10, <1>11, <1>12, <1>13, <1>14, <1>15
        DEF Next, HandleMessage
-----------------------------------------------------------------------------
(* Recreations and timeouts *)

LEMMA RecoverStep ==
    ASSUME AndroidTypeOK, OrderInv, RestartInv, FlightInv, RollInv, RecoverInv, Next, ~raced'
    PROVE  RecoverInv'
<1> USE SourcesAre DEF AndroidTypeOK, LooperTypes, flags, os, commands
<1>1. ASSUME NEW k \in {"start", "stop", "type"}, NEW m, Message(k, m) \in Messages, Send(k, m),
             UNCHANGED <<durable, core, flags, stoppers, worker, last>>,
             k = "type" => isRunning
      PROVE  RecoverInv'
  <2>1. /\ \A j : Has(looper', j) <=> Has(looper, j) \/ k = j
        /\ StartInFlight' <=> StartInFlight
    BY <1>1, Sends DEF StartInFlight
  <2> QED BY <1>1, <2>1 DEF RecoverInv
<1>2. ASSUME last' \notin {"restart", "timeout"} PROVE RecoverInv'
  BY <1>2 DEF RecoverInv
<1>3. ASSUME NEW i \in Invokes, StartKeepalive(i) PROVE RecoverInv'
  BY <1>1, <1>2, <1>3, Letters DEF StartKeepalive
<1>4. ASSUME NEW i \in Invokes, Await(i) PROVE RecoverInv'
  <2>1. CASE AwaitLookup(i) \/ AwaitAnswered(i) \/ AwaitTimeout(i)
    BY <2>1 DEF AwaitLookup, AwaitAnswered, AwaitTimeout, RecoverInv, StartInFlight
  <2>2. CASE RollBack(i)
    BY <1>1, <2>2, Letters DEF RollBack, SendGuarded, NoteRace
  <2>3. CASE RejectStart(i)
    <3>1. Has(looper, "stop") \/ last = "stop"
      BY <2>3 DEF RejectStart, RollInv
    <3> QED BY <2>3, <3>1 DEF RejectStart, RecoverInv
  <2> QED BY <1>4, <2>1, <2>2, <2>3 DEF Await
<1>5. CASE StopKeepalive
  BY <1>2, <1>5 DEF StopKeepalive
<1>6. CASE NotificationStop \/ UpdateType
  BY <1>1, <1>6, Letters DEF NotificationStop, UpdateType
<1>7. CASE HandleStart
  <2>1. last' \in Invokes \cup {"boot"}
    BY <1>7, Rests DEF HandleStart
  <2>2. last' \notin {"restart", "timeout"}
    BY <2>1
  <2> QED BY <1>2, <2>2
<1>8. CASE HandleStop
  BY <1>2, <1>8 DEF HandleStop
<1>9. CASE HandleOsRestart
  <2>1. stoppers = 0 /\ ~core /\ ~isRunning /\ ~isForeground
    BY <1>9, Rests DEF HandleOsRestart, RestartInv
  <2>2. CASE StopSelf(Rest) /\ UNCHANGED <<durable, isForeground, worker, last>>
    <3>1. ~started' /\ (Has(looper, "stop") => Has(looper', "stop"))
      BY <1>9, <2>2, Rests, Stops DEF HandleOsRestart
    <3> QED BY <1>9, <2>1, <2>2, <3>1 DEF HandleOsRestart, RecoverInv, StartInFlight
  <2>3. CASE durable' = Recovering(durable) /\ last' = "restart"
             /\ (SpawnStart("restart") \/ UNCHANGED worker)
    <3>1. durable'.recovery
      BY <2>3 DEF Recovering, ServiceTypes, Records
    <3> QED BY <1>9, <2>1, <2>3, <3>1 DEF HandleOsRestart, RecoverInv
  <2> QED BY <1>9, <2>2, <2>3 DEF HandleOsRestart
<1>10. CASE HandleUpdateType
  <2>1. CASE looper' = Rest /\ UNCHANGED <<started, last>>
    BY <1>10, <2>1, Rests DEF HandleUpdateType, RecoverInv, StartInFlight
  <2>2. CASE last' = "refused"
    BY <1>2, <2>2
  <2> QED BY <1>10, <2>1, <2>2 DEF HandleUpdateType
<1>11. CASE OnDestroy
  <2>1. StartInFlight' <=> StartInFlight
    BY <1>11 DEF OnDestroy, StartInFlight, ThreadTypes
  <2> QED BY <1>11, <2>1, Rests DEF OnDestroy, RecoverInv
<1>12. ASSUME NEW p \in Policies, OnTimeout(p) PROVE RecoverInv'
  <2>1. durable'.native = "timeout"
    BY <1>12 DEF OnTimeout, Recovering, BuildTimeoutState, ServiceTypes, Records
  <2>2. stoppers' > 0 /\ ~started'
    BY <1>12 DEF OnTimeout, SpawnStop, StopSelf, ThreadTypes
  <2> QED BY <1>12, <2>1, <2>2 DEF OnTimeout, RecoverInv
<1>13. ASSUME NEW s \in Sources, CoreStart(s) PROVE RecoverInv'
  <2>1. InFlight(s) /\ last \in {s, "refused"} /\ stoppers = 0
    BY <1>13 DEF CoreStart, CallCore, Rejected, Accepted, SaveStart, FlightInv, InFlight
  <2>2. UNCHANGED <<last, stoppers>>
    BY <1>13 DEF CoreStart, CallCore, Rejected, Accepted, SaveStart
  <2>3. SUFFICES ASSUME s = "restart"
                 PROVE  StartInFlight' \/ (durable'.recovery <=> ~core')
    BY <2>1, <2>2 DEF RecoverInv
  <2>4. CASE CallCore(s) \/ Accepted(s)
    BY <2>4 DEF CallCore, Accepted, StartInFlight, ThreadTypes
  <2>5. CASE Rejected(s)
    <3>1. durable'.recovery
      BY <2>3, <2>5 DEF Rejected, ServiceTypes, Records
    <3> QED BY <2>3, <2>5, <3>1 DEF Rejected, FlightInv
  <2>6. CASE SaveStart(s)
    <3>1. ~durable'.recovery
      BY <2>3, <2>6 DEF SaveStart, BuildStartState, ServiceTypes, Records
    <3> QED BY <2>1, <2>6, <3>1 DEF SaveStart, FlightInv
  <2> QED BY <1>13, <2>4, <2>5, <2>6 DEF CoreStart
<1>14. CASE StopCore
  BY <1>14 DEF StopCore, RecoverInv
<1>15. CASE Kill \/ Boot
  <2>1. last' \in {"stop", "killed", "boot"}
    BY <1>15 DEF Kill, Boot
  <2> QED BY <1>2, <2>1
<1> QED BY <1>3, <1>4, <1>5, <1>6, <1>7, <1>8, <1>9, <1>10, <1>11, <1>12, <1>13, <1>14, <1>15
        DEF Next, HandleMessage
-----------------------------------------------------------------------------
(* The invariant *)

LEMMA RacesStay == ASSUME AndroidTypeOK, Next, ~raced' PROVE ~raced
<1>1. ASSUME NEW i \in Invokes, StartKeepalive(i) \/ Await(i) PROVE ~raced
  BY <1>1 DEF StartKeepalive, Await, AwaitLookup, AwaitAnswered, AwaitTimeout, RollBack,
              RejectStart, SendGuarded, NoteRace
<1>2. CASE StopKeepalive \/ NotificationStop \/ UpdateType
  BY <1>2 DEF StopKeepalive, NotificationStop, UpdateType, SendGuarded, NoteRace
<1>3. CASE HandleMessage
  BY <1>3 DEF HandleMessage, HandleStart, HandleStop, HandleOsRestart, HandleUpdateType, OnDestroy,
              PromotionFails, NoteRace
<1>4. ASSUME NEW p \in Policies, OnTimeout(p) PROVE ~raced
  BY <1>4 DEF OnTimeout, NoteRace
<1>5. ASSUME NEW s \in Sources, CoreStart(s) PROVE ~raced
  BY <1>5 DEF CoreStart, CallCore, Rejected, Accepted, SaveStart, NoteRace
<1>6. CASE StopCore \/ Kill \/ Boot
  BY <1>6 DEF StopCore, Kill, Boot
<1> QED BY <1>1, <1>2, <1>3, <1>4, <1>5, <1>6 DEF Next

LEMMA ServiceInit == Init => ServiceInv
<1> SUFFICES ASSUME Init PROVE ServiceInv
  OBVIOUS
<1> USE SourcesAre, Empty DEF Init
<1>1. ServiceTypes /\ LooperTypes
  <2>1. FreshState \in Records
    BY DEF FreshState, Records
  <2>2. 0 \in 0 .. MaxEvents
    OBVIOUS
  <2> QED BY <2>1, <2>2 DEF ServiceTypes, LooperTypes
<1>2. ThreadTypes
  BY DEF ThreadTypes, NoWorker
<1>3. DownInv /\ OrderInv /\ RestartInv
  BY DEF DownInv, OrderInv, RestartInv, InFlight, NoWorker
<1>4. CalmInv
  BY DEF CalmInv, FlightInv, StopInv, RollInv, UpInv, RecoverInv, InFlight, NoWorker
<1> QED BY <1>1, <1>2, <1>3, <1>4 DEF ServiceInv, AndroidTypeOK

LEMMA ServiceStep == ServiceInv /\ [Next]_vars => ServiceInv'
<1> SUFFICES ASSUME ServiceInv, [Next]_vars PROVE ServiceInv'
  OBVIOUS
<1>1. CASE Next
  <2>1. AndroidTypeOK' /\ DownInv' /\ OrderInv' /\ RestartInv'
    BY <1>1, ServiceTyped, LooperTyped, ThreadTyped, DownStep, OrderStep, RestartStep
       DEF ServiceInv, AndroidTypeOK
  <2>2. ASSUME ~raced' PROVE CalmInv'
    <3>1. CalmInv
      BY <1>1, <2>2, RacesStay DEF ServiceInv
    <3> QED BY <1>1, <2>2, <3>1, FlightStep, StopStep, RollStep, UpStep, RecoverStep
            DEF ServiceInv, CalmInv
  <2> QED BY <2>1, <2>2 DEF ServiceInv
<1>2. CASE UNCHANGED vars
  <2> USE <1>2 DEF vars
  <2>1. AndroidTypeOK' /\ DownInv' /\ OrderInv' /\ RestartInv'
    BY DEF ServiceInv, AndroidTypeOK, ServiceTypes, LooperTypes, ThreadTypes, DownInv, OrderInv,
           RestartInv, InFlight, StartInFlight
  <2>2. UNCHANGED StartInFlight /\ \A s : InFlight(s)' <=> InFlight(s)
    BY DEF StartInFlight, InFlight
  <2>3. ~raced' => CalmInv'
    BY <2>2 DEF ServiceInv, CalmInv, FlightInv, StopInv, RollInv, UpInv, RecoverInv
  <2> QED BY <2>1, <2>3 DEF ServiceInv
<1> QED BY <1>1, <1>2

LEMMA ServiceHolds == Spec => []ServiceInv
  BY ServiceInit, ServiceStep, PTL DEF Spec

(* What the service's parts may hold, whatever races, kills and reboots do. *)
THEOREM AndroidTyped == Spec => []AndroidTypeOK
<1>1. ServiceInv => AndroidTypeOK
  BY DEF ServiceInv
<1> QED BY <1>1, ServiceHolds, PTL

(* Nothing brings the service back after a stop: no kill, recreation,      *)
(* reboot or late acknowledgement.                                         *)
THEOREM StopsAreFinal == Spec => []StopIsFinal
<1>1. ServiceInv => StopIsFinal
  <2> SUFFICES ASSUME ServiceInv, last = "stop", ~raced
               PROVE  /\ CommandsIdle =>
                            ~durable.desired /\ ~durable.recovery /\ ~prefs /\ ~StartInFlight
                      /\ AtRest => ~core /\ ~isRunning /\ ~monitor /\ ~leaked
    BY DEF StopIsFinal
  <2>1. FlightInv /\ StopInv /\ ~StartInFlight
    BY NoFlightOtherwise DEF ServiceInv, CalmInv
  <2>2. CommandsIdle => ~prefs
    BY <2>1 DEF StopInv, CommandsIdle, Answered
  <2>3. AtRest => ~core /\ ~isRunning /\ ~monitor
    BY <2>1, Empty DEF StopInv, AtRest
  <2> QED BY <2>1, <2>2, <2>3 DEF StopInv, FlightInv
<1> QED BY <1>1, ServiceHolds, PTL

(* The answer of a start is the truth at rest, although acknowledgements   *)
(* are missed, come too late or are never sent.                            *)
THEOREM AnswersTruthful == Spec => []AnswerTruthful
<1>1. ServiceInv => AnswerTruthful
  <2> SUFFICES ASSUME ServiceInv, NEW i \in Invokes, last = i, AtRest, ~raced
               PROVE  /\ waiter[i] # "rejected"
                      /\ waiter[i] = "resolved" =>
                            core /\ isRunning /\ prefs /\ monitor /\ durable.desired /\ started
    BY DEF AnswerTruthful
  <2>1. ~Has(looper, "stop") /\ RollInv /\ UpInv /\ OrderInv
    BY Empty DEF AtRest, ServiceInv, CalmInv
  <2> QED BY <2>1 DEF RollInv, UpInv, OrderInv
<1> QED BY <1>1, ServiceHolds, PTL

(* At rest, a recreation left a recovery exactly if the core is down, and  *)
(* a timeout left the service down and recorded.                           *)
THEOREM RecoveriesTruthful == Spec => []RecoveryTruthful
<1>1. ServiceInv => RecoveryTruthful
  BY Empty DEF RecoveryTruthful, AtRest, ServiceInv, CalmInv, RecoverInv
<1> QED BY <1>1, ServiceHolds, PTL
=============================================================================
