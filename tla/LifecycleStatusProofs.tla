------------------------ MODULE LifecycleStatusProofs ------------------------
(***************************************************************************)
(* Proofs about the status document, for any number of commands, native    *)
(* events and deaths, and for whatever scheduling on iOS gets refused.     *)
(***************************************************************************)
EXTENDS LifecycleStatusProperties, TLAPS

-----------------------------------------------------------------------------
(* Types                                                                   *)

LEMMA ClearedTyped ==
    ASSUME android \in Records, NEW r \in Cleared
    PROVE  /\ r \in Records
           /\ r.state = "unknown"
           /\ r.running => android.running
  BY DEF Cleared, FreshRecord, Records, NativeStates

LEMMA SubmittedTyped ==
    ASSUME NEW s \in Defaults, NEW refused \in Refusals
    PROVE  /\ Submitted(s, refused) \in Defaults
           /\ Submitted(s, refused).begun = s.begun
           /\ Submitted(s, refused).ended = s.ended
  BY StatusAssumption DEF Submitted, Defaults, StatusAssumption

LEMMA ActorTyped ==
    ASSUME StatusTypeOK, [Next]_vars PROVE ActorTypes'
<1> USE DEF StatusTypeOK, ActorTypes, QueryTypes, States, taskVars, query
<1>1. ASSUME NEW f \in BOOLEAN, Launched(f) PROVE ActorTypes'
  BY <1>1 DEF Launched
<1>2. CASE StartAndroid
  <2>1. CASE Launched(FALSE)
    BY <2>1, <1>1
  <2>2. CASE actor' = Idle
    BY <1>2, <2>2 DEF StartAndroid, Idle, Launched
  <2> QED BY <1>2, <2>1, <2>2 DEF StartAndroid
<1>3. CASE StartIos
  <2>1. PICK refused \in Refusals : Launched(refused = Kinds)
    BY <1>3 DEF StartIos
  <2> QED BY <2>1, <1>1
<1>4. CASE Stop \/ \E e \in {"notificationStop", "timeout"} : NativeLifecycleEvent(e)
  BY <1>4 DEF Stop, NativeLifecycleEvent, Release, Idle
<1>5. CASE \E d \in BOOLEAN : SetDesired(d)
  BY <1>5 DEF SetDesired
<1>6. CASE \/ \E then \in {"answer", "converge"} : QueryAndroid(then)
           \/ QueryIos \/ ReadScheduling \/ ReadPending
  BY <1>6 DEF QueryAndroid, QueryIos, ReadScheduling, ReadPending, Reads
<1>7. CASE AnswerStatus \/ Load
  BY <1>7 DEF AnswerStatus, Load, Reads
<1>7a. CASE MergeRunning \/ MergeLifecycle \/ Revoke
  BY <1>7a DEF MergeRunning, MergeLifecycle, Revoke, Believed, Snaps
<1>8. CASE ServiceTask
  BY <1>8 DEF ServiceTask, InitOk, Unbelieve, RunReturns, OnComplete, ClearToken
<1>9. CASE Native
  BY <1>9 DEF Native, NotificationStop, Timeout, Deliver, Expire, Transition, OnItsOwn
<1>10. CASE Die
  BY <1>10 DEF Die, Idle
<1>11. CASE UNCHANGED vars
  BY <1>11 DEF vars
<1> QED BY <1>2, <1>3, <1>4, <1>5, <1>6, <1>7, <1>7a, <1>8, <1>9, <1>10, <1>11
        DEF Next, Command, Query

LEMMA NativeTyped ==
    ASSUME StatusTypeOK, [Next]_vars PROVE NativeTypes'
<1> USE DEF StatusTypeOK, NativeTypes, native
<1>1. CASE StartAndroid
  <2>1. android' \in Cleared => android' \in Records
    BY ClearedTyped
  <2>2. [FreshRecord EXCEPT !.running = TRUE, !.desired = TRUE, !.state = "running",
                          !.recovery = android.recovery] \in Records
    BY DEF FreshRecord, Records, NativeStates
  <2> QED BY <1>1, <2>1, <2>2 DEF StartAndroid
<1>2. CASE StartIos
  <2>1. PICK refused \in Refusals, consumed \in BOOLEAN :
           ios' = [Submitted(ForgetsEnd(ios), refused)
                     EXCEPT !.desired = TRUE, !.pending = @ /\ ~consumed]
    BY <1>2 DEF StartIos
  <2>2. ForgetsEnd(ios) \in Defaults
    BY DEF ForgetsEnd, Defaults
  <2>3. Submitted(ForgetsEnd(ios), refused) \in Defaults
    BY <2>2, SubmittedTyped
  <2>4. ios' \in Defaults
    BY <2>1, <2>3 DEF Defaults
  <2>5. (ios.begun /\ ~open) \in BOOLEAN
    OBVIOUS
  <2> QED BY <1>2, <2>4, <2>5 DEF StartIos
<1>3. CASE Stop
  <2>1. android' \in Cleared => android' \in Records
    BY ClearedTyped
  <2>2. [TaskEnds(ios) EXCEPT !.desired = FALSE] \in Defaults
    BY DEF TaskEnds, Defaults
  <2> QED BY <1>3, <2>1, <2>2 DEF Stop
<1>4. ASSUME NEW d \in BOOLEAN, SetDesired(d) PROVE NativeTypes'
  <2>1. PICK refused \in Refusals :
           ios' = IF platform # "ios" THEN ios
                  ELSE IF d THEN [Submitted(ios, refused) EXCEPT !.desired = TRUE]
                  ELSE [ios EXCEPT !.desired = FALSE]
    BY <1>4 DEF SetDesired
  <2>2. Submitted(ios, refused) \in Defaults
    BY SubmittedTyped
  <2>3. ios' \in Defaults
    BY <2>1, <2>2 DEF Defaults
  <2> QED BY <1>4, <2>3 DEF SetDesired
<1>5. ASSUME NEW e, NativeLifecycleEvent(e) PROVE NativeTypes'
  <2>1. android' \in Cleared => android' \in Records
    BY ClearedTyped
  <2> QED BY <1>5, <2>1 DEF NativeLifecycleEvent
<1>6. CASE \/ \E then \in {"answer", "converge"} : QueryAndroid(then)
           \/ QueryIos \/ ReadScheduling \/ ReadPending
  BY <1>6 DEF QueryAndroid, QueryIos, ReadScheduling, ReadPending, Reads
<1>7. CASE AnswerStatus \/ Load \/ MergeRunning \/ MergeLifecycle \/ Revoke
  BY <1>7 DEF AnswerStatus, Load, MergeRunning, MergeLifecycle, Revoke, Reads
<1>8. CASE InitOk \/ Unbelieve \/ RunReturns \/ ClearToken
  BY <1>8 DEF InitOk, Unbelieve, RunReturns, ClearToken, OnlyTask, Defaults
<1>9. CASE OnComplete
  <2>1. PICK refused \in Refusals : ios' = IF open THEN Submitted(ios, refused) ELSE ios
    BY <1>9 DEF OnComplete
  <2>2. ios' \in Defaults
    BY <2>1, SubmittedTyped
  <2> QED BY <1>9, <2>2 DEF OnComplete, OnlyTask
<1>10. CASE NotificationStop
  BY <1>10 DEF NotificationStop, Records
<1>11. CASE Timeout
  <2>1. PICK r \in {TRUE, android.recovery} :
           android' = [android EXCEPT !.running = FALSE, !.state = "timeout", !.recovery = r]
    BY <1>11 DEF Timeout
  <2>2. android' \in Records
    BY <2>1 DEF Records, NativeStates
  <2> QED BY <1>11, <2>2 DEF Timeout
<1>12. CASE Deliver
  BY <1>12 DEF Deliver, TaskBegins, Defaults
<1>13. CASE Expire
  <2>1. PICK refused \in Refusals : ios' = Submitted(TaskEnds(ios), refused)
    BY <1>13 DEF Expire
  <2>2. TaskEnds(ios) \in Defaults
    BY DEF TaskEnds, Defaults
  <2> QED BY <1>13, <2>1, <2>2, SubmittedTyped DEF Expire
<1>14. CASE Transition
  <2>1. PICK refused \in Refusals : ios' = Submitted(ios, refused)
    BY <1>14 DEF Transition
  <2> QED BY <1>14, <2>1, SubmittedTyped DEF Transition
<1>15. CASE Die
  BY <1>15 DEF Die, Records, NativeStates
<1>16. CASE UNCHANGED vars
  BY <1>16 DEF vars
<1> QED BY <1>1, <1>2, <1>3, <1>4, <1>5, <1>6, <1>7, <1>8, <1>9, <1>10, <1>11, <1>12,
           <1>13, <1>14, <1>15, <1>16 DEF Next, Command, Query, ServiceTask, Native

LEMMA UpTyped == ActorTypes /\ NativeTypes => Up \in BOOLEAN /\ open \in BOOLEAN
  BY DEF ActorTypes, NativeTypes, Records, Up

LEMMA Blank ==
    /\ NoAnswer \in Snaps
    /\ NoAnswer.known = FALSE /\ NoAnswer.due = FALSE /\ NoAnswer.running = FALSE
  BY DEF NoAnswer, Snaps, NativeStates

LEMMA ReadAndroid ==
    LET r == [NoAnswer EXCEPT !.known = TRUE, !.due = timedOut,
                              !.rust = actor.running,
                              !.running = android.running, !.state = android.state,
                              !.recovery = android.recovery]
    IN  r.known = TRUE /\ r.running = android.running /\ r.rust = actor.running
  BY DEF NoAnswer

LEMMA ReadIos ==
    LET r == [NoAnswer EXCEPT !.known = TRUE, !.desired = ios.desired,
                              !.active = Active(ios), !.ghost = ghost]
    IN  /\ r.known = TRUE /\ r.due = FALSE /\ r.running = FALSE
        /\ r.active = Active(ios) /\ r.ghost = ghost
  BY DEF NoAnswer

\* What the merge steps leave alone: the native side, and of the answer all but
\* what the actor loads of its own belief.
LEMMA MergeFrame ==
    ASSUME StatusTypeOK, Load \/ MergeRunning \/ MergeLifecycle \/ Revoke
    PROVE  /\ platform' = platform /\ relay' = relay /\ used' = used
           /\ android' = android /\ ios' = ios /\ open' = open
           /\ timedOut' = timedOut /\ ghost' = ghost
           /\ pc \in {"answer", "merge", "believe", "converge", "adjust", "revoke"}
           /\ pc' \in {"recv", "merge", "believe", "report", "adjust", "revoke"}
           /\ \/ snap' = NoAnswer /\ pc' = "recv"
              \/ /\ snap' \in Snaps /\ pc' # "recv"
                 /\ snap'.known = snap.known /\ snap'.due = snap.due
                 /\ snap'.running = snap.running /\ snap'.state = snap.state
                 /\ snap'.active = snap.active /\ snap'.ghost = snap.ghost
                 /\ snap'.rust = snap.rust \/ Load
<1> USE DEF native, Reads, StatusTypeOK, QueryTypes, ActorTypes, Snaps
<1>1. CASE Load
  BY <1>1 DEF Load
<1>2. CASE MergeRunning
  BY <1>2 DEF MergeRunning
<1>3. CASE MergeLifecycle
  BY <1>3 DEF MergeLifecycle
<1>4. CASE Revoke
  BY <1>4 DEF Revoke
<1> QED BY <1>1, <1>2, <1>3, <1>4

LEMMA QueryTyped ==
    ASSUME StatusTypeOK, [Next]_vars PROVE QueryTypes'
<1>1. Up \in BOOLEAN /\ open \in BOOLEAN /\ Up' \in BOOLEAN /\ open' \in BOOLEAN
  <2>1. ActorTypes' /\ NativeTypes'
    BY ActorTyped, NativeTyped
  <2>2. Up \in BOOLEAN /\ open \in BOOLEAN
    BY UpTyped DEF StatusTypeOK
  <2>3. Up' \in BOOLEAN /\ open' \in BOOLEAN
    BY <2>1 DEF ActorTypes, NativeTypes, Records, Up
  <2> QED BY <2>2, <2>3
<1>2. up' \subseteq BOOLEAN /\ tasked' \subseteq BOOLEAN /\ torn' \in BOOLEAN
  <2>1. CASE Witness
    <3>1. torn' \in BOOLEAN
      BY <2>1 DEF Witness, StatusTypeOK, QueryTypes
    <3> QED BY <1>1, <2>1, <3>1 DEF Witness, StatusTypeOK, QueryTypes
  <2>2. CASE UNCHANGED vars
    BY <2>2 DEF vars, StatusTypeOK, QueryTypes
  <2> QED BY <2>1, <2>2 DEF Next
<1>3. NoAnswer \in Snaps
  BY Blank
<1> USE DEF StatusTypeOK, QueryTypes, NativeTypes, query
<1>4. ASSUME NEW then \in {"answer", "converge"}, QueryAndroid(then) PROVE QueryTypes'
  <2>1. [NoAnswer EXCEPT !.known = TRUE, !.due = timedOut,
                         !.rust = actor.running,
                         !.running = android.running, !.state = android.state,
                         !.recovery = android.recovery] \in Snaps
    <3>1. timedOut \in BOOLEAN /\ actor.running \in BOOLEAN
      BY DEF ActorTypes
    <3>2. /\ android.running \in BOOLEAN /\ android.recovery \in BOOLEAN
          /\ android.state \in NativeStates
      BY DEF Records
    <3> HIDE DEF StatusTypeOK, QueryTypes, NativeTypes, query
    <3> QED BY <1>3, <3>1, <3>2 DEF Snaps
  <2> QED BY <1>2, <1>3, <1>4, <2>1 DEF QueryAndroid
<1>5. CASE QueryIos
  <2>1. Active(ios) \in BOOLEAN
    BY DEF Active, Defaults
  <2>2. [NoAnswer EXCEPT !.known = TRUE, !.desired = ios.desired,
                         !.active = Active(ios), !.ghost = ghost] \in Snaps
    BY <1>3, <2>1 DEF Snaps, Defaults
  <2> QED BY <1>2, <1>3, <1>5, <2>2 DEF QueryIos
<1>6. CASE ReadScheduling \/ ReadPending
  BY <1>2, <1>6 DEF ReadScheduling, ReadPending, Snaps, Defaults
<1>7. CASE AnswerStatus \/ Die
  BY <1>2, <1>3, <1>7 DEF AnswerStatus, Die
<1>7a. CASE Load \/ MergeRunning \/ MergeLifecycle \/ Revoke
  BY <1>2, <1>3, <1>7a, MergeFrame
<1>8. CASE \/ StartAndroid \/ StartIos \/ Stop
           \/ \E d \in BOOLEAN : SetDesired(d)
           \/ \E e \in {"notificationStop", "timeout"} : NativeLifecycleEvent(e)
  BY <1>2, <1>8 DEF StartAndroid, StartIos, Stop, SetDesired, NativeLifecycleEvent
<1>9. CASE ServiceTask
  BY <1>2, <1>9 DEF ServiceTask, InitOk, Unbelieve, RunReturns, OnComplete, ClearToken, OnlyTask
<1>10. CASE Native
  BY <1>2, <1>10 DEF Native, NotificationStop, Timeout, Deliver, Expire, Transition, OnItsOwn
<1>11. CASE UNCHANGED vars
  BY <1>2, <1>11 DEF vars
<1> QED BY <1>4, <1>5, <1>6, <1>7, <1>7a, <1>8, <1>9, <1>10, <1>11 DEF Next, Command, Query

LEMMA OthersTyped ==
    ASSUME StatusTypeOK, [Next]_vars
    PROVE  /\ platform' = platform
           /\ relay' \subseteq {"notificationStop", "timeout"}
           /\ used' \in 0 .. MaxEvents
<1>0. Spend => used' \in 0 .. MaxEvents
  BY StatusAssumption DEF Spend, StatusTypeOK, StatusAssumption
<1> USE DEF StatusTypeOK
<1>1. CASE StartAndroid \/ StartIos \/ Stop \/ \E d \in BOOLEAN : SetDesired(d)
  BY <1>0, <1>1 DEF StartAndroid, StartIos, Stop, SetDesired
<1>2. CASE \E e \in {"notificationStop", "timeout"} : NativeLifecycleEvent(e)
  BY <1>2 DEF NativeLifecycleEvent
<1>3. CASE \/ \E then \in {"answer", "converge"} : QueryAndroid(then)
           \/ QueryIos \/ ReadScheduling \/ ReadPending
  BY <1>3 DEF QueryAndroid, QueryIos, ReadScheduling, ReadPending, Reads
<1>4. CASE AnswerStatus
  BY <1>4 DEF AnswerStatus, Reads
<1>4a. CASE Load \/ MergeRunning \/ MergeLifecycle \/ Revoke
  BY <1>4a, MergeFrame
<1>5. CASE ServiceTask
  BY <1>5 DEF ServiceTask, InitOk, Unbelieve, RunReturns, OnComplete, ClearToken, OnlyTask
<1>6. CASE Native
  BY <1>0, <1>6 DEF Native, NotificationStop, Timeout, Deliver, Expire, Transition, OnItsOwn
<1>7. CASE Die
  BY <1>0, <1>7 DEF Die
<1>8. CASE UNCHANGED vars
  BY <1>8 DEF vars
<1> QED BY <1>1, <1>2, <1>3, <1>4, <1>4a, <1>5, <1>6, <1>7, <1>8 DEF Next, Command, Query

LEMMA DocTyped ==
    ASSUME StatusTypeOK, [Next]_vars
    PROVE  doc'.snap \in Snaps /\ doc'.state \in States
<1>1. CASE AnswerStatus
  <2>1. doc'.snap = snap /\ doc'.state = Reported
    BY <1>1 DEF AnswerStatus
  <2>2. Reported \in States
    BY DEF StatusTypeOK, ActorTypes, States, Reported
  <2> QED BY <2>1, <2>2 DEF StatusTypeOK, QueryTypes
<1>2. CASE doc' = NoDoc
  BY <1>2 DEF NoDoc, NoAnswer, Snaps, NativeStates, States
<1>3. CASE UNCHANGED vars
  BY <1>3 DEF vars, StatusTypeOK
<1> QED BY <1>1, <1>2, <1>3 DEF Next

\* The status document and everything it is put together from keep their types.
THEOREM StatusTyped == Spec => []StatusTypeOK
<1>1. Init => StatusTypeOK
  <2> SUFFICES ASSUME Init PROVE StatusTypeOK
    OBVIOUS
  <2>1. ActorTypes
    BY DEF Init, ActorTypes, Idle, States
  <2>2. NativeTypes
    BY DEF Init, NativeTypes, FreshRecord, Records, Defaults, NativeStates
  <2>3. NoAnswer \in Snaps
    BY DEF NoAnswer, Snaps, NativeStates
  <2>4. QueryTypes
    BY <2>3 DEF Init, QueryTypes
  <2>5. used \in 0 .. MaxEvents /\ relay \subseteq {"notificationStop", "timeout"}
    BY StatusAssumption DEF Init, StatusAssumption
  <2>6. doc.snap \in Snaps /\ doc.state \in States
    BY <2>3 DEF Init, NoDoc, States
  <2> QED BY <2>1, <2>2, <2>4, <2>5, <2>6 DEF Init, StatusTypeOK
<1>2. StatusTypeOK /\ [Next]_vars => StatusTypeOK'
  <2> SUFFICES ASSUME StatusTypeOK, [Next]_vars PROVE StatusTypeOK'
    OBVIOUS
  <2>1. platform' \in Platforms
    BY OthersTyped DEF StatusTypeOK
  <2> QED BY <2>1, ActorTyped, NativeTyped, QueryTyped, OthersTyped, DocTyped DEF StatusTypeOK
<1> QED BY <1>1, <1>2, PTL DEF Spec

-----------------------------------------------------------------------------
(* Timeouts.  What the actor believes, and what it has healed, plays no    *)
(* part: the record says timeout as long as the timeout is due, and a      *)
(* query that found it due has read that.                                  *)

TimeoutInv ==
    /\ platform = "ios" => android = FreshRecord /\ relay = {}
    /\ timedOut => platform = "android" /\ android.state = "timeout"
    /\ snap.due => platform = "android" /\ snap.known /\ snap.state = "timeout"

LEMMA PlatformKnown == StatusTypeOK => platform \in {"android", "ios"}
  BY StatusAssumption DEF StatusTypeOK, StatusAssumption

LEMMA TimeoutStep ==
    ASSUME StatusTypeOK, TimeoutInv, [Next]_vars PROVE TimeoutInv'
<1> USE PlatformKnown DEF TimeoutInv, query, native
<1>1. CASE StartAndroid
  BY <1>1 DEF StartAndroid
<1>1a. CASE StartIos
  BY <1>1a DEF StartIos
<1>1b. CASE Stop
  BY <1>1b DEF Stop
<1>2. CASE \/ \E d \in BOOLEAN : SetDesired(d)
           \/ \E e \in {"notificationStop", "timeout"} : NativeLifecycleEvent(e)
  BY <1>2 DEF SetDesired, NativeLifecycleEvent
<1>3. ASSUME NEW then \in {"answer", "converge"}, QueryAndroid(then) PROVE TimeoutInv'
  <2>1. \/ snap' = NoAnswer
        \/ snap'.known /\ snap'.due = timedOut /\ snap'.state = android.state
    BY <1>3 DEF QueryAndroid, NoAnswer
  <2> QED BY <1>3, <2>1 DEF QueryAndroid, Reads, NoAnswer
<1>3a. CASE QueryIos
  <2>1. snap'.due = FALSE
    BY <1>3a, Blank, ReadIos DEF QueryIos
  <2> QED BY <1>3a, <2>1 DEF QueryIos, Reads
<1>3b. CASE ReadScheduling \/ ReadPending
  BY <1>3b DEF ReadScheduling, ReadPending, Reads, StatusTypeOK, QueryTypes, Snaps
<1>4. CASE AnswerStatus
  BY <1>4 DEF AnswerStatus, Reads, NoAnswer
<1>4a. CASE Load \/ MergeRunning \/ MergeLifecycle \/ Revoke
  BY <1>4a, MergeFrame, Blank
<1>5. CASE ServiceTask
  BY <1>5 DEF ServiceTask, InitOk, Unbelieve, RunReturns, OnComplete, ClearToken, OnlyTask
<1>6. CASE NotificationStop
  BY <1>6 DEF NotificationStop, OnItsOwn, StatusTypeOK, NativeTypes, Records, FreshRecord
<1>7. CASE Timeout
  <2>1. android.running /\ timedOut' /\ android'.state = "timeout" /\ platform' = platform
        /\ snap' = snap
    BY <1>7 DEF Timeout, OnItsOwn, StatusTypeOK, NativeTypes, Records
  <2>2. platform = "android"
    BY <2>1 DEF FreshRecord
  <2> QED BY <2>1, <2>2
<1>8. CASE Deliver \/ Expire \/ Transition
  BY <1>8 DEF Deliver, Expire, Transition, OnItsOwn
<1>9. CASE Die
  BY <1>9 DEF Die, NoAnswer, FreshRecord, StatusTypeOK, NativeTypes, Records
<1>10. CASE UNCHANGED vars
  BY <1>10 DEF vars
<1> QED BY <1>1, <1>1a, <1>1b, <1>2, <1>3, <1>3a, <1>3b, <1>4, <1>4a, <1>5, <1>6, <1>7, <1>8, <1>9, <1>10
        DEF Next, Command, Query, Native

LEMMA SurfacesStep ==
    ASSUME StatusTypeOK, TimeoutInv, TimeoutSurfaces, [Next]_vars PROVE TimeoutSurfaces'
<1>1. CASE AnswerStatus
  <2>1. doc'.snap = snap
        /\ doc'.degraded = IF platform = "android" THEN AndroidDegraded ELSE IosDegraded
    BY <1>1 DEF AnswerStatus
  <2>2. snap.due /\ snap.known => AndroidDegraded # "no" /\ platform = "android"
    BY DEF TimeoutInv, AndroidDegraded, TimeoutShows
  <2> QED BY <2>1, <2>2 DEF TimeoutSurfaces, Answered
<1>2. CASE doc' = NoDoc
  BY <1>2 DEF TimeoutSurfaces, Answered, NoDoc, NoAnswer
<1>3. CASE UNCHANGED vars
  BY <1>3 DEF vars, TimeoutSurfaces, Answered
<1> QED BY <1>1, <1>2, <1>3 DEF Next

\* A timeout shows in every status asked for after it, until a start or a stop.
THEOREM TimeoutsSurface == Spec => []TimeoutSurfaces
<1>1. Init => TimeoutInv /\ TimeoutSurfaces
  BY DEF Init, TimeoutInv, TimeoutSurfaces, Answered, NoDoc, NoAnswer, FreshRecord
<1>2. StatusTypeOK /\ TimeoutInv /\ TimeoutSurfaces /\ [Next]_vars
        => (TimeoutInv /\ TimeoutSurfaces)'
  BY TimeoutStep, SurfacesStep
<1> QED BY <1>1, <1>2, StatusTyped, PTL DEF Spec

-----------------------------------------------------------------------------
(* The belief.  On iOS, where nothing overrules the actor, the lifecycle   *)
(* is in step with the token slot.  On Android its two halves agree unless *)
(* a cleanup or a merge is half done, or the two have crossed; a merge     *)
(* that nothing crossed leaves what the bridge read.  A status may heal a  *)
(* service whose init() is still under way: it stays healed, because       *)
(* nothing but the actor, or a new process, starts the foreground service  *)
(* again.                                                                  *)

IosInv ==
    platform = "ios" =>
        /\ actor.lifecycle \in UpStates <=> actor.token
        /\ task \in {"init", "failing"} => actor.lifecycle # "running"
        /\ pc \in {"recv", "scheduling", "pending", "answer", "merge", "report"}

\* What the actor has read, and what its service task may still do.
ReadInv ==
    /\ pc \in {"scheduling", "pending"} => platform = "ios"
    /\ pc \in {"believe", "adjust"} => platform = "android" /\ snap.known
    /\ pc = "recv" => ~snap.running
    /\ snap.running => snap.known
    /\ pc \in {"answer", "merge", "converge"} /\ snap.known /\ ~snap.running
          => platform = "ios" \/ ~android.running
    /\ task = "init" /\ ~actor.running => ~android.running /\ ~snap.running
    /\ task = "init" /\ pc \in {"merge", "converge", "believe", "adjust"} /\ snap.running
          => snap.rust
    /\ pc \in {"believe", "adjust"} => (snap.rust <=> ~snap.running)
    /\ task = "init" => actor.lifecycle # "running"

Agreement ==
    /\ ~Cleaning /\ pc \notin {"believe", "adjust"} => Whole
    /\ Cleaning => ~actor.running
    /\ task = "failing" => actor.lifecycle # "running"
    /\ pc = "merge" => (snap.rust <=> actor.running)
    /\ pc \in {"believe", "adjust", "report"} /\ platform = "android" /\ snap.known
          => (actor.running <=> snap.running)

HalvesInv ==
    /\ Cleaning /\ Merging => torn
    /\ task = "init" => ~torn
    /\ ~torn => Agreement

LEMMA IosStep ==
    ASSUME StatusTypeOK, IosInv, [Next]_vars PROVE IosInv'
<1> SUFFICES ASSUME platform = "ios" PROVE IosInv'
  BY OthersTyped DEF IosInv
<1> USE OthersTyped DEF IosInv, UpStates, query, taskVars, StatusTypeOK, ActorTypes, QueryTypes
<1>1. ASSUME NEW f \in BOOLEAN, Launched(f), pc = "recv", UNCHANGED query PROVE IosInv'
  BY <1>1 DEF Launched
<1>2. CASE StartAndroid \/ \E then \in {"answer", "converge"} : QueryAndroid(then)
  BY <1>2 DEF StartAndroid, QueryAndroid
<1>3. CASE StartIos
  <2>1. PICK refused \in Refusals : Launched(refused = Kinds)
    BY <1>3 DEF StartIos
  <2> QED BY <1>1, <1>3, <2>1 DEF StartIos, Receives
<1>4. ASSUME Release, pc = "recv", UNCHANGED query PROVE IosInv'
  BY <1>4 DEF Release, Idle, SlotFree, Cleaning
<1>5. CASE Stop
  BY <1>4, <1>5 DEF Stop, Receives
<1>6. CASE \E d \in BOOLEAN : SetDesired(d)
  BY <1>6 DEF SetDesired
<1>7. ASSUME NEW e, NativeLifecycleEvent(e) PROVE IosInv'
  BY <1>4, <1>7 DEF NativeLifecycleEvent, Receives
<1>8. CASE QueryIos \/ ReadScheduling \/ ReadPending \/ Load \/ AnswerStatus
  BY <1>8 DEF QueryIos, ReadScheduling, ReadPending, Load, AnswerStatus, Reads
<1>9. CASE MergeRunning
  BY <1>9 DEF MergeRunning, Diverges
<1>10. CASE MergeLifecycle \/ Revoke
  BY <1>10 DEF MergeLifecycle, Revoke
<1>11. CASE InitOk
  BY <1>11 DEF InitOk, OnlyTask
<1>12. CASE Unbelieve
  BY <1>12 DEF Unbelieve, OnlyTask
<1>13. CASE ClearToken
  BY <1>13 DEF ClearToken, Cleaning, Stoppable, OnlyTask, States
<1>14. CASE RunReturns \/ OnComplete
  BY <1>14 DEF RunReturns, OnComplete, OnlyTask
<1>15. CASE Native
  BY <1>15 DEF Native, NotificationStop, Timeout, Deliver, Expire, Transition, OnItsOwn
<1>16. CASE Die
  BY <1>16 DEF Die, Idle
<1>17. CASE UNCHANGED vars
  BY <1>17 DEF vars
<1> QED BY <1>2, <1>3, <1>5, <1>6, <1>7, <1>8, <1>9, <1>10, <1>11, <1>12, <1>13, <1>14,
           <1>15, <1>16, <1>17 DEF Next, Command, Query, ServiceTask

LEMMA ReadStep ==
    ASSUME StatusTypeOK, TimeoutInv, ReadInv, [Next]_vars PROVE ReadInv'
<1> USE PlatformKnown, OthersTyped
    DEF ReadInv, query, taskVars, StatusTypeOK, ActorTypes, QueryTypes
<1>1. ASSUME NEW f \in BOOLEAN, Launched(f), pc = "recv", UNCHANGED query PROVE ReadInv'
  BY <1>1 DEF Launched
<1>2. CASE StartAndroid
  <2>1. CASE Launched(FALSE)
    BY <1>1, <1>2, <2>1 DEF StartAndroid, Receives
  <2>2. CASE actor' = Idle /\ task' = "none"
    BY <1>2, <2>2 DEF StartAndroid, Receives, Idle
  <2> QED BY <1>2, <2>1, <2>2 DEF StartAndroid
<1>3. CASE StartIos
  <2>1. PICK refused \in Refusals : Launched(refused = Kinds)
    BY <1>3 DEF StartIos
  <2> QED BY <1>1, <1>3, <2>1 DEF StartIos, Receives
<1>4. ASSUME Release, pc = "recv", UNCHANGED query PROVE ReadInv'
  BY <1>4 DEF Release, Idle
<1>5. CASE Stop
  BY <1>4, <1>5 DEF Stop, Receives
<1>6. CASE \E d \in BOOLEAN : SetDesired(d)
  BY <1>6 DEF SetDesired
<1>7. ASSUME NEW e, NativeLifecycleEvent(e) PROVE ReadInv'
  BY <1>4, <1>7 DEF NativeLifecycleEvent, Receives
<1>8. ASSUME NEW then \in {"answer", "converge"}, QueryAndroid(then) PROVE ReadInv'
  <2>1. \/ snap'.known = FALSE /\ snap'.running = FALSE
        \/ /\ snap'.known = TRUE /\ snap'.running = android.running
           /\ snap'.rust = actor.running
    BY <1>8, Blank, ReadAndroid DEF QueryAndroid
  <2>2. pc' = then /\ platform = "android" /\ UNCHANGED <<actor, task, android>>
    BY <1>8 DEF QueryAndroid, Reads, native
  <2> QED BY <2>1, <2>2
<1>9. CASE QueryIos
  <2>1. snap'.running = FALSE
    BY <1>9, Blank, ReadIos DEF QueryIos
  <2>2. pc' \in {"answer", "scheduling"} /\ platform = "ios"
        /\ UNCHANGED <<actor, task, android>>
    BY <1>9 DEF QueryIos, Reads, native
  <2> QED BY <2>1, <2>2
<1>10. CASE ReadScheduling \/ ReadPending
  <2>1. snap'.running = snap.running /\ snap'.known = snap.known
    BY <1>10 DEF ReadScheduling, ReadPending, Snaps
  <2>2. pc' \in {"pending", "answer"} /\ UNCHANGED <<actor, task, android>>
    BY <1>10 DEF ReadScheduling, ReadPending, Reads, native
  <2>3. platform = "ios"
    BY <1>10 DEF ReadScheduling, ReadPending
  <2> QED BY <2>1, <2>2, <2>3
<1>11. CASE Load
  <2>1. /\ pc = "answer" /\ pc' = "merge" /\ snap'.rust = actor.running
        /\ snap'.known = snap.known /\ snap'.running = snap.running
        /\ UNCHANGED <<actor, task, android>>
    BY <1>11 DEF Load, Reads, native, Snaps
  <2> QED BY <2>1
<1>12. CASE MergeRunning
  <2>1. /\ pc \in {"merge", "converge"} /\ task' = task /\ android' = android
        /\ actor'.lifecycle = actor.lifecycle
        /\ actor'.running = IF Diverges THEN snap.running ELSE actor.running
        /\ pc' \in {"recv", "report", "believe", "adjust"}
        /\ pc' \in {"believe", "adjust"} => Diverges
        /\ snap' = IF pc' = "recv" THEN NoAnswer ELSE snap
    BY <1>12 DEF MergeRunning, native
  <2>2. NoAnswer.running = FALSE /\ NoAnswer.known = FALSE
    BY Blank
  <2>3. Diverges => platform = "android" /\ snap.known /\ (snap.rust <=> ~snap.running)
    BY DEF Diverges, Adopts, Heals, Snaps
  <2> QED BY <2>1, <2>2, <2>3 DEF Snaps
<1>13. CASE MergeLifecycle
  <2>1. /\ pc \in {"believe", "adjust"} /\ task' = task /\ android' = android
        /\ actor'.running = actor.running /\ actor'.lifecycle = Believed
        /\ pc' \in {"report", "recv", "revoke"}
        /\ snap' = IF pc' = "recv" THEN NoAnswer ELSE snap
    BY <1>13 DEF MergeLifecycle, native
  <2>2. task = "init" => Believed # "running"
    BY <2>1 DEF Believed
  <2> QED BY <2>1, <2>2, Blank
<1>14. CASE Revoke \/ AnswerStatus
  <2>1. pc' = "recv" /\ snap' = NoAnswer /\ android' = android
        /\ actor'.running = actor.running /\ actor'.lifecycle = actor.lifecycle
        /\ (task' = "init" => task = "init")
    BY <1>14 DEF Revoke, AnswerStatus, Reads, native
  <2> QED BY <2>1, Blank
<1>15. CASE InitOk
  BY <1>15 DEF InitOk, OnlyTask
<1>16. CASE Unbelieve \/ ClearToken
  BY <1>16 DEF Unbelieve, ClearToken, OnlyTask
<1>17. CASE RunReturns \/ OnComplete
  BY <1>17 DEF RunReturns, OnComplete, OnlyTask
<1>18. CASE NotificationStop \/ Timeout
  <2>1. android \in Records
    BY DEF NativeTypes
  <2>2. android'.running = FALSE
    <3>1. CASE NotificationStop
      BY <2>1, <3>1 DEF NotificationStop, Records
    <3>2. CASE Timeout
      <4>1. PICK r \in {TRUE, android.recovery} :
               android' = [android EXCEPT !.running = FALSE, !.state = "timeout", !.recovery = r]
        BY <3>2 DEF Timeout
      <4> QED BY <2>1, <4>1 DEF Records
    <3> QED BY <1>18, <3>1, <3>2
  <2>3. UNCHANGED <<query, actor, taskVars>>
    BY <1>18 DEF NotificationStop, Timeout, OnItsOwn
  <2> QED BY <2>2, <2>3
<1>19. CASE Deliver \/ Expire \/ Transition
  BY <1>19 DEF Deliver, Expire, Transition, OnItsOwn
<1>20. CASE Die
  BY <1>20, Blank DEF Die, Idle
<1>21. CASE UNCHANGED vars
  BY <1>21 DEF vars, native
<1> QED BY <1>2, <1>3, <1>5, <1>6, <1>7, <1>8, <1>9, <1>10, <1>11, <1>12, <1>13, <1>14,
           <1>15, <1>16, <1>17, <1>18, <1>19, <1>20, <1>21
        DEF Next, Command, Query, ServiceTask, Native

LEMMA AgreementStep ==
    ASSUME StatusTypeOK, ReadInv, HalvesInv, Next, ~torn, ~(Cleaning /\ Merging)'
    PROVE  Agreement'
<1> USE PlatformKnown, OthersTyped
    DEF HalvesInv, Agreement, Whole, Cleaning, Merging, UpStates, query, taskVars,
        StatusTypeOK, ActorTypes, QueryTypes
<1>1. ASSUME NEW f \in BOOLEAN, Launched(f), pc = "recv", UNCHANGED query PROVE Agreement'
  BY <1>1 DEF Launched
<1>2. CASE StartAndroid
  <2>1. CASE Launched(FALSE)
    BY <1>1, <1>2, <2>1 DEF StartAndroid, Receives
  <2>2. CASE actor' = Idle /\ task' = "none"
    BY <1>2, <2>2 DEF StartAndroid, Receives, Idle
  <2> QED BY <1>2, <2>1, <2>2 DEF StartAndroid
<1>3. CASE StartIos
  <2>1. PICK refused \in Refusals : Launched(refused = Kinds)
    BY <1>3 DEF StartIos
  <2> QED BY <1>1, <1>3, <2>1 DEF StartIos, Receives
<1>4. ASSUME Release, pc = "recv", UNCHANGED query PROVE Agreement'
  BY <1>4 DEF Release, Idle, SlotFree
<1>5. CASE Stop
  BY <1>4, <1>5 DEF Stop, Receives
<1>6. CASE \E d \in BOOLEAN : SetDesired(d)
  BY <1>6 DEF SetDesired
<1>7. ASSUME NEW e, NativeLifecycleEvent(e) PROVE Agreement'
  BY <1>4, <1>7 DEF NativeLifecycleEvent, Receives
<1>8. CASE \/ \E then \in {"answer", "converge"} : QueryAndroid(then)
           \/ QueryIos \/ ReadScheduling \/ ReadPending
  BY <1>8 DEF QueryAndroid, QueryIos, ReadScheduling, ReadPending, Receives, Reads
<1>9. CASE Load
  <2>1. /\ pc = "answer" /\ pc' = "merge" /\ snap'.rust = actor.running
        /\ UNCHANGED <<actor, task>>
    BY <1>9 DEF Load, Reads, Snaps
  <2> QED BY <2>1
<1>10. CASE MergeRunning
  <2>1. /\ pc \in {"merge", "converge"} /\ task' = task
        /\ actor'.lifecycle = actor.lifecycle
        /\ actor'.running = IF Diverges THEN snap.running ELSE actor.running
        /\ pc' = IF pc = "merge" THEN (IF Diverges THEN "believe" ELSE "report")
                 ELSE (IF Diverges THEN "adjust" ELSE "recv")
        /\ pc' # "recv" => snap' = snap
    BY <1>10 DEF MergeRunning
  <2>2. platform = "android" /\ snap.known /\ ~Diverges => (snap.rust <=> snap.running)
    BY DEF Diverges, Adopts, Heals, Snaps
  <2> QED BY <2>1, <2>2
<1>11. CASE MergeLifecycle
  <2>1. /\ pc \in {"believe", "adjust"} /\ task' = task
        /\ actor'.running = actor.running /\ actor'.lifecycle = Believed
        /\ pc' \in {"report", "recv", "revoke"}
        /\ pc' = "report" => snap' = snap
    BY <1>11 DEF MergeLifecycle
  <2>2. ~Cleaning /\ (actor.running <=> snap.running)
    BY <2>1 DEF ReadInv
  <2>3. Believed \in UpStates <=> snap.running
    BY DEF Believed, Snaps
  <2> QED BY <2>1, <2>2, <2>3
<1>12. CASE Revoke \/ AnswerStatus
  <2>1. /\ pc \in {"revoke", "report"} /\ pc' = "recv" /\ ~Cleaning
        /\ actor'.running = actor.running /\ actor'.lifecycle = actor.lifecycle
        /\ task' = task \/ task' = "callback"
    BY <1>12 DEF Revoke, AnswerStatus, SlotFree, Reads
  <2> QED BY <2>1
<1>13. CASE InitOk
  BY <1>13 DEF InitOk, OnlyTask, States
<1>14. CASE Unbelieve
  BY <1>14 DEF Unbelieve, OnlyTask, ReadInv
<1>15. CASE ClearToken
  <2>1. /\ task' \in {"late", "none"} /\ UNCHANGED query /\ actor'.running = actor.running
        /\ actor'.lifecycle = IF actor.lifecycle \in Stoppable THEN "stopped"
                              ELSE actor.lifecycle
    BY <1>15 DEF ClearToken, OnlyTask
  <2>2. ~Merging /\ ~actor.running
    BY <1>15 DEF ClearToken
  <2>3. actor'.lifecycle \notin UpStates
    BY <1>15, <2>1 DEF ClearToken, Stoppable, States
  <2> QED BY <2>1, <2>2, <2>3
<1>16. CASE RunReturns \/ OnComplete
  BY <1>16 DEF RunReturns, OnComplete, OnlyTask
<1>17. CASE Native
  BY <1>17 DEF Native, NotificationStop, Timeout, Deliver, Expire, Transition, OnItsOwn
<1>18. CASE Die
  BY <1>18 DEF Die, Idle
<1> QED BY <1>2, <1>3, <1>5, <1>6, <1>7, <1>8, <1>9, <1>10, <1>11, <1>12, <1>13, <1>14,
           <1>15, <1>16, <1>17, <1>18 DEF Next, Command, Query, ServiceTask

\* A service task starts over a belief that is whole.
LEMMA LaunchStep ==
    ASSUME Next, task' = "init"
    PROVE  task = "init" \/ (Whole' /\ pc' = "recv")
<1> USE DEF query, taskVars
<1>1. ASSUME NEW f \in BOOLEAN, Launched(f), pc = "recv", UNCHANGED query
      PROVE  Whole' /\ pc' = "recv"
  BY <1>1 DEF Launched, Whole, UpStates
<1>2. CASE StartAndroid
  BY <1>1, <1>2 DEF StartAndroid, Receives
<1>3. CASE StartIos
  <2>1. PICK refused \in Refusals : Launched(refused = Kinds)
    BY <1>3 DEF StartIos
  <2> QED BY <1>1, <1>3, <2>1 DEF StartIos, Receives
<1>4. CASE \/ Stop \/ \E d \in BOOLEAN : SetDesired(d)
           \/ \E e \in {"notificationStop", "timeout"} : NativeLifecycleEvent(e)
  BY <1>4 DEF Stop, SetDesired, NativeLifecycleEvent, Release
<1>5. CASE \/ \E then \in {"answer", "converge"} : QueryAndroid(then)
           \/ QueryIos \/ ReadScheduling \/ ReadPending \/ Load \/ AnswerStatus
  BY <1>5 DEF QueryAndroid, QueryIos, ReadScheduling, ReadPending, Load, AnswerStatus, Reads
<1>6. CASE MergeRunning \/ MergeLifecycle \/ Revoke
  BY <1>6 DEF MergeRunning, MergeLifecycle, Revoke
<1>7. CASE ServiceTask
  BY <1>7 DEF ServiceTask, InitOk, Unbelieve, RunReturns, OnComplete, ClearToken, OnlyTask
<1>8. CASE Native
  BY <1>8 DEF Native, NotificationStop, Timeout, Deliver, Expire, Transition, OnItsOwn
<1>9. CASE Die
  BY <1>9 DEF Die
<1> QED BY <1>2, <1>3, <1>4, <1>5, <1>6, <1>7, <1>8, <1>9 DEF Next, Command, Query

LEMMA HalvesStep ==
    ASSUME StatusTypeOK, ReadInv, HalvesInv, [Next]_vars PROVE HalvesInv'
<1>1. CASE UNCHANGED vars
  BY <1>1 DEF vars, query, taskVars, native, HalvesInv, Agreement, Whole, Cleaning, Merging
<1>2. CASE Next
  <2>1. torn' <=> \/ (Cleaning /\ Merging)'
                  \/ torn /\ (Cleaning \/ Merging \/ ~Whole)'
    BY <1>2 DEF Next, Witness, StatusTypeOK, QueryTypes
  <2>2. task' = "init" => ~torn'
    BY <1>2, <2>1, LaunchStep DEF HalvesInv, Cleaning, Merging
  <2>3. ~torn' => Agreement'
    <3>1. CASE ~torn
      BY <1>2, <2>1, <3>1, AgreementStep
    <3>2. CASE torn /\ ~torn'
      BY <2>1, <3>2 DEF Agreement, Merging, Cleaning
    <3> QED BY <3>1, <3>2
  <2> QED BY <2>1, <2>2, <2>3 DEF HalvesInv
<1> QED BY <1>1, <1>2

-----------------------------------------------------------------------------
(* The moments of a query.  What was true just before the answer, and on   *)
(* Android what the bridge read, is among them.                            *)

WitnessInv ==
    /\ pc # "recv" => Up \in up /\ open \in tasked
    /\ pc # "recv" /\ platform = "android" /\ snap.known => snap.running \in up

LEMMA NowIsAMoment ==
    ASSUME WitnessInv, [Next]_vars
    PROVE  pc' # "recv" => /\ Up' \in up' /\ open' \in tasked'
                           /\ pc # "recv" => up \subseteq up' /\ tasked \subseteq tasked'
<1>1. CASE Witness
  BY <1>1 DEF Witness
<1>2. CASE UNCHANGED vars
  BY <1>2 DEF vars, WitnessInv, Up, query, native
<1> QED BY <1>1, <1>2 DEF Next

LEMMA WitnessStep ==
    ASSUME StatusTypeOK, WitnessInv, [Next]_vars PROVE WitnessInv'
<1> USE NowIsAMoment, OthersTyped DEF query
<1> SUFFICES ASSUME pc' # "recv", platform = "android", snap'.known
             PROVE  snap'.running \in up'
  BY DEF WitnessInv
<1>1. ASSUME UNCHANGED query PROVE snap'.running \in up'
  BY <1>1 DEF WitnessInv
<1>2. CASE \/ StartAndroid \/ StartIos \/ Stop
           \/ \E d \in BOOLEAN : SetDesired(d)
           \/ \E e \in {"notificationStop", "timeout"} : NativeLifecycleEvent(e)
  BY <1>1, <1>2 DEF StartAndroid, StartIos, Stop, SetDesired, NativeLifecycleEvent
<1>3. ASSUME NEW then, QueryAndroid(then) PROVE snap'.running \in up'
  <2>1. snap'.running = android.running
    BY <1>3, Blank, ReadAndroid DEF QueryAndroid
  <2>2. android' = android
    BY <1>3 DEF QueryAndroid, Reads, native
  <2> QED BY <2>1, <2>2 DEF Up
<1>4. CASE QueryIos \/ AnswerStatus \/ Die
  BY <1>4 DEF QueryIos, AnswerStatus, Die
<1>4a. CASE Load \/ MergeRunning \/ MergeLifecycle \/ Revoke
  BY <1>4a, MergeFrame DEF WitnessInv
<1>5. CASE ReadScheduling \/ ReadPending
  <2>1. snap'.running = snap.running /\ snap'.known = snap.known /\ pc # "recv"
    BY <1>5 DEF ReadScheduling, ReadPending, StatusTypeOK, QueryTypes, Snaps
  <2> QED BY <2>1 DEF WitnessInv
<1>6. CASE ServiceTask
  BY <1>1, <1>6 DEF ServiceTask, InitOk, Unbelieve, RunReturns, OnComplete, ClearToken, OnlyTask
<1>7. CASE Native
  BY <1>1, <1>7 DEF Native, NotificationStop, Timeout, Deliver, Expire, Transition, OnItsOwn
<1>8. CASE UNCHANGED vars
  BY <1>1, <1>8 DEF vars
<1> QED BY <1>2, <1>3, <1>4, <1>4a, <1>5, <1>6, <1>7, <1>8 DEF Next, Command, Query

LEMMA StateStep ==
    ASSUME StatusTypeOK, IosInv, HalvesInv, WitnessInv, StateIsReal, [Next]_vars
    PROVE  StateIsReal'
<1>1. CASE AnswerStatus
  <2>1. /\ pc = "report" /\ platform' = platform /\ doc'.torn = torn
        /\ doc'.snap = snap /\ doc'.up = up /\ doc'.state = Reported
    BY <1>1 DEF AnswerStatus, Reads
  <2>2. CASE platform = "android" /\ snap.known /\ ~torn
    <3>1. Reported = actor.lifecycle
      BY <2>2 DEF Reported
    <3>2. ~Cleaning /\ Agreement
      BY <2>1, <2>2 DEF HalvesInv, Merging
    <3>3. Reported \in UpStates <=> snap.running
      BY <2>1, <2>2, <3>1, <3>2 DEF Agreement, Whole
    <3>4. snap.running \in up /\ snap.running \in BOOLEAN
      BY <2>1, <2>2 DEF WitnessInv, StatusTypeOK, QueryTypes, Snaps
    <3> QED BY <2>1, <3>3, <3>4 DEF StateIsReal, Answered, Says
  <2>3. CASE platform = "ios" /\ snap.known
    <3>1. Reported = IF ~snap.active /\ ~snap.desired THEN "stopped" ELSE actor.lifecycle
      BY <2>3 DEF Reported
    <3>2. actor.lifecycle \in UpStates <=> actor.token
      BY <2>3 DEF IosInv
    <3>3. actor.token \in up /\ actor.token \in BOOLEAN
      BY <2>1, <2>3 DEF WitnessInv, Up, StatusTypeOK, ActorTypes
    <3> QED BY <2>1, <2>3, <3>1, <3>2, <3>3 DEF StateIsReal, Answered, Says, UpStates
  <2>4. CASE ~snap.known \/ (platform = "android" /\ torn)
    BY <2>1, <2>4 DEF StateIsReal, Answered
  <2> QED BY <2>2, <2>3, <2>4, PlatformKnown
<1>2. CASE doc' = NoDoc
  BY <1>2 DEF StateIsReal, Answered, NoDoc, NoAnswer
<1>3. CASE UNCHANGED vars
  BY <1>3 DEF vars, StateIsReal, Answered, Says
<1> QED BY <1>1, <1>2, <1>3 DEF Next

\* The reported state is one the service was in while the bridge was asked,
\* unless a cleanup and a merge have torn the belief.
THEOREM StatesAreReal == Spec => []StateIsReal
<1>1. Init => TimeoutInv /\ IosInv /\ ReadInv /\ HalvesInv /\ WitnessInv /\ StateIsReal
  BY DEF Init, TimeoutInv, IosInv, ReadInv, HalvesInv, Agreement, Whole, Cleaning, Merging,
         UpStates, WitnessInv, StateIsReal, Answered, NoDoc, NoAnswer, Idle, FreshRecord
<1>2. StatusTypeOK /\ TimeoutInv /\ IosInv /\ ReadInv /\ HalvesInv /\ WitnessInv
        /\ StateIsReal /\ [Next]_vars
        => (TimeoutInv /\ IosInv /\ ReadInv /\ HalvesInv /\ WitnessInv /\ StateIsReal)'
  BY TimeoutStep, IosStep, ReadStep, HalvesStep, WitnessStep, StateStep
<1> QED BY <1>1, <1>2, StatusTyped, PTL DEF Spec

-----------------------------------------------------------------------------
(* The active task.  On iOS the record says active if and only if a task   *)
(* runs, or one has ended that nobody recorded as ended.                   *)

ActiveInv ==
    /\ Active(ios) <=> open \/ ghost
    /\ open => ios.begun /\ ~ghost
    /\ pc # "recv" /\ platform = "ios" /\ snap.known =>
          /\ snap.active => TRUE \in tasked \/ snap.ghost
          /\ ~snap.active => FALSE \in tasked

LEMMA RecordStep ==
    ASSUME StatusTypeOK, TimeoutInv, ActiveInv, [Next]_vars
    PROVE  /\ Active(ios)' <=> open' \/ ghost'
           /\ open' => ios'.begun /\ ~ghost'
<1> USE PlatformKnown DEF ActiveInv, Active, native, StatusTypeOK, NativeTypes
<1> DEFINE Goal == /\ (ios'.begun /\ ~ios'.ended <=> open' \/ ghost')
                   /\ (open' => ios'.begun /\ ~ghost')
<1>1. ASSUME UNCHANGED <<open, ghost>>, ios'.begun = ios.begun, ios'.ended = ios.ended
      PROVE  Goal
  BY <1>1
<1>2. CASE StartAndroid \/ \E e \in {"notificationStop", "timeout"} : NativeLifecycleEvent(e)
  BY <1>1, <1>2 DEF StartAndroid, NativeLifecycleEvent
<1>3. CASE StartIos
  <2>1. PICK refused \in Refusals, consumed \in BOOLEAN :
           ios' = [Submitted(ForgetsEnd(ios), refused)
                     EXCEPT !.desired = TRUE, !.pending = @ /\ ~consumed]
    BY <1>3 DEF StartIos
  <2>2. ForgetsEnd(ios) \in Defaults
        /\ ForgetsEnd(ios).begun = ios.begun /\ ForgetsEnd(ios).ended = FALSE
    BY DEF ForgetsEnd, Defaults
  <2>3. ios'.begun = ios.begun /\ ios'.ended = FALSE
    BY <2>1, <2>2, SubmittedTyped DEF Defaults
  <2> QED BY <1>3, <2>3 DEF StartIos
<1>4. CASE Stop
  <2>1. CASE UNCHANGED <<ios, open, ghost>>
    BY <1>1, <2>1
  <2>2. CASE /\ ios' = [TaskEnds(ios) EXCEPT !.desired = FALSE]
             /\ open' = FALSE /\ ghost' = FALSE
    <3>1. ios'.ended = TRUE
      BY <2>2 DEF TaskEnds, Defaults
    <3> QED BY <2>2, <3>1
  <2> QED BY <1>4, <2>1, <2>2 DEF Stop
<1>5. ASSUME NEW d \in BOOLEAN, SetDesired(d) PROVE Goal
  <2>1. PICK refused \in Refusals :
           ios' = IF platform # "ios" THEN ios
                  ELSE IF d THEN [Submitted(ios, refused) EXCEPT !.desired = TRUE]
                  ELSE [ios EXCEPT !.desired = FALSE]
    BY <1>5 DEF SetDesired
  <2>2. ios'.begun = ios.begun /\ ios'.ended = ios.ended
    BY <2>1, SubmittedTyped DEF Defaults
  <2> QED BY <1>1, <1>5, <2>2 DEF SetDesired
<1>6. CASE \/ \E then \in {"answer", "converge"} : QueryAndroid(then)
           \/ QueryIos \/ ReadScheduling \/ ReadPending
  BY <1>1, <1>6 DEF QueryAndroid, QueryIos, ReadScheduling, ReadPending, Reads
<1>7. CASE AnswerStatus
  BY <1>1, <1>7 DEF AnswerStatus, Reads
<1>7a. CASE Load \/ MergeRunning \/ MergeLifecycle \/ Revoke
  BY <1>1, <1>7a, MergeFrame
<1>8. CASE InitOk \/ Unbelieve \/ ClearToken
  BY <1>1, <1>8 DEF InitOk, Unbelieve, ClearToken, OnlyTask
<1>9. CASE RunReturns
  <2>1. ios'.begun = ios.begun /\ ios'.ended = ios.ended
    BY <1>9 DEF RunReturns, Defaults
  <2> QED BY <1>1, <1>9, <2>1 DEF RunReturns
<1>10. CASE OnComplete
  <2>1. PICK refused \in Refusals : ios' = IF open THEN Submitted(ios, refused) ELSE ios
    BY <1>10 DEF OnComplete
  <2>2. ios'.begun = ios.begun /\ ios'.ended = ios.ended
    BY <2>1, SubmittedTyped
  <2> QED BY <1>10, <2>2 DEF OnComplete
<1>11. CASE NotificationStop \/ Timeout
  BY <1>1, <1>11 DEF NotificationStop, Timeout
<1>12. CASE Deliver
  BY <1>12 DEF Deliver, TaskBegins, Defaults
<1>13. CASE Expire
  <2>1. PICK refused \in Refusals : ios' = Submitted(TaskEnds(ios), refused)
    BY <1>13 DEF Expire
  <2>2. TaskEnds(ios) \in Defaults /\ TaskEnds(ios).ended = TRUE
    BY DEF TaskEnds, Defaults
  <2>3. ios'.ended = TRUE
    BY <2>1, <2>2, SubmittedTyped
  <2> QED BY <1>13, <2>3 DEF Expire
<1>14. CASE Transition
  <2>1. PICK refused \in Refusals : ios' = Submitted(ios, refused)
    BY <1>14 DEF Transition
  <2> QED BY <1>1, <1>14, <2>1, SubmittedTyped DEF Transition
<1>15. CASE Die
  BY <1>15 DEF Die
<1>16. CASE UNCHANGED vars
  BY <1>1, <1>16 DEF vars
<1>17. Goal
  BY <1>2, <1>3, <1>4, <1>5, <1>6, <1>7, <1>7a, <1>8, <1>9, <1>10, <1>11, <1>12, <1>13, <1>14,
     <1>15, <1>16 DEF Next, Command, Query, ServiceTask, Native
<1> QED BY <1>17

LEMMA ActiveStep ==
    ASSUME StatusTypeOK, TimeoutInv, WitnessInv, ActiveInv, [Next]_vars PROVE ActiveInv'
<1> USE NowIsAMoment, OthersTyped DEF query
<1> DEFINE Goal == /\ snap'.active => TRUE \in tasked' \/ snap'.ghost
                   /\ ~snap'.active => FALSE \in tasked'
<1> SUFFICES ASSUME pc' # "recv", platform = "ios", snap'.known
             PROVE  Goal
  BY RecordStep DEF ActiveInv
<1>1. ASSUME pc # "recv", snap'.known = snap.known, snap'.active = snap.active,
             snap'.ghost = snap.ghost
      PROVE  Goal
  BY <1>1 DEF ActiveInv
<1>2. CASE \/ StartAndroid \/ StartIos \/ Stop
           \/ \E d \in BOOLEAN : SetDesired(d)
           \/ \E e \in {"notificationStop", "timeout"} : NativeLifecycleEvent(e)
  BY <1>2 DEF StartAndroid, StartIos, Stop, SetDesired, NativeLifecycleEvent, Receives
<1>3. CASE \/ \E then \in {"answer", "converge"} : QueryAndroid(then)
           \/ AnswerStatus \/ Die
  BY <1>3 DEF QueryAndroid, AnswerStatus, Die
<1>3a. CASE Load \/ MergeRunning \/ MergeLifecycle \/ Revoke
  BY <1>1, <1>3a, MergeFrame
<1>4. CASE QueryIos
  <2>1. snap'.active = Active(ios) /\ snap'.ghost = ghost
    BY <1>4, Blank, ReadIos DEF QueryIos
  <2>2. open' = open /\ open \in BOOLEAN
    BY <1>4 DEF QueryIos, Reads, native, StatusTypeOK, NativeTypes
  <2> QED BY <2>1, <2>2 DEF ActiveInv
<1>5. CASE ReadScheduling \/ ReadPending
  <2>1. /\ snap'.known = snap.known /\ snap'.active = snap.active
        /\ snap'.ghost = snap.ghost /\ pc # "recv"
    BY <1>5 DEF ReadScheduling, ReadPending, StatusTypeOK, QueryTypes, Snaps
  <2> QED BY <1>1, <2>1
<1>6. CASE ServiceTask
  BY <1>1, <1>6 DEF ServiceTask, InitOk, Unbelieve, RunReturns, OnComplete, ClearToken, OnlyTask
<1>7. CASE Native
  BY <1>1, <1>7 DEF Native, NotificationStop, Timeout, Deliver, Expire, Transition, OnItsOwn
<1>8. CASE UNCHANGED vars
  BY <1>1, <1>8 DEF vars
<1> QED BY <1>2, <1>3, <1>3a, <1>4, <1>5, <1>6, <1>7, <1>8 DEF Next, Command, Query

LEMMA AccountStep ==
    ASSUME StatusTypeOK, ActiveInv, ActiveAccounted, [Next]_vars PROVE ActiveAccounted'
<1>1. CASE AnswerStatus
  <2>1. /\ pc = "report" /\ platform' = platform /\ doc'.snap = snap /\ doc'.tasked = tasked
        /\ doc'.native = IF platform = "android" THEN snap.running ELSE snap.active
    BY <1>1 DEF AnswerStatus, Reads
  <2> QED BY <2>1 DEF ActiveInv, ActiveAccounted, Answered
<1>2. CASE doc' = NoDoc
  BY <1>2 DEF ActiveAccounted, Answered, NoDoc, NoAnswer
<1>3. CASE UNCHANGED vars
  BY <1>3 DEF vars, ActiveAccounted, Answered
<1> QED BY <1>1, <1>2, <1>3 DEF Next

\* On iOS a background task that ran for the whole query is reported, and a
\* reported one ran during it or ended without being recorded.
THEOREM TasksAccounted == Spec => []ActiveAccounted
<1>1. Init => TimeoutInv /\ WitnessInv /\ ActiveInv /\ ActiveAccounted
  BY DEF Init, TimeoutInv, WitnessInv, ActiveInv, Active, ActiveAccounted, Answered, NoDoc,
         NoAnswer, FreshRecord
<1>2. StatusTypeOK /\ TimeoutInv /\ WitnessInv /\ ActiveInv /\ ActiveAccounted /\ [Next]_vars
        => (TimeoutInv /\ WitnessInv /\ ActiveInv /\ ActiveAccounted)'
  BY TimeoutStep, WitnessStep, ActiveStep, AccountStep
<1> QED BY <1>1, <1>2, StatusTyped, PTL DEF Spec
=============================================================================
