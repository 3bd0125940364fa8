------------------------ MODULE ServiceManagerProofs ------------------------
(***************************************************************************)
(* Proofs about the manager actor and its service tasks, for any number of *)
(* starts and crashes, any set of stop reasons and each platform: first    *)
(* the token slot and the refinement, then how a run ends, which rests on  *)
(* the slot: whose reason it reports, when its callback fires and what     *)
(* is_running() says meanwhile.                                            *)
(***************************************************************************)
EXTENDS ServiceManagerProperties, TLAPS

-----------------------------------------------------------------------------
(* The type invariant.                                                     *)

(* The members of the finite sets of names that the steps produce.         *)
LEMMA Names ==
    /\ StopReasons \subseteq StopReason
    /\ "NativeNotificationStop" \in StopReason
    /\ StopReason \union {"none", "failed"} = Outcome
    /\ \A r \in StopReason : r \in Outcome
    /\ "TaskCompleted" \in StopReason
    /\ {"start", "stop", "enable", "enableBare", "disable"} = Jobs
    /\ {"none", "init", "mark", "run", "classify", "save", "callback",
        "clear", "clearInit", "lateCallback", "done"} \subseteq TaskPc
    /\ \A e \in NativeEvents : EventReason[e] \in StopReason
  BY ConstantsAssumption
     DEF ConstantsAssumption, StopReason, Outcome, Jobs, TaskPc, EventReason

LEMMA Ranges ==
    /\ None \in 0 .. MaxGen /\ Gens \subseteq 0 .. MaxGen
    /\ \A n \in 0 .. MaxGen : n < MaxGen => n + 1 \in Gens /\ n + 1 # None
  BY ConstantsAssumption DEF ConstantsAssumption, Gens, None

LEMMA TaskNames ==
    /\ Following["classify"] \in TaskPc /\ Following["save"] \in TaskPc
    /\ Following["callback"] \in TaskPc /\ Following["clear"] \in TaskPc
    /\ Following["clearInit"] \in TaskPc /\ Following["lateCallback"] \in TaskPc
  BY DEF Following, TaskPc

LEMMA InitTyped == Init => TypeOK
<1> SUFFICES ASSUME Init PROVE TypeOK
    OBVIOUS
<1>1. FlagsOK
  BY DEF Init, FlagsOK
<1>2. reasonSlot \in [gen : 0 .. MaxGen, reason : StopReason \union {"none"}]
  BY Ranges DEF Init, NoReason
<1>3. /\ task \in [Gens -> TaskPc] 
      /\ runOk \in [Gens -> BOOLEAN] /\ captured \in [Gens -> BOOLEAN]
  BY Names DEF Init
<1>4. /\ stopped \in [Gens -> StopReason \union {"none"}]
      /\ outcome \in [Gens -> Outcome]
  BY Names DEF Init
<1>5. store \in [desired : BOOLEAN, config : BOOLEAN]
  BY DEF Init, Stored
<1>6. boots \in Nat /\ generation \in 0 .. MaxGen
  BY Ranges DEF Init, None
<1> QED BY <1>1, <1>2, <1>3, <1>4, <1>5, <1>6 DEF Init, TypeOK, DataOK

LEMMA LaunchTyped == ASSUME TypeOK, Launch PROVE DataOK'
<1> USE DEF TypeOK, FlagsOK, DataOK
<1>1. generation + 1 \in Gens /\ Gens \subseteq 0 .. MaxGen
  BY Ranges DEF Launch
<1>2. task' \in [Gens -> TaskPc] /\ captured' \in [Gens -> BOOLEAN]
  <2>1. task' \in [Gens -> TaskPc]
    BY <1>1, Names DEF Launch
  <2>2. captured' \in [Gens -> BOOLEAN]
    BY <1>1, Zenon DEF Launch
  <2> QED BY <2>1, <2>2
<1>3. job' \in Jobs
  BY Names DEF Launch
<1> QED BY <1>1, <1>2, <1>3 DEF Launch, historyVars

LEMMA ConvergeTyped == ASSUME TypeOK, IsRunningConverge PROVE DataOK'
<1> USE DEF TypeOK, DataOK, IsRunningConverge
<1>1. lifecycle' \in {"Running", "Stopped"}
  BY DEF Believed
<1>2. /\ cancelled' \subseteq Gens /\ token' \in Gens \union {None}
      /\ stopped' \in [Gens -> StopReason \union {"none"}]
      /\ pc' \in {"tag", "recv"}
  <2>1. CASE ~seen /\ token # None
    BY <2>1, Names DEF Cancel
  <2>2. CASE ~(~seen /\ token # None)
    BY <2>2
  <2> QED BY <2>1, <2>2
<1> QED BY <1>1, <1>2 DEF nativeVars

LEMMA PersistTyped == ASSUME TypeOK, Persist PROVE DataOK'
<1> USE DEF TypeOK, DataOK, Persist
<1>1. Written(job) \in [desired : BOOLEAN, config : BOOLEAN]
  BY DEF Written, Stored
<1>2. Wish[job] \in {"run", "idle", "armed"}
  BY Names DEF Wish
<1> QED BY <1>1, <1>2 DEF slotVars, taskVars, nativeVars

LEMMA ReturnTyped == ASSUME TypeOK, NEW g \in Gens, RunReturns(g) PROVE DataOK'
<1> USE DEF TypeOK, DataOK
<1>1. runOk' \in [Gens -> BOOLEAN] /\ task' \in [Gens -> TaskPc]
  BY Names DEF RunReturns
<1> QED BY <1>1 DEF RunReturns, actorVars, slotVars, nativeVars, historyVars

LEMMA CrashTyped == ASSUME TypeOK, Crash PROVE DataOK'
<1> USE DEF TypeOK, DataOK, Crash
<1>2. reasonSlot' \in [gen : 0 .. MaxGen, reason : StopReason \union {"none"}]
  BY Ranges DEF NoReason
<1>3. /\ task' \in [Gens -> TaskPc] 
      /\ runOk' \in [Gens -> BOOLEAN] /\ captured' \in [Gens -> BOOLEAN]
  BY Names
<1>4. /\ stopped' \in [Gens -> StopReason \union {"none"}]
      /\ outcome' \in [Gens -> Outcome]
  BY Names
<1>5. generation' \in 0 .. MaxGen
  BY Ranges DEF None
<1>6. boots' \in Nat
  OBVIOUS
<1> QED BY <1>2, <1>3, <1>4, <1>5, <1>6

LEMMA FlagsStep == TypeOK /\ [Next]_vars => FlagsOK'
<1> SUFFICES ASSUME FlagsOK, DataOK, [Next]_vars PROVE FlagsOK'
    BY DEF TypeOK
<1> USE DEF FlagsOK, actorVars, slotVars, taskVars, nativeVars
<1>1. CASE Start
  BY <1>1 DEF Start, Launch
<1>2. CASE Rollback
  BY <1>2 DEF Rollback, CallbackAfterRollback
<1>3. CASE Stop
  BY <1>3 DEF Stop, StopWith, Stoppable
<1>4. ASSUME NEW e \in NativeEvents, NativeLifecycleEvent(e) PROVE FlagsOK'
  BY <1>4 DEF NativeLifecycleEvent, StopWith, Stoppable
<1>5. CASE SetOnComplete \/ SetDesired \/ Drain
  BY <1>5 DEF SetOnComplete, SetDesired, Drain
<1>6. CASE IsRunningQuery \/ StatusQuery \/ StatusMerge
  BY <1>6 DEF IsRunningQuery, StatusQuery, StatusMerge
<1>7. CASE IsRunningConverge
  BY <1>7 DEF IsRunningConverge
<1>8. CASE IsRunningTag
  BY <1>8 DEF IsRunningTag
<1>9. CASE Boot
  BY <1>9 DEF Boot, Launch
<1>10. CASE Persist
  BY <1>10 DEF Persist
<1>11. CASE NativeRestarts \/ \E e \in NativeEvents : NativeStops(e)
  BY <1>11 DEF NativeRestarts, NativeStops
<1>13. ASSUME NEW g \in Gens, TaskFinishes(g) \/ RunReturns(g) PROVE FlagsOK'
  <2>1. CASE ClearToken(g)
    BY <2>1 DEF ClearToken, RunningAfter, DataOK
  <2>2. CASE ~ClearToken(g)
    BY <1>13, <2>2 DEF TaskFinishes, InitOk, MarkRunning, RunReturns,
             InitFails, Classify, SaveIdle, FireCallback
  <2> QED BY <2>1, <2>2
<1>14. CASE Crash
  BY <1>14 DEF Crash
<1>15. CASE UNCHANGED vars
  BY <1>15 DEF vars
<1> QED BY <1>1, <1>2, <1>3, <1>4, <1>5, <1>6, <1>7, <1>8, <1>9, <1>10, <1>11,
           <1>13, <1>14, <1>15
        DEF Next, Command, ActorFinishes, Native

LEMMA DataStep == TypeOK /\ [Next]_vars => DataOK'
<1> SUFFICES ASSUME TypeOK, DataOK, [Next]_vars PROVE DataOK'
    BY DEF TypeOK
<1> USE Names, Ranges DEF DataOK, actorVars, slotVars, taskVars,
        nativeVars, historyVars
<1>1. CASE Start
  BY <1>1, LaunchTyped DEF Start
<1>2. CASE Rollback
  BY <1>2 DEF Rollback, CallbackAfterRollback
<1>3. CASE Stop
  BY <1>3 DEF Stop, StopWith, Stoppable, Cancel
<1>4. ASSUME NEW e \in NativeEvents, NativeLifecycleEvent(e) PROVE DataOK'
  <2>2. CASE StopWith(EventReason[e])
    BY <1>4, <2>2 DEF NativeLifecycleEvent, StopWith, Stoppable, Cancel
  <2>3. CASE ~StopWith(EventReason[e])
    BY <1>4, <2>3 DEF NativeLifecycleEvent
  <2> QED BY <2>2, <2>3
<1>5. CASE SetOnComplete \/ SetDesired \/ Drain
  BY <1>5 DEF SetOnComplete, SetDesired, Drain
<1>6. CASE IsRunningQuery \/ StatusQuery \/ StatusMerge
  BY <1>6 DEF IsRunningQuery, StatusQuery, StatusMerge, Believed
<1>7. CASE IsRunningConverge
  BY <1>7, ConvergeTyped
<1>8. CASE IsRunningTag
  BY <1>8 DEF IsRunningTag
<1>9. CASE Boot
  BY <1>9, LaunchTyped DEF Boot
<1>10. CASE Persist
  BY <1>10, PersistTyped
<1>11. CASE NativeRestarts
  BY <1>11 DEF NativeRestarts
<1>12. ASSUME NEW e \in NativeEvents, NativeStops(e) PROVE DataOK'
  BY <1>12 DEF NativeStops
<1>13. ASSUME NEW g \in Gens, TaskFinishes(g) \/ RunReturns(g) PROVE DataOK'
  <2>1. CASE InitOk(g)
    BY <2>1 DEF InitOk
  <2>8. CASE MarkRunning(g)
    BY <2>8 DEF MarkRunning
  <2>7. CASE RunReturns(g)
    BY <2>7, ReturnTyped
  <2>2. CASE InitFails(g)
    BY <2>2 DEF InitFails, Outcome
  <2>3. CASE Classify(g)
    <3>1. task' \in [Gens -> TaskPc]
      BY <2>3, TaskNames DEF Classify
    <3>2. outcome' \in [Gens -> Outcome]
      BY <2>3 DEF Classify, Outcome
    <3> QED BY <2>3, <3>1, <3>2 DEF Classify
  <2>4. CASE SaveIdle(g)
    <3>1. Stored(FALSE, FALSE) \in [desired : BOOLEAN, config : BOOLEAN]
      BY DEF Stored
    <3>2. store' \in [desired : BOOLEAN, config : BOOLEAN]
      BY <2>4, <3>1 DEF SaveIdle
    <3>3. task' \in [Gens -> TaskPc]
      BY <2>4, TaskNames DEF SaveIdle
    <3> QED BY <2>4, <3>2, <3>3 DEF SaveIdle
  <2>5. CASE FireCallback(g)
    BY <2>5, TaskNames DEF FireCallback
  <2>6. CASE ClearToken(g)
    BY <2>6, TaskNames DEF ClearToken, RunningAfter, Current
  <2> QED BY <1>13, <2>1, <2>2, <2>3, <2>4, <2>5, <2>6, <2>7, <2>8 DEF TaskFinishes
<1>14. CASE Crash
  BY <1>14, CrashTyped
<1>15. CASE UNCHANGED vars
  BY <1>15 DEF vars
<1> QED BY <1>1, <1>2, <1>3, <1>4, <1>5, <1>6, <1>7, <1>8, <1>9, <1>10, <1>11,
           <1>12, <1>13, <1>14, <1>15
        DEF Next, Command, ActorFinishes, Native

(* The state of the actor, its tasks and its file stays typed.             *)
THEOREM TypeCorrect == Spec => []TypeOK
<1>1. TypeOK /\ [Next]_vars => TypeOK'
  BY FlagsStep, DataStep DEF TypeOK
<1> QED BY <1>1, InitTyped, PTL DEF Spec

-----------------------------------------------------------------------------
(* The token slot.  That it names the one uncancelled service is not       *)
(* inductive alone: the generation check of a cleanup is sound because a   *)
(* held token is of the newest generation, and a start is because nothing  *)
(* was spawned or cancelled under the generation it is about to take.      *)

SlotInv ==
    /\ TokenMeansService
    /\ token # None => token = generation
    /\ \A g \in Gens : g > generation => task[g] = "none"
    /\ \A g \in cancelled : g <= generation

LEMMA SlotFrame ==
    ASSUME SlotInv, UNCHANGED <<token, generation, task, cancelled>>
    PROVE  SlotInv'
  BY DEF SlotInv, TokenMeansService, Serving

(* A task that goes on serving disturbs nothing.                           *)
LEMMA SlotServes ==
    ASSUME TypeOK, SlotInv, NEW g \in Gens, NEW q, Serving(g),
           q \in {"init", "mark", "run", "classify", "save", "callback",
                  "clear", "clearInit"},
           task' = [task EXCEPT ![g] = q],
           UNCHANGED <<token, generation, cancelled>>
    PROVE  SlotInv'
<1>1. \A h \in Gens : Serving(h)' <=> Serving(h)
  BY DEF Serving, TypeOK, DataOK
<1>2. \A h \in Gens : h > generation => task'[h] = "none"
  <2>1. ~(g > generation)
    BY DEF SlotInv, Serving
  <2> QED BY <2>1 DEF SlotInv, TypeOK, DataOK
<1> QED BY <1>1, <1>2 DEF SlotInv, TokenMeansService

(* A start takes a generation under which nothing has run.                 *)
LEMMA SlotLaunch == ASSUME TypeOK, SlotInv, Launch PROVE SlotInv'
<1> DEFINE n == generation + 1
<1>1. n \in Gens /\ n # None /\ generation \in Nat /\ Gens \subseteq Nat
  <2>1. generation \in 0 .. MaxGen /\ generation < MaxGen
    BY DEF Launch, TypeOK, DataOK
  <2>2. MaxGen \in Nat
    BY ConstantsAssumption DEF ConstantsAssumption
  <2> QED BY <2>1, <2>2 DEF Gens, None
<1>2. /\ token = None /\ token' = n /\ generation' = n
      /\ task' = [task EXCEPT ![n] = "init"] /\ cancelled' = cancelled
  BY DEF Launch
<1>3. n \notin cancelled
  <2>1. ~(n <= generation)
    BY <1>1
  <2> QED BY <2>1 DEF SlotInv
<1>4. \A g \in Gens : Serving(g)' <=> Serving(g) \/ g = n
  BY <1>1, <1>2 DEF Serving, TypeOK, DataOK
<1>5. TokenMeansService'
  <2>1. \A g \in Gens : ~(Serving(g) /\ g \notin cancelled)
    BY <1>1, <1>2 DEF SlotInv, TokenMeansService, None, Gens
  <2> QED BY <1>2, <1>3, <1>4, <2>1 DEF TokenMeansService
<1>6. \A g \in Gens : g > generation' => task'[g] = "none"
  BY <1>1, <1>2 DEF SlotInv, TypeOK, DataOK
<1>7. \A g \in cancelled' : g <= generation'
  BY <1>1, <1>2 DEF SlotInv, TypeOK, DataOK
<1> QED BY <1>2, <1>5, <1>6, <1>7 DEF SlotInv

(* A token that is taken and cancelled leaves a cancelled task behind.     *)
LEMMA SlotCancel ==
    ASSUME TypeOK, SlotInv, token # None, token' = None, cancelled' = Cancel,
           UNCHANGED <<generation, task>>
    PROVE  SlotInv'
<1>1. token \in Gens /\ token = generation /\ generation \in Nat
  BY Ranges, ConstantsAssumption
     DEF SlotInv, TypeOK, DataOK, ConstantsAssumption
<1>2. \A g \in Gens : g # None
  BY DEF Gens, None
<1> QED BY <1>1, <1>2 DEF SlotInv, TokenMeansService, Serving, Cancel

(* The cleanup of the current generation empties the slot it owns; that of *)
(* an older one finds itself cancelled already and takes nothing.          *)
LEMMA SlotClear ==
    ASSUME TypeOK, SlotInv, NEW g \in Gens, ClearToken(g)
    PROVE  SlotInv'
<1>1. /\ Serving(g) /\ task' = [task EXCEPT ![g] = Following[task[g]]]
      /\ Following[task[g]] \in {"done", "lateCallback"}
      /\ UNCHANGED <<generation, cancelled>>
      /\ token' = IF generation = g THEN None ELSE token
  BY DEF ClearToken, Serving, Following, Current, None
<1>2. \A h \in Gens : Serving(h)' <=> Serving(h) /\ h # g
  BY <1>1 DEF Serving, TypeOK, DataOK
<1>3. \A h \in Gens : h # None
  BY DEF Gens, None
<1>4. TokenMeansService'
  <2>1. CASE generation = g
    BY <2>1, <1>1, <1>2, <1>3 DEF SlotInv, TokenMeansService
  <2>2. CASE generation # g
    BY <2>2, <1>1, <1>2, <1>3 DEF SlotInv, TokenMeansService
  <2> QED BY <2>1, <2>2
<1>5. \A h \in Gens : h > generation => task'[h] = "none"
  <2>1. ~(g > generation)
    BY <1>1 DEF SlotInv, Serving
  <2> QED BY <1>1, <2>1 DEF SlotInv, TypeOK, DataOK
<1> QED BY <1>1, <1>4, <1>5 DEF SlotInv

LEMMA InitSlot == Init => SlotInv
  BY DEF Init, SlotInv, TokenMeansService, Serving, None, Gens

LEMMA StepSlot == TypeOK /\ SlotInv /\ [Next]_vars => SlotInv'
<1> SUFFICES ASSUME TypeOK, SlotInv, [Next]_vars PROVE SlotInv'
    OBVIOUS
<1> USE DEF actorVars, slotVars, taskVars, nativeVars, historyVars
<1>1. CASE Start
  BY <1>1, SlotLaunch DEF Start
<1>2. CASE Rollback
  <2>1. /\ generation' = generation + 1 /\ token = None
        /\ UNCHANGED <<token, task, cancelled>>
    BY <1>2 DEF Rollback
  <2>2. generation \in Nat /\ Gens \subseteq Nat /\ cancelled \subseteq Nat
    BY Ranges, ConstantsAssumption
       DEF TypeOK, DataOK, Gens, ConstantsAssumption
  <2> QED BY <2>1, <2>2 DEF SlotInv, TokenMeansService, Serving
<1>3. CASE Stop
  BY <1>3, SlotCancel DEF Stop, StopWith, Stoppable
<1>4. ASSUME NEW e \in NativeEvents, NativeLifecycleEvent(e) PROVE SlotInv'
  <2>1. CASE StopWith(EventReason[e])
    BY <2>1, SlotCancel DEF StopWith, Stoppable
  <2>2. CASE ~StopWith(EventReason[e])
    BY <1>4, <2>2, SlotFrame DEF NativeLifecycleEvent
  <2> QED BY <2>1, <2>2
<1>5. CASE SetOnComplete \/ SetDesired \/ Drain
  BY <1>5, SlotFrame DEF SetOnComplete, SetDesired, Drain
<1>6. CASE IsRunningQuery \/ StatusQuery \/ StatusMerge
  BY <1>6, SlotFrame DEF IsRunningQuery, StatusQuery, StatusMerge
<1>7. CASE IsRunningConverge
  <2>1. CASE ~seen /\ token # None
    BY <1>7, <2>1, SlotCancel DEF IsRunningConverge
  <2>2. CASE ~(~seen /\ token # None)
    BY <1>7, <2>2, SlotFrame DEF IsRunningConverge
  <2> QED BY <2>1, <2>2
<1>8. CASE IsRunningTag \/ Persist
  BY <1>8, SlotFrame DEF IsRunningTag, Persist
<1>9. CASE Boot
  BY <1>9, SlotLaunch, SlotFrame DEF Boot
<1>10. CASE NativeRestarts \/ \E e \in NativeEvents : NativeStops(e)
  BY <1>10, SlotFrame DEF NativeRestarts, NativeStops
<1>11. ASSUME NEW g \in Gens, TaskFinishes(g) \/ RunReturns(g) PROVE SlotInv'
  <2>1. CASE InitOk(g)
    BY <2>1, SlotServes DEF InitOk, Serving
  <2>2. CASE InitFails(g)
    BY <2>2, SlotServes DEF InitFails, Serving
  <2>3. CASE MarkRunning(g)
    BY <2>3, SlotServes DEF MarkRunning, Serving
  <2>4. CASE RunReturns(g)
    BY <2>4, SlotServes DEF RunReturns, Serving
  <2>5. CASE Classify(g)
    BY <2>5, SlotServes DEF Classify, Serving, Following
  <2>6. CASE SaveIdle(g)
    BY <2>6, SlotServes DEF SaveIdle, Serving, Following
  <2>7. CASE FireCallback(g)
    <3>1. CASE task[g] = "callback"
      <4>1. task' = [task EXCEPT ![g] = "clear"] /\ Serving(g)
        BY <2>7, <3>1 DEF FireCallback, Following, Serving
      <4> QED BY <2>7, <4>1, SlotServes DEF FireCallback
    <3>2. CASE task[g] = "lateCallback"
      <4>1. /\ task' = [task EXCEPT ![g] = "done"]
            /\ UNCHANGED <<token, generation, cancelled>>
        BY <2>7, <3>2 DEF FireCallback, Following
      <4>2. \A h \in Gens : Serving(h)' <=> Serving(h)
        BY <3>2, <4>1 DEF Serving, TypeOK, DataOK
      <4>3. \A h \in Gens : h > generation => task'[h] = "none"
        BY <3>2, <4>1 DEF SlotInv, TypeOK, DataOK
      <4> QED BY <4>1, <4>2, <4>3 DEF SlotInv, TokenMeansService
    <3> QED BY <2>7, <3>1, <3>2 DEF FireCallback
  <2>8. CASE ClearToken(g)
    BY <2>8, SlotClear
  <2> QED BY <1>11, <2>1, <2>2, <2>3, <2>4, <2>5, <2>6, <2>7, <2>8
          DEF TaskFinishes
<1>12. CASE Crash
  BY <1>12 DEF Crash, SlotInv, TokenMeansService, Serving, None, Gens
<1>13. CASE UNCHANGED vars
  BY <1>13, SlotFrame DEF vars
<1> QED BY <1>1, <1>2, <1>3, <1>4, <1>5, <1>6, <1>7, <1>8, <1>9, <1>10, <1>11,
           <1>12, <1>13
        DEF Next, Command, ActorFinishes, Native

LEMMA SlotAlways == Spec => [](TypeOK /\ SlotInv)
<1>1. Init => TypeOK /\ SlotInv
  BY InitTyped, InitSlot
<1>2. TypeOK /\ SlotInv /\ [Next]_vars => (TypeOK /\ SlotInv)'
  BY FlagsStep, DataStep, StepSlot DEF TypeOK
<1> QED BY <1>1, <1>2, PTL DEF Spec

(* The slot always names the one uncancelled service, for any number of    *)
(* starts, stops, native reconciliations and crashes.                      *)
THEOREM SlotNamesService == Spec => []TokenMeansService
  BY SlotAlways, PTL DEF SlotInv

-----------------------------------------------------------------------------
(* The refinement.  The slot is the current run and the cancelled tasks    *)
(* that still serve are the draining ones; SlotInv is what a cleanup needs *)
(* to be the end of its own run and of no other.                           *)

Draining == {g \in cancelled : Serving(g)}

LEMMA RefineInit == Init => Single!Init
  BY DEF Init, Single!Init, None

LEMMA RefineStutter ==
    ASSUME UNCHANGED <<token, generation>>, Draining' = Draining
    PROVE  UNCHANGED Single!vars
  BY DEF Single!vars, Draining

LEMMA RefineFrame ==
    ASSUME UNCHANGED <<token, generation, task, cancelled>>
    PROVE  UNCHANGED Single!vars
  BY RefineStutter DEF Draining, Serving

(* A task that goes on serving drains no further.                          *)
LEMMA RefineServes ==
    ASSUME TypeOK, NEW g \in Gens, NEW q, Serving(g),
           q \in {"init", "mark", "run", "classify", "save", "callback",
                  "clear", "clearInit"},
           task' = [task EXCEPT ![g] = q],
           UNCHANGED <<token, generation, cancelled>>
    PROVE  UNCHANGED Single!vars
<1>1. \A h \in cancelled : Serving(h)' <=> Serving(h)
  BY DEF Serving, TypeOK, DataOK
<1> QED BY <1>1, RefineStutter DEF Draining

(* A start begins a run.                                                   *)
LEMMA RefineLaunch ==
    ASSUME TypeOK, SlotInv, Launch PROVE Single!Begin
<1> DEFINE n == generation + 1
<1>1. /\ token = None /\ token' = n /\ generation' = n
      /\ task' = [task EXCEPT ![n] = "init"] /\ cancelled' = cancelled
  BY DEF Launch
<1>2. n \notin cancelled
  <2>1. generation \in Nat
    BY ConstantsAssumption DEF TypeOK, DataOK, ConstantsAssumption
  <2>2. ~(n <= generation)
    BY <2>1
  <2> QED BY <2>2 DEF SlotInv
<1>3. \A g \in cancelled : Serving(g)' <=> Serving(g)
  BY <1>1, <1>2 DEF Serving, TypeOK, DataOK
<1> QED BY <1>1, <1>3 DEF Single!Begin, None

(* A token that is taken and cancelled leaves a draining run.              *)
LEMMA RefineCancel ==
    ASSUME TypeOK, SlotInv, token # None, token' = None, cancelled' = Cancel,
           UNCHANGED <<generation, task>>
    PROVE  Single!Cancel
<1>1. Serving(token)
  BY DEF SlotInv, TokenMeansService, TypeOK, DataOK
<1>2. \A g : Serving(g)' <=> Serving(g)
  BY DEF Serving
<1>3. {g \in cancelled : Serving(g)}'
        = {g \in cancelled : Serving(g)} \union {token}
  BY <1>1, <1>2 DEF Cancel
<1> QED BY <1>3 DEF Single!Cancel, None

(* A cleanup ends the current run, or the draining run it belongs to.      *)
LEMMA RefineClear ==
    ASSUME TypeOK, SlotInv, NEW g \in Gens, ClearToken(g)
    PROVE  Single!Complete \/ \E r \in Draining : Single!Drained(r)
<1>1. /\ Serving(g) /\ task' = [task EXCEPT ![g] = Following[task[g]]]
      /\ Following[task[g]] \in {"done", "lateCallback"}
      /\ UNCHANGED <<generation, cancelled>>
      /\ token' = IF generation = g THEN None ELSE token
  BY DEF ClearToken, Serving, Following, Current, None
<1>2. \A h \in cancelled : Serving(h)' <=> Serving(h) /\ h # g
  BY <1>1 DEF Serving, TypeOK, DataOK
<1>3. g # None
  BY DEF Gens, None
<1>4. CASE token = g
  <2>1. g \notin cancelled
    BY <1>4 DEF SlotInv, TokenMeansService
  <2>2. generation = g
    BY <1>3, <1>4 DEF SlotInv
  <2>3. token' = 0 /\ token # 0
    BY <1>1, <1>3, <1>4, <2>2 DEF None
  <2>4. Draining' = Draining
    BY <1>1, <1>2, <2>1 DEF Draining
  <2>5. Single!Complete
    BY <1>1, <2>3, <2>4 DEF Single!Complete, Draining
  <2> QED BY <2>5
<1>5. CASE token # g
  <2>1. g \in Draining
    BY <1>1, <1>5 DEF SlotInv, TokenMeansService, Draining
  <2>2. token' = token
    BY <1>1, <1>5 DEF SlotInv
  <2>3. Draining' = Draining \ {g}
    BY <1>1, <1>2 DEF Draining
  <2>4. Single!Drained(g)
    BY <1>1, <2>1, <2>2, <2>3 DEF Single!Drained, Draining
  <2> QED BY <2>1, <2>4
<1> QED BY <1>4, <1>5

LEMMA RefineStep ==
    TypeOK /\ SlotInv /\ [Next]_vars => [Single!Next]_(Single!vars)
<1> SUFFICES ASSUME TypeOK, SlotInv, [Next]_vars
             PROVE  Single!Next \/ UNCHANGED Single!vars
    OBVIOUS
<1> USE DEF actorVars, slotVars, taskVars, nativeVars, historyVars
<1>1. CASE Start
  BY <1>1, RefineLaunch DEF Start, Single!Next
<1>2. CASE Rollback
  <2>1. /\ generation' = generation + 1 /\ token = None
        /\ UNCHANGED <<token, task, cancelled>>
    BY <1>2 DEF Rollback
  <2>2. Single!Refused
    BY <2>1 DEF Single!Refused, None, Serving
  <2> QED BY <2>2 DEF Single!Next
<1>3. CASE Stop
  BY <1>3, RefineCancel DEF Stop, StopWith, Stoppable, Single!Next
<1>4. ASSUME NEW e \in NativeEvents, NativeLifecycleEvent(e)
      PROVE  Single!Next \/ UNCHANGED Single!vars
  <2>1. CASE StopWith(EventReason[e])
    BY <2>1, RefineCancel DEF StopWith, Stoppable, Single!Next
  <2>2. CASE ~StopWith(EventReason[e])
    BY <1>4, <2>2, RefineFrame DEF NativeLifecycleEvent
  <2> QED BY <2>1, <2>2
<1>5. CASE SetOnComplete \/ SetDesired \/ Drain
  BY <1>5, RefineFrame DEF SetOnComplete, SetDesired, Drain
<1>6. CASE IsRunningQuery \/ StatusQuery \/ StatusMerge
  BY <1>6, RefineFrame DEF IsRunningQuery, StatusQuery, StatusMerge
<1>7. CASE IsRunningConverge
  <2>1. CASE ~seen /\ token # None
    BY <1>7, <2>1, RefineCancel DEF IsRunningConverge, Single!Next
  <2>2. CASE ~(~seen /\ token # None)
    BY <1>7, <2>2, RefineFrame DEF IsRunningConverge
  <2> QED BY <2>1, <2>2
<1>8. CASE IsRunningTag \/ Persist
  BY <1>8, RefineFrame DEF IsRunningTag, Persist
<1>9. CASE Boot
  <2>1. CASE Launch
    BY <2>1, RefineLaunch DEF Single!Next
  <2>2. CASE ~Launch
    BY <1>9, <2>2, RefineFrame DEF Boot
  <2> QED BY <2>1, <2>2
<1>10. CASE NativeRestarts \/ \E e \in NativeEvents : NativeStops(e)
  BY <1>10, RefineFrame DEF NativeRestarts, NativeStops
<1>11. ASSUME NEW g \in Gens, TaskFinishes(g) \/ RunReturns(g)
       PROVE  Single!Next \/ UNCHANGED Single!vars
  <2>1. CASE InitOk(g)
    BY <2>1, RefineServes DEF InitOk, Serving
  <2>2. CASE InitFails(g)
    BY <2>2, RefineServes DEF InitFails, Serving
  <2>3. CASE MarkRunning(g)
    BY <2>3, RefineServes DEF MarkRunning, Serving
  <2>4. CASE RunReturns(g)
    BY <2>4, RefineServes DEF RunReturns, Serving
  <2>5. CASE Classify(g)
    BY <2>5, RefineServes DEF Classify, Serving, Following
  <2>6. CASE SaveIdle(g)
    BY <2>6, RefineServes DEF SaveIdle, Serving, Following
  <2>7. CASE FireCallback(g)
    <3>1. CASE task[g] = "callback"
      <4>1. task' = [task EXCEPT ![g] = "clear"] /\ Serving(g)
        BY <2>7, <3>1 DEF FireCallback, Following, Serving
      <4> QED BY <2>7, <4>1, RefineServes DEF FireCallback
    <3>2. CASE task[g] = "lateCallback"
      <4>1. /\ task' = [task EXCEPT ![g] = "done"]
            /\ UNCHANGED <<token, generation, cancelled>>
        BY <2>7, <3>2 DEF FireCallback, Following
      <4>2. \A h \in cancelled : Serving(h)' <=> Serving(h)
        BY <3>2, <4>1 DEF Serving, TypeOK, DataOK
      <4>3. Draining' = Draining
        BY <4>1, <4>2 DEF Draining
      <4> QED BY <4>1, <4>3, RefineStutter
    <3> QED BY <2>7, <3>1, <3>2 DEF FireCallback
  <2>8. CASE ClearToken(g)
    BY <2>8, RefineClear DEF Single!Next, Draining
  <2> QED BY <1>11, <2>1, <2>2, <2>3, <2>4, <2>5, <2>6, <2>7, <2>8
          DEF TaskFinishes
<1>12. CASE Crash
  <2>1. Single!Die
    BY <1>12 DEF Crash, Single!Die, None
  <2> QED BY <2>1 DEF Single!Next
<1>13. CASE UNCHANGED vars
  BY <1>13, RefineFrame DEF vars
<1> QED BY <1>1, <1>2, <1>3, <1>4, <1>5, <1>6, <1>7, <1>8, <1>9, <1>10, <1>11,
           <1>12, <1>13
        DEF Next, Command, ActorFinishes, Native

(* Every behaviour of the manager, whatever its threads, the native side   *)
(* and crashes do, is one of SingleService: one run at a time, and no run  *)
(* ended on behalf of another.                                             *)
THEOREM ManagerRefines == Spec => RefinesSingleService
  BY RefineInit, RefineStep, SlotAlways, PTL
     DEF Spec, RefinesSingleService, Single!Spec

-----------------------------------------------------------------------------
(* A task of an old generation: whatever it does next, it leaves the slot, *)
(* the running flag and the last error to the current one.                 *)

LEMMA StaleStep ==
    ASSUME TypeOK, SlotInv, [Next]_vars, NEW g \in Gens,
           task'[g] # task[g], task'[g] # "none",
           generation' = generation, generation # g
    PROVE  UNCHANGED <<token, isRunning, lastError>>
<1> USE DEF actorVars, slotVars, taskVars, nativeVars, historyVars
<1>1. \/ \E h \in Gens : TaskFinishes(h) \/ RunReturns(h)
      \/ Crash \/ Launch \/ UNCHANGED task
  BY DEF Next, Command, ActorFinishes, Native, Start, Rollback, Stop, StopWith,
         NativeLifecycleEvent, SetOnComplete, SetDesired, Drain, Boot, Persist,
         IsRunningQuery, StatusQuery, StatusMerge, IsRunningConverge,
         IsRunningTag, NativeRestarts, NativeStops, vars
<1>2. ~Launch
  BY ConstantsAssumption DEF Launch, TypeOK, DataOK, ConstantsAssumption
<1>3. ~Crash
  BY DEF Crash
<1>4. ASSUME NEW h \in Gens, TaskFinishes(h) \/ RunReturns(h)
      PROVE  UNCHANGED <<token, isRunning, lastError>>
  <2>1. CASE ClearToken(h)
    <3>1. task' = [task EXCEPT ![h] = Following[task[h]]]
      BY <2>1 DEF ClearToken
    <3>2. h = g
      BY <3>1 DEF TypeOK, DataOK
    <3> QED BY <2>1, <3>2
            DEF ClearToken, Current, RunningAfter, TypeOK, FlagsOK
  <2>2. CASE ~ClearToken(h)
    BY <1>4, <2>2
       DEF TaskFinishes, InitOk, InitFails, MarkRunning, RunReturns, Classify,
           SaveIdle, FireCallback
  <2> QED BY <2>1, <2>2
<1> QED BY <1>1, <1>2, <1>3, <1>4

(* No step of a task left over from an older start changes what the newer  *)
(* one is known by.                                                        *)
THEOREM StaleTasksHarmless == Spec => StaleHarmless
<1>1. TypeOK /\ SlotInv /\ [Next]_vars
        => [\A g \in Gens : task'[g] # task[g] /\ task'[g] # "none"
                         /\ generation' = generation /\ generation # g
            => UNCHANGED <<token, isRunning, lastError>>]_vars
  BY StaleStep
<1> QED BY <1>1, SlotAlways, PTL DEF Spec, StaleHarmless

-----------------------------------------------------------------------------
(* Reasons.  The slot is tagged with the generation it was written for, so *)
(* what matters is that the tag is right: a held token is of the current   *)
(* generation (SlotInv), a generation is stopped once, and reconciliation, *)
(* which tags in a step of its own, still finds the generation it stopped. *)

ReasonInv ==
    /\ \A g \in Gens : stopped[g] # "none" <=> g \in cancelled
    /\ reasonSlot.gen # None =>
          /\ reasonSlot.gen \in cancelled
          /\ reasonSlot.reason = stopped[reasonSlot.gen]
    /\ pc = "tag" => /\ generation \in cancelled
                     /\ stopped[generation] = "NativeNotificationStop"
    /\ ReasonIsOwn

LEMMA ReasonFrame ==
    ASSUME ReasonInv, UNCHANGED <<stopped, cancelled, reasonSlot, outcome>>,
           pc' = "tag" => pc = "tag" /\ generation' = generation
    PROVE  ReasonInv'
  BY DEF ReasonInv, ReasonIsOwn

(* The generation whose token is taken was not stopped before, so neither  *)
(* its own event nor another one can be at odds with the new reason.       *)
LEMMA ReasonStopped ==
    ASSUME TypeOK, SlotInv, ReasonInv, token # None, NEW r \in StopReason,
           stopped' = [stopped EXCEPT ![token] = r], cancelled' = Cancel,
           UNCHANGED outcome
    PROVE  /\ (\A g \in Gens : stopped[g] # "none" <=> g \in cancelled)'
           /\ ReasonIsOwn'
           /\ \A g \in cancelled : stopped'[g] = stopped[g]
           /\ token \in cancelled' /\ stopped'[token] = r
           /\ token = generation
<1>1. token \in Gens /\ token = generation
  BY DEF SlotInv, TypeOK, DataOK
<1>2. token \notin cancelled
  BY <1>1 DEF SlotInv, TokenMeansService
<1>3. "none" \notin StopReason
  BY DEF StopReason
<1>4. /\ stopped'[token] = r
      /\ \A g \in Gens : g # token => stopped'[g] = stopped[g]
  BY <1>1 DEF TypeOK, DataOK
<1>5. ReasonIsOwn'
  BY <1>1, <1>2, <1>3, <1>4 DEF ReasonInv, ReasonIsOwn
<1> QED BY <1>1, <1>2, <1>3, <1>4, <1>5 DEF ReasonInv, Cancel, TypeOK, DataOK

LEMMA ReasonStop ==
    ASSUME TypeOK, SlotInv, ReasonInv, pc = "recv",
           NEW r \in StopReason, StopWith(r)
    PROVE  ReasonInv'
<1>1. /\ token # None /\ stopped' = [stopped EXCEPT ![token] = r]
      /\ cancelled' = Cancel /\ UNCHANGED <<outcome, generation>>
      /\ reasonSlot' = [gen |-> generation, reason |-> r] /\ pc' # "tag"
  BY DEF StopWith, Stoppable
<1>2. reasonSlot'.gen = generation /\ reasonSlot'.reason = r
  BY <1>1
<1> QED BY <1>1, <1>2, ReasonStopped DEF ReasonInv

LEMMA ReasonConverge ==
    ASSUME TypeOK, SlotInv, ReasonInv, IsRunningConverge
    PROVE  ReasonInv'
<1>1. CASE ~seen /\ token # None
  <2>1. /\ stopped' = [stopped EXCEPT ![token] = "NativeNotificationStop"]
        /\ cancelled' = Cancel /\ UNCHANGED <<outcome, generation, reasonSlot>>
    BY <1>1 DEF IsRunningConverge
  <2>2. "NativeNotificationStop" \in StopReason
    BY Names
  <2> QED BY <1>1, <2>1, <2>2, ReasonStopped DEF ReasonInv, Cancel
<1>2. CASE ~(~seen /\ token # None)
  BY <1>2, ReasonFrame DEF IsRunningConverge
<1> QED BY <1>1, <1>2

LEMMA ReasonClassify ==
    ASSUME TypeOK, ReasonInv, NEW g \in Gens, Classify(g)
    PROVE  ReasonInv'
<1>1. /\ UNCHANGED <<stopped, cancelled, reasonSlot, pc, generation>>
      /\ outcome' = [outcome EXCEPT ![g] =
                        IF HasReason(g) THEN reasonSlot.reason
                        ELSE IF runOk[g] THEN "TaskCompleted" ELSE "failed"]
  BY DEF Classify, actorVars, slotVars
<1>2. outcome'[g] \in StopReason \ {"TaskCompleted"} => outcome'[g] = stopped[g]
  <2>1. CASE HasReason(g)
    <3>1. g # None
      BY DEF Gens, None
    <3> QED BY <1>1, <2>1, <3>1 DEF HasReason, ReasonInv, TypeOK, DataOK
  <2>2. CASE ~HasReason(g)
    BY <1>1, <2>2 DEF StopReason, TypeOK, DataOK
  <2> QED BY <2>1, <2>2
<1> QED BY <1>1, <1>2 DEF ReasonInv, ReasonIsOwn, TypeOK, DataOK

LEMMA ReasonStep == TypeOK /\ SlotInv /\ ReasonInv /\ [Next]_vars => ReasonInv'
<1> SUFFICES ASSUME TypeOK, SlotInv, ReasonInv, [Next]_vars PROVE ReasonInv'
    OBVIOUS
<1> USE DEF actorVars, slotVars, taskVars, nativeVars, historyVars
<1>1. CASE Start \/ Boot
  BY <1>1, ReasonFrame DEF Start, Boot, Launch
<1>2. CASE Rollback
  BY <1>2, ReasonFrame DEF Rollback
<1>3. CASE Stop
  BY <1>3, ReasonStop, Names DEF Stop
<1>4. ASSUME NEW e \in NativeEvents, NativeLifecycleEvent(e) PROVE ReasonInv'
  <2>1. CASE StopWith(EventReason[e])
    BY <1>4, <2>1, ReasonStop, Names DEF NativeLifecycleEvent
  <2>2. CASE ~StopWith(EventReason[e])
    BY <1>4, <2>2, ReasonFrame DEF NativeLifecycleEvent
  <2> QED BY <2>1, <2>2
<1>5. CASE SetOnComplete \/ SetDesired \/ Drain \/ Persist
  BY <1>5, ReasonFrame DEF SetOnComplete, SetDesired, Drain, Persist
<1>6. CASE IsRunningQuery \/ StatusQuery \/ StatusMerge
  BY <1>6, ReasonFrame DEF IsRunningQuery, StatusQuery, StatusMerge
<1>7. CASE IsRunningConverge
  BY <1>7, ReasonConverge
<1>8. CASE IsRunningTag
  <2>1. /\ reasonSlot'.gen = generation /\ pc = "tag" /\ pc' = "recv"
        /\ reasonSlot'.reason = "NativeNotificationStop"
        /\ UNCHANGED <<stopped, cancelled, outcome, generation>>
    BY <1>8 DEF IsRunningTag
  <2> QED BY <2>1 DEF ReasonInv, ReasonIsOwn
<1>9. CASE NativeRestarts \/ \E e \in NativeEvents : NativeStops(e)
  BY <1>9, ReasonFrame DEF NativeRestarts, NativeStops
<1>10. ASSUME NEW g \in Gens, TaskFinishes(g) \/ RunReturns(g)
       PROVE  ReasonInv'
  <2>1. CASE Classify(g)
    BY <2>1, ReasonClassify
  <2>2. CASE InitFails(g)
    <3>1. /\ UNCHANGED <<stopped, cancelled, reasonSlot, pc, generation>>
          /\ outcome' = [outcome EXCEPT ![g] = "failed"]
      BY <2>2 DEF InitFails
    <3>2. "failed" \notin StopReason
      BY DEF StopReason
    <3> QED BY <3>1, <3>2 DEF ReasonInv, ReasonIsOwn, TypeOK, DataOK
  <2>3. CASE ~Classify(g) /\ ~InitFails(g)
    BY <1>10, <2>3, ReasonFrame
       DEF TaskFinishes, InitOk, MarkRunning, RunReturns, SaveIdle,
           FireCallback, ClearToken
  <2> QED BY <2>1, <2>2, <2>3
<1>11. CASE Crash
  <2>1. /\ stopped' = [g \in Gens |-> "none"] /\ cancelled' = {}
        /\ outcome' = [g \in Gens |-> "none"] /\ pc' = "boot"
        /\ reasonSlot'.gen = None
    BY <1>11 DEF Crash, NoReason
  <2> QED BY <2>1 DEF ReasonInv, ReasonIsOwn, StopReason
<1>12. CASE UNCHANGED vars
  BY <1>12, ReasonFrame DEF vars
<1> QED BY <1>1, <1>2, <1>3, <1>4, <1>5, <1>6, <1>7, <1>8, <1>9, <1>10, <1>11,
           <1>12
        DEF Next, Command, ActorFinishes, Native

(* A terminal event names a stop reason only if that very generation was   *)
(* stopped with it, whoever stops what and however late its task reads.    *)
THEOREM ReasonsAreOwn == Spec => []ReasonIsOwn
<1>1. Init => ReasonInv
  BY DEF Init, ReasonInv, ReasonIsOwn, NoReason, StopReason
<1>2. ReasonInv => ReasonIsOwn
  BY DEF ReasonInv
<1> QED BY <1>1, <1>2, ReasonStep, SlotAlways, PTL DEF Spec

-----------------------------------------------------------------------------
(* Stops.                                                                  *)

(* Once the write of a stop has reached the disk, no step but the write of *)
(* a later start or enable puts the wish back there.                       *)
THEOREM StopsStick == Spec => []StopSticks
<1>1. Init => StopSticks
  BY DEF Init, StopSticks, Stored
<1>2. TypeOK /\ StopSticks /\ [Next]_vars => StopSticks'
  <2> SUFFICES ASSUME TypeOK, StopSticks, [Next]_vars PROVE StopSticks'
      OBVIOUS
  <2> USE DEF StopSticks, actorVars, slotVars, taskVars, nativeVars,
          historyVars
  <2>1. CASE Persist
    <3>1. CASE store' = Written(job) /\ intent' = Wish[job]
      <4>1. job \in Jobs
        BY <2>1 DEF Persist, TypeOK, DataOK
      <4>2. Wish[job] = "idle" => job \in {"stop", "disable"}
        BY <4>1 DEF Jobs, Wish
      <4>3. ASSUME job \in {"stop", "disable"} PROVE ~store'.desired
        <5>1. job \notin {"start", "enable", "enableBare"}
          BY <4>3
        <5>2. store'.desired = (job \in {"start", "enable", "enableBare"})
          BY <3>1, Zenon DEF Written, Stored
        <5> QED BY <5>1, <5>2, Zenon
      <4> QED BY <3>1, <4>1, <4>2, <4>3
    <3>2. CASE store' = store /\ intent' = intent
      BY <3>2
    <3> QED BY <2>1, <3>1, <3>2 DEF Persist
  <2>2. ASSUME NEW g \in Gens, TaskFinishes(g) \/ RunReturns(g)
        PROVE  StopSticks'
    <3>1. CASE SaveIdle(g)
      BY <3>1 DEF SaveIdle, Stored
    <3>2. CASE ~SaveIdle(g)
      BY <2>2, <3>2
         DEF TaskFinishes, InitOk, InitFails, MarkRunning, RunReturns,
             Classify, FireCallback, ClearToken
    <3> QED BY <3>1, <3>2
  <2>3. CASE \/ Start \/ Rollback \/ Stop \/ SetOnComplete \/ SetDesired
             \/ Drain \/ Boot
             \/ \E e \in NativeEvents : NativeLifecycleEvent(e)
    BY <2>3 DEF Start, Boot, Launch, Rollback, Stop, StopWith, SetOnComplete,
                SetDesired, Drain, NativeLifecycleEvent
  <2>4. CASE \/ IsRunningQuery \/ IsRunningConverge \/ IsRunningTag
             \/ StatusQuery \/ StatusMerge \/ Native
    BY <2>4 DEF IsRunningQuery, IsRunningConverge, IsRunningTag, StatusQuery,
                StatusMerge, Native, NativeRestarts, NativeStops
  <2>5. CASE Crash \/ UNCHANGED vars
    BY <2>5 DEF Crash, vars
  <2> QED BY <2>1, <2>2, <2>3, <2>4, <2>5 DEF Next, Command, ActorFinishes
<1> QED BY <1>1, <1>2, TypeCorrect, PTL DEF Spec

-----------------------------------------------------------------------------
(* What is_running() says.  Without a native authority nothing but starts, *)
(* stops and cleanups touches the running flag, each with the token.       *)

BeliefInv == BeliefAgrees /\ pc \notin {"converge", "tag", "merge"}

LEMMA BeliefStep ==
    ASSUME Platform # "android", TypeOK, BeliefInv, [Next]_vars
    PROVE  BeliefInv'
<1> USE DEF BeliefInv, BeliefAgrees, actorVars, slotVars, taskVars,
            nativeVars, historyVars
<1>1. ~(\/ Rollback \/ IsRunningQuery \/ IsRunningConverge \/ IsRunningTag
        \/ StatusQuery \/ StatusMerge \/ Native)
  BY DEF Rollback, IsRunningQuery, IsRunningConverge, IsRunningTag,
         StatusQuery, StatusMerge, Native, NativeRestarts, NativeStops
<1>2. CASE Start \/ Boot
  <2>1. CASE Launch
    <3>1. generation + 1 # None
      BY <2>1, Ranges DEF Launch, TypeOK, DataOK
    <3> QED BY <2>1, <3>1 DEF Launch
  <2>2. CASE ~Launch
    BY <1>2, <2>2 DEF Start, Boot
  <2> QED BY <2>1, <2>2
<1>3. CASE Stop \/ \E e \in NativeEvents : NativeLifecycleEvent(e)
  BY <1>3 DEF Stop, NativeLifecycleEvent, StopWith, Stoppable
<1>4. CASE SetOnComplete \/ SetDesired \/ Drain \/ Persist
  BY <1>4 DEF SetOnComplete, SetDesired, Drain, Persist
<1>5. ASSUME NEW g \in Gens, TaskFinishes(g) \/ RunReturns(g)
      PROVE  BeliefInv'
  <2>1. CASE ClearToken(g)
    BY <2>1 DEF ClearToken, RunningAfter, Current, TypeOK, FlagsOK
  <2>2. CASE MarkRunning(g)
    BY <2>2 DEF MarkRunning
  <2>3. CASE ~ClearToken(g) /\ ~MarkRunning(g)
    <3>1. UNCHANGED <<pc, token, isRunning, lifecycle>>
      BY <1>5, <2>3
         DEF TaskFinishes, InitOk, InitFails, RunReturns, Classify, SaveIdle,
             FireCallback
    <3> QED BY <3>1
  <2> QED BY <2>1, <2>2, <2>3
<1>6. CASE Crash \/ UNCHANGED vars
  BY <1>6 DEF Crash, vars
<1> QED BY <1>1, <1>2, <1>3, <1>4, <1>5, <1>6 DEF Next, Command, ActorFinishes

(* On desktop and iOS the running flag and the lifecycle agree with the    *)
(* token slot whenever they are read.                                      *)
THEOREM BeliefsAgree ==
    ASSUME Platform # "android" PROVE Spec => []BeliefAgrees
<1>1. Init => BeliefInv
  BY DEF Init, BeliefInv, BeliefAgrees
<1>2. BeliefInv => BeliefAgrees
  BY DEF BeliefInv
<1> QED BY <1>1, <1>2, BeliefStep, TypeCorrect, PTL DEF Spec

-----------------------------------------------------------------------------
(* Callbacks.  A captured callback is fired before the cleanup of its task *)
(* (after it when init() failed), so its task still holds the token.       *)

Holding == {"init", "mark", "run", "classify", "save", "callback",
            "clearInit", "lateCallback"}
CallbackInv == \A g \in Gens : captured[g] => task[g] \in Holding

(* A step of one task that keeps its callback, or fires it.                *)
LEMMA CallbackMoves ==
    ASSUME TypeOK, CallbackInv, NEW g \in Gens, NEW q,
           task' = [task EXCEPT ![g] = q],
           \/ q \in Holding /\ captured' = captured
           \/ captured' = [captured EXCEPT ![g] = FALSE]
           \/ task[g] \notin Holding /\ captured' = captured
    PROVE  CallbackInv'
<1> SUFFICES ASSUME NEW h \in Gens, captured'[h] PROVE task'[h] \in Holding
    BY DEF CallbackInv
<1>1. CASE h = g
  BY <1>1 DEF CallbackInv, TypeOK, DataOK
<1>2. CASE h # g
  BY <1>2 DEF CallbackInv, TypeOK, DataOK
<1> QED BY <1>1, <1>2

LEMMA CallbackStep == TypeOK /\ CallbackInv /\ [Next]_vars => CallbackInv'
<1> SUFFICES ASSUME TypeOK, CallbackInv, [Next]_vars PROVE CallbackInv'
    OBVIOUS
<1> USE DEF actorVars, slotVars, taskVars, nativeVars, historyVars
<1>1. CASE Launch
  <2>1. /\ generation + 1 \in Gens
        /\ task' = [task EXCEPT ![generation + 1] = "init"]
        /\ captured' = [captured EXCEPT ![generation + 1] = onComplete]
    BY <1>1, Ranges DEF Launch, TypeOK, DataOK
  <2>2. "init" \in Holding
    BY DEF Holding
  <2>3. ASSUME NEW h \in Gens, captured'[h] PROVE task'[h] \in Holding
    <3>1. CASE h = generation + 1
      BY <2>1, <2>2, <3>1 DEF TypeOK, DataOK
    <3>2. CASE h # generation + 1
      BY <2>1, <2>3, <3>2 DEF CallbackInv, TypeOK, DataOK
    <3> QED BY <3>1, <3>2
  <2> QED BY <2>3 DEF CallbackInv
<1>2. ASSUME NEW g \in Gens, TaskFinishes(g) \/ RunReturns(g)
      PROVE  CallbackInv'
  <2> USE DEF Holding, Following
  <2>1. CASE InitOk(g) \/ MarkRunning(g) \/ InitFails(g) \/ RunReturns(g)
    BY <2>1, CallbackMoves DEF InitOk, MarkRunning, InitFails, RunReturns
  <2>2. CASE Classify(g) \/ SaveIdle(g)
    BY <2>2, CallbackMoves DEF Classify, SaveIdle
  <2>3. CASE FireCallback(g)
    <3>1. CASE task[g] = "callback"
      BY <2>3, <3>1, CallbackMoves DEF FireCallback
    <3>2. CASE task[g] = "lateCallback"
      BY <2>3, <3>2, CallbackMoves DEF FireCallback
    <3> QED BY <2>3, <3>1, <3>2 DEF FireCallback
  <2>4. CASE ClearToken(g)
    <3>1. CASE task[g] = "clear"
      <4>1. /\ task' = [task EXCEPT ![g] = "done"] /\ captured' = captured
            /\ task[g] \notin Holding
        BY <2>4, <3>1 DEF ClearToken
      <4> QED BY <4>1, CallbackMoves
    <3>2. CASE task[g] = "clearInit"
      <4>1. /\ task' = [task EXCEPT ![g] = "lateCallback"]
            /\ captured' = captured
        BY <2>4, <3>2 DEF ClearToken
      <4> QED BY <4>1, CallbackMoves
    <3> QED BY <2>4, <3>1, <3>2 DEF ClearToken
  <2> QED BY <1>2, <2>1, <2>2, <2>3, <2>4 DEF TaskFinishes
<1>3. CASE Crash
  BY <1>3 DEF Crash, CallbackInv
<1>4. CASE UNCHANGED <<task, captured>>
  BY <1>4 DEF CallbackInv
<1> QED BY <1>1, <1>2, <1>3, <1>4
        DEF Next, Command, ActorFinishes, Native, Start, Rollback, Stop,
            StopWith, NativeLifecycleEvent, SetOnComplete, SetDesired, Drain,
            Boot, Persist, IsRunningQuery, StatusQuery, StatusMerge,
            IsRunningConverge, IsRunningTag, NativeRestarts, NativeStops, vars

LEMMA CallbackAlways == Spec => []CallbackInv
<1>1. Init => CallbackInv
  BY DEF Init, CallbackInv
<1> QED BY <1>1, CallbackStep, TypeCorrect, PTL DEF Spec

(* On desktop and iOS whoever polls is_running() and sees FALSE knows that *)
(* the callback of a service that ended by itself has run.                 *)
THEOREM CallbacksBeforeIdle ==
    ASSUME Platform # "android" PROVE Spec => []CallbackBeforeIdle
<1>1. TypeOK /\ SlotInv /\ BeliefAgrees /\ CallbackInv => CallbackBeforeIdle
  <2> SUFFICES ASSUME SlotInv, BeliefAgrees, CallbackInv, NEW g \in Gens,
                      captured[g], g \notin cancelled,
                      task[g] # "lateCallback"
               PROVE  isRunning
      BY DEF CallbackBeforeIdle
  <2>1. Serving(g)
    BY DEF CallbackInv, Holding, Serving
  <2>2. token = g /\ g # None
    BY <2>1 DEF SlotInv, TokenMeansService, Gens, None
  <2> QED BY <2>2 DEF BeliefAgrees
<1> QED BY <1>1, BeliefsAgree, CallbackAlways, SlotAlways, PTL

(* No start, not even one the platform refuses, drops an armed callback.   *)
THEOREM CallbacksKept == Spec => CallbackKept
<1>1. TypeOK /\ SlotInv /\ CallbackInv /\ [Next]_vars
        => [onComplete /\ ~onComplete' /\ boots' = boots
              => \E g \in Gens : captured'[g] /\ ~captured[g]]_vars
  <2> SUFFICES ASSUME TypeOK, SlotInv, CallbackInv, [Next]_vars,
                      onComplete, ~onComplete', boots' = boots
               PROVE  \E g \in Gens : captured'[g] /\ ~captured[g]
      OBVIOUS
  <2>1. ~Crash
    BY DEF Crash, TypeOK, DataOK
  <2>2. \A g \in Gens : ~(TaskFinishes(g) \/ RunReturns(g))
    BY DEF TaskFinishes, InitOk, InitFails, MarkRunning, RunReturns, Classify,
           SaveIdle, FireCallback, ClearToken
  <2>3. ~(\/ Rollback \/ Stop \/ SetOnComplete \/ SetDesired \/ Drain
          \/ \E e \in NativeEvents : NativeLifecycleEvent(e))
    BY DEF Rollback, CallbackAfterRollback, Stop, StopWith, SetOnComplete,
           SetDesired, Drain, NativeLifecycleEvent, actorVars, slotVars,
           taskVars, nativeVars, historyVars
  <2>4. ~(\/ Persist \/ IsRunningQuery \/ IsRunningConverge \/ IsRunningTag
          \/ StatusQuery \/ StatusMerge \/ Native \/ UNCHANGED vars)
    BY DEF Persist, IsRunningQuery, IsRunningConverge, IsRunningTag,
           StatusQuery, StatusMerge, Native, NativeRestarts, NativeStops, vars
  <2>5. Launch
    BY <2>1, <2>2, <2>3, <2>4
       DEF Next, Command, ActorFinishes, Start, Boot
  <2> DEFINE n == generation + 1
  <2>6. n \in Gens /\ n > generation
    BY <2>5, Ranges, ConstantsAssumption
       DEF Launch, TypeOK, DataOK, ConstantsAssumption
  <2>7. ~captured[n]
    BY <2>6 DEF SlotInv, CallbackInv, Holding
  <2>8. captured'[n] = onComplete
    BY <2>5, <2>6, Zenon DEF Launch, TypeOK, DataOK
  <2> QED BY <2>6, <2>7, <2>8, Zenon
<1> QED BY <1>1, CallbackAlways, SlotAlways, PTL DEF Spec, CallbackKept

-----------------------------------------------------------------------------
(* Lost reasons.  Where every stop tags its reason before it cancels, the  *)
(* slot is never behind a stopped run: a run that finds it gone was        *)
(* overtaken by the stop of a later one.                                   *)

LostInv ==
    /\ \A g \in cancelled : g <= reasonSlot.gen
    /\ \A g \in Gens : stopped[g] # "TaskCompleted"
    /\ ReasonLostOnlyByOverwrite

LEMMA LostFrame ==
    ASSUME LostInv, UNCHANGED <<stopped, cancelled, reasonSlot, outcome, natural>>
    PROVE  LostInv'
  BY DEF LostInv, ReasonLostOnlyByOverwrite

LEMMA LostStop ==
    ASSUME TypeOK, SlotInv, LostInv, NEW r \in StopReason \ {"TaskCompleted"},
           StopWith(r)
    PROVE  LostInv'
<1>1. /\ token \in Gens /\ token = generation
      /\ stopped' = [stopped EXCEPT ![token] = r]
      /\ cancelled' = cancelled \union {token} /\ UNCHANGED <<outcome, natural>>
      /\ reasonSlot'.gen = generation
  BY DEF StopWith, Stoppable, Cancel, SlotInv, TypeOK, DataOK
<1>2. \A g \in cancelled' : g <= reasonSlot'.gen
  BY <1>1, Ranges, ConstantsAssumption
     DEF SlotInv, TypeOK, DataOK, ConstantsAssumption
<1>3. \A g \in Gens : /\ stopped'[g] # "TaskCompleted"
                      /\ stopped[g] # "none" => stopped'[g] # "none"
  <2>1. r # "none"
    BY DEF StopReason
  <2> QED BY <1>1, <2>1 DEF LostInv, TypeOK, DataOK
<1>4. ReasonLostOnlyByOverwrite'
  BY <1>1, <1>3 DEF LostInv, ReasonLostOnlyByOverwrite
<1> QED BY <1>2, <1>3, <1>4 DEF LostInv

LEMMA LostClassify ==
    ASSUME TypeOK, ReasonInv, LostInv, NEW g \in Gens, Classify(g)
    PROVE  LostInv'
<1>1. /\ UNCHANGED <<stopped, cancelled, reasonSlot>>
      /\ outcome' = [outcome EXCEPT ![g] =
                        IF HasReason(g) THEN reasonSlot.reason
                        ELSE IF runOk[g] THEN "TaskCompleted" ELSE "failed"]
      /\ natural' = IF stopped[g] = "none" THEN natural \union {g} ELSE natural
  BY DEF Classify, taskVars
<1>2. ASSUME outcome'[g] = "TaskCompleted", g \notin natural'
      PROVE  \E h \in Gens : h > g /\ stopped'[h] # "none"
  <2>1. g \in cancelled /\ g # None
    BY <1>1, <1>2 DEF ReasonInv, Gens, None
  <2>2. ~HasReason(g)
    BY <1>1, <1>2, <2>1 DEF HasReason, ReasonInv, LostInv, TypeOK, DataOK
  <2>3. reasonSlot.gen \in 0 .. MaxGen /\ reasonSlot.gen > g
    BY <2>1, <2>2, Ranges, ConstantsAssumption
       DEF HasReason, LostInv, TypeOK, DataOK, Gens, ConstantsAssumption
  <2>4. reasonSlot.gen \in Gens /\ stopped[reasonSlot.gen] # "none"
    BY <2>1, <2>3, ConstantsAssumption
       DEF ReasonInv, TypeOK, DataOK, Gens, None, ConstantsAssumption
  <2> QED BY <1>1, <2>3, <2>4
<1>3. ReasonLostOnlyByOverwrite'
  BY <1>1, <1>2 DEF LostInv, ReasonLostOnlyByOverwrite, TypeOK, DataOK
<1> QED BY <1>1, <1>3 DEF LostInv

LEMMA LostStep ==
    ASSUME Platform # "android", "TaskCompleted" \notin StopReasons,
           TypeOK, SlotInv, BeliefInv, ReasonInv, LostInv, [Next]_vars
    PROVE  LostInv'
<1> USE DEF actorVars, slotVars, taskVars, nativeVars, historyVars
<1>1. CASE \/ Start \/ Boot \/ SetOnComplete \/ SetDesired \/ Drain \/ Persist
  BY <1>1, LostFrame
     DEF Start, Boot, Launch, SetOnComplete, SetDesired, Drain, Persist
<1>2. CASE Stop
  BY <1>2, LostStop, Names DEF Stop
<1>3. ASSUME NEW e \in NativeEvents, NativeLifecycleEvent(e) PROVE LostInv'
  <2>1. EventReason[e] \in StopReason \ {"TaskCompleted"}
    BY Names, ConstantsAssumption DEF ConstantsAssumption, EventReason
  <2>2. CASE StopWith(EventReason[e])
    BY <2>1, <2>2, LostStop
  <2>3. CASE ~StopWith(EventReason[e])
    BY <1>3, <2>3, LostFrame DEF NativeLifecycleEvent
  <2> QED BY <2>2, <2>3
<1>4. ~(\/ Rollback \/ IsRunningQuery \/ IsRunningConverge \/ IsRunningTag
        \/ StatusQuery \/ StatusMerge \/ Native)
  BY DEF BeliefInv, Rollback, IsRunningQuery, IsRunningConverge, IsRunningTag,
         StatusQuery, StatusMerge, Native, NativeRestarts, NativeStops
<1>5. ASSUME NEW g \in Gens, TaskFinishes(g) \/ RunReturns(g)
      PROVE  LostInv'
  <2>1. CASE Classify(g)
    BY <2>1, LostClassify
  <2>2. CASE InitFails(g)
    <3>1. /\ UNCHANGED <<stopped, cancelled, reasonSlot, natural>>
          /\ outcome' = [outcome EXCEPT ![g] = "failed"]
      BY <2>2 DEF InitFails
    <3> QED BY <3>1 DEF LostInv, ReasonLostOnlyByOverwrite, TypeOK, DataOK
  <2>3. CASE ~Classify(g) /\ ~InitFails(g)
    BY <1>5, <2>3, LostFrame
       DEF TaskFinishes, InitOk, MarkRunning, RunReturns, SaveIdle,
           FireCallback, ClearToken
  <2> QED BY <2>1, <2>2, <2>3
<1>6. CASE Crash
  <2>1. /\ cancelled' = {} /\ stopped' = [g \in Gens |-> "none"]
        /\ outcome' = [g \in Gens |-> "none"]
    BY <1>6 DEF Crash
  <2> QED BY <2>1 DEF LostInv, ReasonLostOnlyByOverwrite
<1>7. CASE UNCHANGED vars
  BY <1>7, LostFrame DEF vars
<1> QED BY <1>1, <1>2, <1>3, <1>4, <1>5, <1>6, <1>7
        DEF Next, Command, ActorFinishes

(* On desktop and iOS a stopped run that reports TaskCompleted, and clears *)
(* the desired state for it, was overtaken by the stop of a later run: the *)
(* overwritten slot is the only way to lose a reason.                      *)
THEOREM ReasonsLostByOverwrite ==
    ASSUME Platform # "android", "TaskCompleted" \notin StopReasons
    PROVE  Spec => []ReasonLostOnlyByOverwrite
<1>1. Init => BeliefInv /\ ReasonInv /\ LostInv
  BY DEF Init, BeliefInv, BeliefAgrees, ReasonInv, ReasonIsOwn, NoReason,
         LostInv, ReasonLostOnlyByOverwrite, StopReason
<1>2. LostInv => ReasonLostOnlyByOverwrite
  BY DEF LostInv
<1> QED BY <1>1, <1>2, BeliefStep, ReasonStep, LostStep, SlotAlways, PTL DEF Spec
=============================================================================
