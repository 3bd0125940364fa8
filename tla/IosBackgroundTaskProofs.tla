----------------------- MODULE IosBackgroundTaskProofs -----------------------
(***************************************************************************)
(* Proofs about the background tasks, the cancel listeners and the         *)
(* scheduling on iOS, for any number of tasks, runs and launches.          *)
(***************************************************************************)
EXTENDS IosBackgroundTaskProperties, FiniteSetTheorems, TLAPS

-----------------------------------------------------------------------------
(* Types.  The stored invoke and the slot name runs that were started,     *)
(* because listeners are only spawned for such runs, in the order of their *)
(* numbers, once each.                                                     *)

RunsInv ==
    /\ \E n \in Nat : Started = 1 .. n
    /\ \A g \in Runs : run[g] = "none" => listener[g] = "none"
    /\ \A s \in Starters :
          starter[s] = "consume" => /\ target[s] \in Started
                                    /\ listener[target[s]] = "none"
    /\ \A s, r \in Starters :
          starter[s] = "consume" /\ starter[r] = "consume" /\ s # r
              => target[s] # target[r]

LEMMA NextRun ==
    ASSUME IosTypeOK, RunsInv, Cardinality(Started) + 1 <= load.runs
    PROVE  /\ Cardinality(Started) + 1 \in Runs
           /\ run[Cardinality(Started) + 1] = "none"
           /\ 1 .. Cardinality(Started) = Started
<1>1. PICK n \in Nat : Started = 1 .. n
  BY DEF RunsInv
<1>2. Cardinality(Started) = n
  <2>1. Cardinality(1 .. n) = IF 1 > n THEN 0 ELSE n - 1 + 1
    BY FS_Interval
  <2> QED BY <1>1, <2>1
<1>3. load.runs \in 0 .. MaxRuns
  BY IosAssumption DEF IosTypeOK, OsTypes, IosAssumption
<1>4. n + 1 \in Runs
  BY <1>2, <1>3, IosAssumption DEF Runs, IosAssumption
<1> QED BY <1>1, <1>2, <1>4 DEF Started

LEMMA InitRuns == Init => RunsInv
<1> SUFFICES ASSUME Init PROVE RunsInv
    OBVIOUS
<1>1. Started = 1 .. 0
  BY DEF Init, Started
<1>2. \A s \in Starters : starter[s] = "away"
  BY DEF Init, Away
<1> QED BY <1>1, <1>2 DEF Init, RunsInv

(* Neither starters nor new runs are involved.                             *)
LEMMA RunsFrame ==
    ASSUME RunsInv, UNCHANGED startVars, Started' = Started,
           \A g \in Runs : listener[g] = "none" => listener'[g] = "none"
    PROVE  RunsInv'
<1>1. \A g \in Runs : run'[g] = "none" <=> run[g] = "none"
  BY DEF Started
<1>2. \A g \in Started : g \in Runs
  BY DEF Started
<1> QED BY <1>1, <1>2 DEF RunsInv, startVars

(* A starter that moves on without a start.                                *)
LEMMA RunsMove ==
    ASSUME IosTypeOK, RunsInv, NEW s \in Starters, NEW q, q # "consume",
           starter' = [starter EXCEPT ![s] = q],
           UNCHANGED <<target, run, listener>>
    PROVE  RunsInv'
<1>1. \A r \in Starters : starter'[r] = "consume" => starter[r] = "consume"
  BY DEF IosTypeOK, StarterTypes
<1> QED BY <1>1 DEF RunsInv, Started

LEMMA AnsweredFrame ==
    ASSUME NEW answer
    PROVE  \A g \in Runs : /\ listener[g] = "none" => Answered(answer)[g] = "none"
                           /\ Answered(answer)[g] \in {listener[g], answer}
  BY DEF Answered

LEMMA RunsStart ==
    ASSUME IosTypeOK, RunsInv, NEW s \in Starters, Start(s)
    PROVE  RunsInv'
<1> DEFINE g == Cardinality(Started) + 1
<1>1. g \in Runs /\ run[g] = "none" /\ Started = 1 .. Cardinality(Started)
  BY NextRun DEF Start
<1>2. Cardinality(Started) \in Nat
  <2>1. PICK n \in Nat : Started = 1 .. n
    BY DEF RunsInv
  <2> QED BY <2>1, FS_Interval
<1>3. run' = [run EXCEPT ![g] = "running"]
  BY DEF Start
<1>4. Started' = 1 .. g
  <2>1. Started' = Started \union {g}
    BY <1>1, <1>3 DEF Started, IosTypeOK, RunTypes
  <2> HIDE DEF g
  <2>2. g = Cardinality(Started) + 1
    BY DEF g
  <2> QED BY <1>1, <1>2, <2>1, <2>2
<1>5. g \notin Started
  BY <1>1 DEF Started
<1> HIDE DEF g
<1>6. \A r \in Starters : starter[r] = "consume" => target[r] # g
  BY <1>5 DEF RunsInv
<1>7. \E n \in Nat : Started' = 1 .. n
  BY <1>2, <1>4 DEF g
<1>8. CASE s = "user"
  <2>1. /\ listener' = [listener EXCEPT ![g] = "due"]
        /\ starter' = [starter EXCEPT ![s] = "idle"] /\ target' = target
    BY <1>8 DEF Start, Goto, g
  <2>2. \A r \in Starters : starter'[r] = "consume" => starter[r] = "consume"
    BY <2>1 DEF IosTypeOK, StarterTypes
  <2>3. \A h \in Runs : h # g => listener'[h] = listener[h] /\ run'[h] = run[h]
    BY <1>3, <2>1 DEF IosTypeOK, RunTypes, ListenerTypes
  <2>4. run'[g] # "none"
    BY <1>1, <1>3 DEF IosTypeOK, RunTypes
  <2> QED BY <1>4, <1>6, <1>7, <2>1, <2>2, <2>3, <2>4 DEF RunsInv, Started
<1>9. CASE s # "user"
  <2>1. /\ listener' = listener
        /\ starter' = [starter EXCEPT ![s] = "consume"]
        /\ target' = [target EXCEPT ![s] = g]
    BY <1>9 DEF Start, g
  <2>2. listener[g] = "none" /\ run'[g] # "none"
    BY <1>1, <1>3 DEF RunsInv, IosTypeOK, RunTypes
  <2>3. /\ target'[s] = g /\ starter'[s] = "consume"
        /\ \A r \in Starters \ {s} : /\ target'[r] = target[r]
                                     /\ starter'[r] = starter[r]
    BY <2>1 DEF IosTypeOK, StarterTypes
  <2>4. \A h \in Runs : h # g => run'[h] = run[h]
    BY <1>3 DEF IosTypeOK, RunTypes
  <2>5. g \in Started' /\ Started \subseteq Started'
    BY <2>2, <2>4, <1>1 DEF Started
  <2> QED BY <1>6, <1>7, <2>1, <2>2, <2>3, <2>4, <2>5 DEF RunsInv
<1> QED BY <1>8, <1>9

LEMMA RunsConsume ==
    ASSUME IosTypeOK, RunsInv, NEW s \in Starters, Consume(s)
    PROVE  RunsInv'
<1>1. /\ starter[s] = "consume" /\ run' = run
      /\ listener' = [listener EXCEPT ![target[s]] = "due"]
      /\ starter' = [starter EXCEPT ![s] = Home(s)]
      /\ target' = [target EXCEPT ![s] = 0]
  BY DEF Consume
<1>2. target[s] \in Started /\ target[s] \in Runs
  BY <1>1 DEF RunsInv, Started
<1>3. Home(s) # "consume"
  BY DEF Home, Starters
<1>4. \A r \in Starters : starter'[r] = "consume"
         => r # s /\ starter[r] = "consume" /\ target'[r] = target[r]
  BY <1>1, <1>3 DEF IosTypeOK, StarterTypes
<1>5. \A g \in Runs : g # target[s] => listener'[g] = listener[g]
  BY <1>1 DEF IosTypeOK, ListenerTypes
<1>6. \A r \in Starters : starter'[r] = "consume" =>
          target[r] # target[s] /\ target[r] \in Runs
  BY <1>1, <1>4 DEF RunsInv, Started
<1>7. Started' = Started
  BY <1>1 DEF Started
<1> QED BY <1>1, <1>2, <1>4, <1>5, <1>6, <1>7 DEF RunsInv, Started

LEMMA RunsStep == ASSUME IosTypeOK, RunsInv, [Next]_vars PROVE RunsInv'
<1> USE DEF osVars, taskVars, scheduleVars, intentVars, managerVars, startVars
<1>1. CASE Boot
  <2>1. /\ UNCHANGED <<run, listener>>
        /\ \A s \in Starters : starter'[s] # "consume"
    BY <1>1 DEF Boot, Launched, Starters
  <2> QED BY <2>1 DEF RunsInv, Started
<1>2. CASE Die
  <2>1. \A s \in Starters : starter'[s] = "away"
    BY <1>2 DEF Die, Away
  <2>2. \A g \in Runs : /\ run'[g] = "none" <=> run[g] = "none"
                        /\ run'[g] = "none" => listener'[g] = "none"
    BY <1>2 DEF Die, Started
  <2>3. Started' = Started
    BY <2>2 DEF Started
  <2> QED BY <2>1, <2>2, <2>3 DEF RunsInv
<1>3. ASSUME NEW k \in Kinds, Deliver(k) PROVE RunsInv'
  <2>1. CASE pendingWarm
    <3>1. /\ starter' = [starter EXCEPT !["warm"] = "read"]
          /\ UNCHANGED <<target, run, listener>>
      BY <1>3, <2>1 DEF Deliver
    <3> QED BY <3>1, RunsMove DEF Starters
  <2>2. CASE ~pendingWarm
    BY <1>3, <2>2, RunsFrame DEF Deliver, Started
  <2> QED BY <2>1, <2>2
<1>4. CASE Expire \/ SafetyTimer
  <2>1. listener' = Answered(ExpiryAnswer) /\ UNCHANGED <<run, startVars>>
    BY <1>4 DEF Expire, SafetyTimer, Expired
  <2> QED BY <2>1, AnsweredFrame, RunsFrame DEF Started
<1>5. CASE EnterBackground \/ EnterForeground \/ Enable \/ Disable
  BY <1>5, RunsFrame
     DEF EnterBackground, EnterForeground, Enable, Disable, Started
<1>6. CASE WarmBlock \/ ColdClear \/ WarmQuery
  <2>1. PICK s \in Starters, q \in {"away", "blocked", "due", "arm"} :
           /\ starter' = [starter EXCEPT ![s] = q]
           /\ UNCHANGED <<target, run, listener>>
    BY <1>6 DEF WarmBlock, ColdClear, WarmQuery, Goto, Home, Starters
  <2> QED BY <2>1, RunsMove
<1>7. ASSUME NEW s \in Starters, SetOnComplete(s) \/ StarterNext(s)
      PROVE  RunsInv'
  <2>1. CASE Start(s)
    BY <2>1, RunsStart
  <2>2. CASE Consume(s)
    BY <2>2, RunsConsume
  <2>3. CASE ~Start(s) /\ ~Consume(s)
    <3>1. PICK q : /\ starter' = [starter EXCEPT ![s] = q] /\ q # "consume"
                   /\ UNCHANGED <<target, run, listener>>
      BY <1>7, <2>3
         DEF SetOnComplete, StarterNext, ReadPending, ReadDesired,
             StartRejected, Goto, Home, Starters
    <3> QED BY <3>1, RunsMove
  <2> QED BY <2>1, <2>2, <2>3
<1>8. CASE UserStop
  <2>1. /\ listener' = Answered("done") /\ UNCHANGED startVars
        /\ \A g \in Runs : run'[g] = "none" <=> run[g] = "none"
    BY <1>8 DEF UserStop, StopRun, Cancelled
  <2>2. Started' = Started
    BY <2>1 DEF Started
  <2> QED BY <2>1, <2>2, AnsweredFrame, RunsFrame
<1>9. ASSUME NEW g \in Runs, ListenerNext(g) \/ ListenerTimeout(g)
      PROVE  RunsInv'
  <2>1. CASE WaitForCancel(g) \/ ListenerTimeout(g)
    <3>1. UNCHANGED <<run, startVars>> /\ listener[g] # "none"
      BY <2>1 DEF WaitForCancel, ListenerTimeout
    <3>2. ASSUME NEW h \in Runs, listener[h] = "none"
          PROVE  listener'[h] = "none"
      <4>1. h # g
        BY <3>1, <3>2
      <4>2. CASE WaitForCancel(g)
        <5>1. listener'[h] = Answered("done")[h]
          BY <4>1, <4>2 DEF WaitForCancel, Superseded, Answered
        <5> QED BY <3>2, <5>1, AnsweredFrame
      <4>3. CASE ListenerTimeout(g)
        BY <3>2, <4>1, <4>3 DEF ListenerTimeout, IosTypeOK, ListenerTypes
      <4> QED BY <2>1, <4>2, <4>3
    <3> QED BY <3>1, <3>2, RunsFrame DEF Started
  <2>2. CASE CancelListener(g)
    <3>1. UNCHANGED <<run, startVars>> /\ listener[g] # "none"
      BY <2>2 DEF CancelListener
    <3>2. ASSUME NEW h \in Runs, listener[h] = "none"
          PROVE  listener'[h] = "none"
      <4>1. h # g
        BY <3>1, <3>2
      <4>2. listener'[h] = Answered("done")[h]
        BY <2>2, <4>1 DEF CancelListener, Answered
      <4> QED BY <3>2, <4>2, AnsweredFrame
    <3> QED BY <3>1, <3>2, RunsFrame DEF Started
  <2>3. CASE ListenerExpired(g) \/ ListenerTimedOut(g)
    <3>1. /\ UNCHANGED startVars /\ listener[g] # "none"
          /\ listener' = [listener EXCEPT ![g] = "done"]
          /\ \A h \in Runs : run'[h] = "none" <=> run[h] = "none"
      BY <2>3 DEF ListenerExpired, ListenerTimedOut, StopRun, Cancelled
    <3>2. Started' = Started
      BY <3>1 DEF Started
    <3>3. \A h \in Runs : listener[h] = "none" => listener'[h] = "none"
      BY <3>1 DEF IosTypeOK, ListenerTypes
    <3> QED BY <3>1, <3>2, <3>3, RunsFrame
  <2> QED BY <1>9, <2>1, <2>2, <2>3 DEF ListenerNext
<1>10. ASSUME NEW g \in Runs, InitFails(g) \/ RunReturns(g) \/ RunNext(g)
       PROVE  RunsInv'
  <2>1. PICK q : /\ run[g] # "none" /\ q # "none"
                 /\ run' = [run EXCEPT ![g] = q]
    BY <1>10 DEF InitFails, RunReturns, RunNext, ClearDesired, CompleteBgTask,
                 ClearSlot, RunStep
  <2>2. Started' = Started
    BY <2>1 DEF Started, IosTypeOK, RunTypes
  <2>3. \A h \in Runs : listener[h] = "none" => listener'[h] = "none"
    BY <1>10, AnsweredFrame
       DEF InitFails, RunReturns, RunNext, ClearDesired, CompleteBgTask, ClearSlot
  <2>4. UNCHANGED startVars
    BY <1>10 DEF InitFails, RunReturns, RunNext, ClearDesired, CompleteBgTask,
                 ClearSlot
  <2> QED BY <2>2, <2>3, <2>4, RunsFrame
<1>11. CASE UNCHANGED vars
  BY <1>11, RunsFrame DEF vars, Started
<1> QED BY <1>1, <1>2, <1>3, <1>4, <1>5, <1>6, <1>7, <1>8, <1>9, <1>10, <1>11
        DEF Next

LEMMA Bounds ==
    ASSUME OsTypes
    PROVE  /\ load.boots \in Nat /\ load.tasks \in Nat /\ load.tasks <= MaxTasks
           /\ Len(tasks) \in Nat /\ 0 \in 0 .. Len(tasks)
           /\ \A ok \in load.outcomes : ok \subseteq Kinds
<1>1. load \in [starters : SUBSET Starters, tasks : 0 .. MaxTasks,
               runs : 0 .. MaxRuns, boots : Nat,
               outcomes : SUBSET SUBSET Kinds]
  BY IosAssumption DEF IosAssumption, OsTypes
<1>2. load.tasks \in 0 .. MaxTasks /\ MaxTasks \in Nat
  BY <1>1, IosAssumption DEF IosAssumption
<1>3. Len(tasks) \in Nat
  BY DEF OsTypes
<1> QED BY <1>1, <1>2, <1>3

(* A submission is of known requests.                                      *)
LEMMA Submissions ==
    ASSUME ScheduleTypes, load \in Loads, NEW ok \in load.outcomes,
           ScheduleNext(ok) \/ UNCHANGED scheduleVars,
           UNCHANGED intentVars
    PROVE  ScheduleTypes'
<1>1. ok \subseteq Kinds
  BY IosAssumption DEF IosAssumption
<1> QED BY <1>1 DEF ScheduleTypes, ScheduleNext, scheduleVars, intentVars

(* The steps by what they schedule.                                        *)
LEMMA ScheduleTyped == ASSUME IosTypeOK, [Next]_vars PROVE ScheduleTypes'
<1> USE DEF osVars, taskVars, scheduleVars, intentVars, managerVars, startVars
<1>1. load \in Loads /\ ScheduleTypes
  BY DEF IosTypeOK, OsTypes
<1>2. CASE Expire \/ SafetyTimer
  <2>1. PICK ok \in load.outcomes : Expired(ok) /\ UNCHANGED intentVars
    BY <1>2 DEF Expire, SafetyTimer
  <2> QED BY <1>1, <2>1, Submissions DEF Expired, FinishRun
<1>3. CASE EnterBackground \/ EnterForeground
  <2>1. UNCHANGED intentVars
    BY <1>3 DEF EnterBackground, EnterForeground
  <2>2. CASE UNCHANGED scheduleVars
    BY <1>1, <2>1, <2>2 DEF ScheduleTypes
  <2>3. CASE \E ok \in load.outcomes : ScheduleNext(ok)
    BY <1>1, <2>1, <2>3, Submissions
  <2> QED BY <1>3, <2>2, <2>3 DEF EnterBackground, EnterForeground
<1>4. CASE Enable \/ Disable \/ UserStop
  <2>1. CASE Enable
    <3>1. PICK ok \in load.outcomes : ScheduleNext(ok)
      BY <2>1 DEF Enable
    <3>2. ok \subseteq Kinds
      BY <1>1, IosAssumption DEF IosAssumption
    <3> QED BY <1>1, <2>1, <3>1, <3>2 DEF Enable, ScheduleNext, ScheduleTypes
  <2>2. CASE Disable \/ UserStop
    BY <1>1, <2>2 DEF Disable, UserStop, CancelRequests, ScheduleTypes
  <2> QED BY <1>4, <2>1, <2>2
<1>5. ASSUME NEW s \in Starters, Start(s) PROVE ScheduleTypes'
  <2>1. PICK ok \in load.outcomes : ScheduleNext(ok)
    BY <1>5 DEF Start
  <2>2. ok \subseteq Kinds
    BY <1>1, IosAssumption DEF IosAssumption
  <2> QED BY <1>1, <1>5, <2>1, <2>2 DEF Start, ScheduleNext, ScheduleTypes
<1>6. ASSUME NEW g \in Runs, ListenerTimedOut(g) PROVE ScheduleTypes'
  <2>1. CASE slot # 0 /\ desired
    BY <1>1, <1>6, <2>1, Submissions DEF ListenerTimedOut
  <2>2. CASE ~(slot # 0 /\ desired)
    BY <1>1, <1>6, <2>2 DEF ListenerTimedOut, ScheduleTypes
  <2> QED BY <2>1, <2>2
<1>7. ASSUME NEW g \in Runs, CompleteBgTask(g) PROVE ScheduleTypes'
  <2>1. CASE callback[g]
    <3>1. PICK ok \in load.outcomes : FinishRun(ok)
      BY <1>7, <2>1 DEF CompleteBgTask
    <3> QED BY <1>1, <1>7, <3>1, Submissions DEF CompleteBgTask, FinishRun
  <2>2. CASE ~callback[g]
    BY <1>1, <1>7, <2>2 DEF CompleteBgTask, ScheduleTypes
  <2> QED BY <2>1, <2>2
<1>8. ASSUME NEW g \in Runs, ClearDesired(g) PROVE ScheduleTypes'
  BY <1>1, <1>8 DEF ClearDesired, CancelRequests, ScheduleTypes
<1>9. CASE Die
  <2>1. open # 0 => tasks[open] \in Kinds
    BY DEF IosTypeOK, OsTypes, TaskTypes
  <2> QED BY <1>1, <1>9, <2>1 DEF Die, ScheduleTypes
<1>10. ASSUME NEW k \in Kinds, Deliver(k) PROVE ScheduleTypes'
  BY <1>1, <1>10 DEF Deliver, ScheduleTypes
<1>11. CASE UNCHANGED <<scheduleVars, intentVars>>
  BY <1>1, <1>11 DEF ScheduleTypes
<1> QED
  BY <1>2, <1>3, <1>4, <1>5, <1>6, <1>7, <1>8, <1>9, <1>10, <1>11
     DEF Next, Boot, WarmBlock, ColdClear, WarmQuery, SetOnComplete,
         StarterNext, ReadPending, ReadDesired, StartRejected, Consume,
         ListenerNext, WaitForCancel, CancelListener, ListenerExpired,
         ListenerTimeout, InitFails, RunReturns, RunNext, ClearSlot, vars

LEMMA OsTyped == ASSUME IosTypeOK, [Next]_vars PROVE OsTypes'
<1> USE DEF osVars, taskVars, scheduleVars, intentVars, managerVars, startVars
<1>1. OsTypes
  BY DEF IosTypeOK
<1>2. CASE Boot \/ Die
  <2>1. UNCHANGED <<load, tasks, pending>> /\ alive' \in BOOLEAN
    BY <1>2 DEF Boot, Die
  <2>2. boots' = boots \/ (boots < load.boots /\ boots' = boots + 1)
    BY <1>2 DEF Boot, Die
  <2>3. boots' \in 0 .. load.boots
    BY <1>1, <2>2, Bounds DEF OsTypes
  <2> QED BY <1>1, <2>1, <2>3 DEF OsTypes
<1>3. ASSUME NEW k \in Kinds, Deliver(k) PROVE OsTypes'
  <2>1. /\ tasks' = Append(tasks, k) /\ Len(tasks) < load.tasks
        /\ pending' = Len(tasks') /\ UNCHANGED <<load, alive, boots>>
    BY <1>3 DEF Deliver
  <2>2. tasks' \in Seq(Kinds) /\ Len(tasks') = Len(tasks) + 1
    BY <1>1, <2>1 DEF OsTypes
  <2> QED BY <1>1, <2>1, <2>2, Bounds DEF OsTypes
<1>4. CASE ColdClear \/ \E s \in Starters : Consume(s)
  BY <1>1, <1>4 DEF ColdClear, Consume, OsTypes
<1>5. CASE UNCHANGED <<osVars, pending>>
  BY <1>1, <1>5 DEF OsTypes
<1> QED
  BY <1>2, <1>3, <1>4, <1>5
     DEF Next, Expire, SafetyTimer, EnterBackground, EnterForeground, UserStop,
         Enable, Disable, WarmBlock, WarmQuery, SetOnComplete, StarterNext,
         ReadPending, ReadDesired, StartRejected, Start, ListenerNext,
         WaitForCancel, CancelListener, ListenerExpired, ListenerTimedOut,
         ListenerTimeout, InitFails, RunReturns, RunNext, ClearDesired,
         CompleteBgTask, ClearSlot, vars

(* Completing a task leaves the references and the count well typed.       *)
LEMMA CompletionTyped ==
    ASSUME IosTypeOK, CompleteActiveTask, Cleanup, UNCHANGED tasks
    PROVE  TaskTypes'
<1>1. ActiveTask \in 0 .. Len(tasks)
  BY DEF IosTypeOK, TaskTypes, ActiveTask, Kinds
<1>2. /\ open' \in 0 .. Len(tasks) /\ completions' \in [1 .. MaxTasks -> Nat]
      /\ taskCompleted' \in BOOLEAN
  <2>1. CASE Completable /\ ~taskCompleted
    BY <1>1, <2>1 DEF CompleteActiveTask, IosTypeOK, OsTypes, TaskTypes
  <2>2. CASE ~(Completable /\ ~taskCompleted)
    BY <2>2 DEF CompleteActiveTask, IosTypeOK, TaskTypes
  <2> QED BY <2>1, <2>2
<1>3. current' \in [Kinds -> 0 .. Len(tasks)] /\ timer' \in BOOLEAN
  BY Bounds DEF Cleanup, NoTask, IosTypeOK
<1> QED BY <1>2, <1>3 DEF TaskTypes

LEMMA TaskTyped == ASSUME IosTypeOK, [Next]_vars PROVE TaskTypes'
<1> USE DEF osVars, taskVars, scheduleVars, intentVars, managerVars, startVars
<1>1. TaskTypes /\ OsTypes
  BY DEF IosTypeOK
<1>2. CASE Expire \/ SafetyTimer \/ UserStop
  BY <1>2, CompletionTyped DEF Expire, SafetyTimer, Expired, FinishRun, UserStop
<1>3. ASSUME NEW g \in Runs, CompleteBgTask(g) PROVE TaskTypes'
  <2>1. CASE callback[g]
    BY <1>3, <2>1, CompletionTyped DEF CompleteBgTask, FinishRun
  <2>2. CASE ~callback[g]
    BY <1>1, <1>3, <2>2 DEF CompleteBgTask, TaskTypes
  <2> QED BY <2>1, <2>2
<1>4. CASE Die
  BY <1>1, <1>4, Bounds DEF Die, NoTask, TaskTypes
<1>5. ASSUME NEW k \in Kinds, Deliver(k) PROVE TaskTypes'
  <2>1. Len(tasks') = Len(tasks) + 1 /\ Len(tasks) \in Nat
    BY <1>1, <1>5 DEF Deliver, OsTypes
  <2>2. current' \in [Kinds -> 0 .. Len(tasks')]
    BY <1>1, <1>5, <2>1 DEF Deliver, TaskTypes
  <2> QED BY <1>1, <1>5, <2>1, <2>2, IosAssumption
          DEF Deliver, FlagOnDelivery, TaskTypes, IosAssumption
<1>6. CASE EnterForeground
  BY <1>1, <1>6 DEF EnterForeground, TaskTypes
<1>7. CASE UNCHANGED <<taskVars, tasks>>
  BY <1>1, <1>7 DEF TaskTypes
<1> QED
  BY <1>2, <1>3, <1>4, <1>5, <1>6, <1>7
     DEF Next, Boot, EnterBackground, Enable, Disable, WarmBlock, ColdClear,
         WarmQuery, SetOnComplete, StarterNext, ReadPending, ReadDesired,
         StartRejected, Start, Consume, ListenerNext, WaitForCancel,
         CancelListener, ListenerExpired, ListenerTimedOut, ListenerTimeout,
         InitFails, RunReturns, RunNext, ClearDesired, ClearSlot, vars

(* A stop takes the run out of the slot.                                   *)
LEMMA StopTyped ==
    ASSUME RunTypes, StopRun PROVE RunTypes'
<1>1. run' \in [Runs -> {"none", "running", "cancelled", "returned",
                        "completing", "clearing", "failing", "ended"}]
  BY DEF RunTypes, StopRun, Cancelled
<1> QED BY <1>1 DEF RunTypes, StopRun

(* A step of the task of one run that ends it only out of the slot.        *)
LEMMA RunMoveTyped ==
    ASSUME RunTypes, NEW g \in Runs, NEW q,
           run[g] # "none", q \in {"returned", "completing", "clearing", "ended"},
           slot = g => q # "ended",
           run' = [run EXCEPT ![g] = q], UNCHANGED managerVars
    PROVE  RunTypes'
<1>1. run' \in [Runs -> {"none", "running", "cancelled", "returned",
                        "completing", "clearing", "failing", "ended"}]
  BY DEF RunTypes
<1>2. slot # 0 => /\ slot \in Runs /\ run'[slot] # "none"
                  /\ run'[slot] \notin {"cancelled", "failing", "ended"}
  BY DEF RunTypes, Started
<1> QED BY <1>1, <1>2 DEF RunTypes, Started, managerVars

LEMMA RunTyped == ASSUME IosTypeOK, RunsInv, [Next]_vars PROVE RunTypes'
<1> USE DEF osVars, taskVars, scheduleVars, intentVars, managerVars, startVars
<1>1. RunTypes
  BY DEF IosTypeOK
<1>2. ASSUME NEW s \in Starters, Start(s) PROVE RunTypes'
  <2> DEFINE g == Cardinality(Started) + 1
  <2>1. g \in Runs
    BY <1>2, NextRun DEF Start
  <2>2. /\ slot' = g /\ run' = [run EXCEPT ![g] = "running"]
        /\ callback' = [callback EXCEPT ![g] = armed] /\ armed' = FALSE
    BY <1>2 DEF Start
  <2> HIDE DEF g
  <2>3. callback' \in [Runs -> BOOLEAN]
    BY <1>1, <2>1, <2>2 DEF RunTypes
  <2> QED BY <1>1, <2>1, <2>2, <2>3 DEF RunTypes, Started
<1>3. CASE UserStop \/ \E g \in Runs : ListenerExpired(g) \/ ListenerTimedOut(g)
  BY <1>1, <1>3, StopTyped DEF UserStop, ListenerExpired, ListenerTimedOut
<1>4. ASSUME NEW g \in Runs,
             RunReturns(g) \/ ClearDesired(g) \/ CompleteBgTask(g)
      PROVE  RunTypes'
  <2>1. PICK q \in {"returned", "completing", "clearing", "ended"} :
           /\ run[g] # "none" /\ run' = [run EXCEPT ![g] = q]
           /\ q = "ended" => run[g] = "failing"
    BY <1>4 DEF RunReturns, ClearDesired, CompleteBgTask, RunStep
  <2>2. UNCHANGED managerVars
    BY <1>4 DEF RunReturns, ClearDesired, CompleteBgTask
  <2>3. slot = g => q # "ended"
    BY <1>1, <2>1, IosAssumption DEF RunTypes, Started, Runs, IosAssumption
  <2> QED BY <1>1, <2>1, <2>2, <2>3, RunMoveTyped
<1>5. ASSUME NEW g \in Runs, InitFails(g) \/ ClearSlot(g) PROVE RunTypes'
  BY <1>1, <1>5 DEF InitFails, ClearSlot, RunStep, Released, RunTypes, Started
<1>6. CASE Die
  BY <1>1, <1>6 DEF Die, RunTypes, Started
<1>7. ASSUME NEW s \in Starters, SetOnComplete(s) PROVE RunTypes'
  BY <1>1, <1>7 DEF SetOnComplete, RunTypes, Started
<1>8. CASE UNCHANGED <<managerVars, run>>
  BY <1>1, <1>8 DEF RunTypes, Started
<1> QED
  BY <1>2, <1>3, <1>4, <1>5, <1>6, <1>7, <1>8
     DEF Next, Boot, Deliver, Expire, SafetyTimer, EnterBackground,
         EnterForeground, Enable, Disable, WarmBlock, ColdClear, WarmQuery,
         StarterNext, ReadPending, ReadDesired, StartRejected, Consume,
         ListenerNext, WaitForCancel, CancelListener, ListenerTimeout,
         RunNext, vars

(* Runs stay started; their listeners move among the listener states.      *)
ListenerStates == {"none", "due", "blocked", "resolved", "timedout", "stopping",
                   "done"}

LEMMA StartedGrows ==
    ASSUME IosTypeOK, [Next]_vars PROVE Started \subseteq Started'
<1> SUFFICES ASSUME NEW g \in Runs, run[g] # "none" PROVE run'[g] # "none"
    BY DEF Started
<1> USE DEF osVars, taskVars, managerVars, startVars
<1>1. CASE \E s \in Starters : Start(s)
  BY <1>1 DEF Start, IosTypeOK, RunTypes
<1>2. CASE UserStop \/ \E h \in Runs : ListenerExpired(h) \/ ListenerTimedOut(h)
  BY <1>2 DEF UserStop, ListenerExpired, ListenerTimedOut, StopRun, Cancelled
<1>3. CASE \E h \in Runs : InitFails(h) \/ RunReturns(h) \/ RunNext(h)
  BY <1>3 DEF InitFails, RunReturns, RunNext, ClearDesired, CompleteBgTask,
              ClearSlot, RunStep, IosTypeOK, RunTypes
<1>4. CASE Die
  BY <1>4 DEF Die, Started
<1>5. CASE UNCHANGED run
  BY <1>5
<1> QED
  BY <1>1, <1>2, <1>3, <1>4, <1>5
     DEF Next, Boot, Deliver, Expire, SafetyTimer, EnterBackground,
         EnterForeground, Enable, Disable, WarmBlock, ColdClear, WarmQuery,
         SetOnComplete, StarterNext, ReadPending, ReadDesired, StartRejected,
         Consume, ListenerNext, WaitForCancel, CancelListener, ListenerTimeout,
         vars

LEMMA AnsweredTyped ==
    ASSUME ListenerTypes, NEW answer \in ListenerStates
    PROVE  Answered(answer) \in [Runs -> ListenerStates]
  BY DEF Answered, ListenerTypes, ListenerStates

LEMMA ListenerTyped ==
    ASSUME IosTypeOK, RunsInv, [Next]_vars PROVE ListenerTypes'
<1> USE DEF osVars, taskVars, managerVars, startVars
<1>1. ListenerTypes /\ Started \subseteq Started' /\ Started \subseteq Runs
  BY StartedGrows DEF IosTypeOK, Started
<1>2. CASE Expire \/ SafetyTimer \/ UserStop \/ \E g \in Runs : CompleteBgTask(g)
  <2>1. /\ listener' \in {listener, Answered("done"), Answered(ExpiryAnswer)}
        /\ pendingCancel' \in {0, pendingCancel}
        /\ pendingWarm' = pendingWarm /\ orphaned' \subseteq orphaned \cup Runs
    BY <1>1, <1>2
       DEF Expire, SafetyTimer, Expired, FinishRun, Cleanup, UserStop,
           CompleteBgTask, Orphans, IosTypeOK, RunTypes
  <2>2. listener' \in [Runs -> ListenerStates]
    BY <1>1, <2>1, AnsweredTyped
       DEF ExpiryAnswer, ListenerTypes, ListenerStates
  <2> QED BY <1>1, <2>1, <2>2 DEF ListenerTypes, ListenerStates
<1>3. ASSUME NEW g \in Runs, WaitForCancel(g) PROVE ListenerTypes'
  <2>1. g \in Started
    BY <1>3 DEF WaitForCancel, RunsInv, Started
  <2>2. listener' \in [Runs -> ListenerStates]
    BY <1>1, <1>3, AnsweredTyped
       DEF WaitForCancel, Superseded, ListenerStates
  <2> QED BY <1>1, <1>3, <2>1, <2>2
          DEF WaitForCancel, ListenerTypes, ListenerStates
<1>4. ASSUME NEW g \in Runs, CancelListener(g) PROVE ListenerTypes'
  <2>1. listener' \in [Runs -> ListenerStates]
    BY <1>1, <1>4, AnsweredTyped DEF CancelListener, ListenerStates
  <2>2. Orphans(g) \subseteq Runs
    BY <1>1 DEF Orphans, IosTypeOK, RunTypes
  <2> QED BY <1>1, <1>4, <2>1, <2>2
          DEF CancelListener, ListenerTypes, ListenerStates
<1>5. ASSUME NEW g \in Runs,
             ListenerExpired(g) \/ ListenerTimedOut(g) \/ ListenerTimeout(g)
      PROVE  ListenerTypes'
  BY <1>1, <1>5
     DEF ListenerExpired, ListenerTimedOut, ListenerTimeout, ListenerTypes
<1>6. ASSUME NEW s \in Starters, Start(s) \/ Consume(s) PROVE ListenerTypes'
  <2>1. /\ UNCHANGED <<pendingCancel, pendingWarm, orphaned>>
        /\ \/ listener' = listener
           \/ \E g \in Runs : listener' = [listener EXCEPT ![g] = "due"]
    BY <1>6, NextRun DEF Start, Consume, RunsInv, Started
  <2>2. listener' \in [Runs -> ListenerStates]
    BY <1>1, <2>1 DEF ListenerTypes, ListenerStates
  <2> QED BY <1>1, <2>1, <2>2 DEF ListenerTypes, ListenerStates
<1>7. CASE Die
  BY <1>1, <1>7 DEF Die, ListenerTypes
<1>8. CASE WarmBlock \/ \E k \in Kinds : Deliver(k)
  BY <1>1, <1>8 DEF WarmBlock, Deliver, ListenerTypes
<1>9. CASE UNCHANGED <<listener, pendingCancel, pendingWarm, orphaned>>
  BY <1>1, <1>9 DEF ListenerTypes
<1> QED
  BY <1>2, <1>3, <1>4, <1>5, <1>6, <1>7, <1>8, <1>9
     DEF Next, Boot, EnterBackground, EnterForeground, Enable, Disable,
         ColdClear, WarmQuery, SetOnComplete, StarterNext, ReadPending,
         ReadDesired, StartRejected, ListenerNext, InitFails, RunReturns,
         RunNext, ClearDesired, ClearSlot, vars

LEMMA StarterTyped ==
    ASSUME IosTypeOK, RunsInv, [Next]_vars PROVE StarterTypes'
<1> USE DEF osVars, taskVars, managerVars, StarterTypes
<1>1. StarterTypes /\ 0 \in 0 .. MaxRuns /\ Runs \subseteq 0 .. MaxRuns
  BY IosAssumption DEF IosTypeOK, Runs, IosAssumption
<1>2. CASE Boot \/ Die
  BY <1>1, <1>2 DEF Boot, Die, Away, Launched, Starters
<1>3. ASSUME NEW k \in Kinds, Deliver(k) PROVE StarterTypes'
  BY <1>1, <1>3 DEF Deliver
<1>4. CASE WarmBlock \/ ColdClear \/ WarmQuery
  BY <1>1, <1>4 DEF WarmBlock, ColdClear, WarmQuery, Goto, Home
<1>5. ASSUME NEW s \in Starters, SetOnComplete(s) \/ StarterNext(s)
      PROVE  StarterTypes'
  <2>1. Home(s) \in {"idle", "away", "due"}
    BY DEF Home, Starters
  <2>2. CASE Start(s)
    <3>1. Cardinality(Started) + 1 \in 0 .. MaxRuns
      BY <1>1, <2>2, NextRun DEF Start
    <3> QED BY <1>1, <2>2, <3>1 DEF Start, Goto
  <2>3. CASE Consume(s)
    BY <1>1, <2>1, <2>3 DEF Consume
  <2>4. CASE ~Start(s) /\ ~Consume(s)
    BY <1>1, <1>5, <2>1, <2>4
       DEF SetOnComplete, StarterNext, ReadPending, ReadDesired, StartRejected,
           Goto
  <2> QED BY <2>2, <2>3, <2>4
<1>6. CASE UNCHANGED startVars
  BY <1>1, <1>6 DEF startVars
<1> QED
  BY <1>2, <1>3, <1>4, <1>5, <1>6
     DEF Next, Expire, SafetyTimer, EnterBackground, EnterForeground, UserStop,
         Enable, Disable, ListenerNext, WaitForCancel, CancelListener,
         ListenerExpired, ListenerTimedOut, ListenerTimeout, InitFails, RunReturns,
         RunNext, ClearDesired, CompleteBgTask, ClearSlot, vars

LEMMA InitTyped == Init => IosTypeOK
<1> SUFFICES ASSUME Init PROVE IosTypeOK
    OBVIOUS
<1>1. OsTypes
  <2>1. load \in Loads /\ tasks = <<>> /\ boots = 0 /\ pending = 0
        /\ alive = FALSE
    BY DEF Init
  <2>2. tasks \in Seq(Kinds) /\ Len(tasks) = 0
    BY <2>1
  <2>3. load.boots \in Nat /\ load.tasks \in Nat
    BY <2>1, IosAssumption DEF IosAssumption
  <2>4. boots \in 0 .. load.boots /\ Len(tasks) <= load.tasks
    BY <2>1, <2>2, <2>3
  <2>5. pending \in 0 .. Len(tasks)
    BY <2>1, <2>2
  <2> QED BY <2>1, <2>2, <2>4, <2>5 DEF OsTypes
<1>2. TaskTypes
  BY <1>1, Bounds DEF Init, NoTask, TaskTypes
<1>3. ScheduleTypes /\ RunTypes /\ ListenerTypes
  BY DEF Init, ScheduleTypes, RunTypes, ListenerTypes
<1>4. StarterTypes
  BY IosAssumption DEF Init, Away, StarterTypes, IosAssumption
<1> QED BY <1>1, <1>2, <1>3, <1>4 DEF IosTypeOK

(* Every variable stays in its set of values, and the slot and the stored  *)
(* invoke go on naming runs that were started.                             *)
THEOREM IosTypeCorrect == Spec => [](IosTypeOK /\ RunsInv)
<1>1. Init => IosTypeOK /\ RunsInv
  BY InitTyped, InitRuns
<1>2. IosTypeOK /\ RunsInv /\ [Next]_vars => (IosTypeOK /\ RunsInv)'
  BY OsTyped, TaskTyped, ScheduleTyped, RunTyped, ListenerTyped, StarterTyped,
     RunsStep DEF IosTypeOK
<1> QED BY <1>1, <1>2, PTL DEF Spec

-----------------------------------------------------------------------------
(* Completion.  A task iOS waits for is the one a reference names, with    *)
(* the one-shot flag down and no completion yet; when it waits for none,   *)
(* no reference and no timer is left to complete it again.                 *)

TaskInv ==
    /\ open # 0 => /\ ~taskCompleted /\ completions[open] = 0
                   /\ current[tasks[open]] = open
                   /\ \A k \in Kinds : k # tasks[open] => current[k] = 0
    /\ open = 0 => current = NoTask
    /\ timer => HasTask
    /\ \A t \in 1 .. MaxTasks :
          /\ completions[t] <= 1
          /\ t > Len(tasks) => completions[t] = 0

LEMMA OpenTask ==
    ASSUME OsTypes, TaskTypes, TaskInv
    PROVE  /\ HasTask <=> open # 0
           /\ open # 0 => /\ ActiveTask = open /\ open \in 1 .. MaxTasks
                          /\ tasks[open] \in Kinds
<1>1. ASSUME open # 0 PROVE /\ tasks[open] \in Kinds /\ open \in 1 .. MaxTasks
                           /\ current[tasks[open]] # 0
  BY <1>1, Bounds, IosAssumption DEF OsTypes, TaskTypes, TaskInv, IosAssumption
<1>2. HasTask <=> open # 0
  BY <1>1 DEF HasTask, NoTask, TaskInv
<1>3. open # 0 => ActiveTask = open
  BY <1>1 DEF ActiveTask, TaskInv, Kinds
<1> QED BY <1>1, <1>2, <1>3

LEMMA TaskFinished ==
    ASSUME OsTypes, TaskTypes, TaskInv, CompleteActiveTask, Cleanup,
           UNCHANGED tasks
    PROVE  TaskInv'
<1>1. CASE open = 0
  <2>1. UNCHANGED <<completions, open>>
    BY <1>1, OpenTask DEF CompleteActiveTask, Completable
  <2> QED BY <1>1, <2>1 DEF Cleanup, TaskInv
<1>2. CASE open # 0
  <2>1. /\ ActiveTask = open /\ open \in 1 .. MaxTasks /\ HasTask
        /\ completions[open] = 0 /\ ~taskCompleted /\ open <= Len(tasks)
    BY <1>2, OpenTask DEF TaskInv, TaskTypes
  <2>2. open' = 0 /\ completions' = [completions EXCEPT ![open] = @ + 1]
    BY <2>1 DEF CompleteActiveTask, Completable
  <2>3. \A t \in 1 .. MaxTasks : /\ completions'[t] <= 1
                                /\ t > Len(tasks) => completions'[t] = 0
    BY <2>1, <2>2 DEF TaskInv, TaskTypes, OsTypes
  <2>4. current' = NoTask /\ timer' = FALSE /\ Len(tasks') = Len(tasks)
    BY DEF Cleanup
  <2> QED BY <2>2, <2>3, <2>4 DEF TaskInv, NoTask, HasTask
<1> QED BY <1>1, <1>2

LEMMA TaskStep == ASSUME IosTypeOK, TaskInv, [Next]_vars PROVE TaskInv'
<1> USE DEF osVars, taskVars, scheduleVars, intentVars, managerVars, startVars
<1>1. OsTypes /\ TaskTypes
  BY DEF IosTypeOK
<1>2. CASE Expire \/ SafetyTimer \/ UserStop
  BY <1>1, <1>2, TaskFinished
     DEF Expire, SafetyTimer, Expired, FinishRun, UserStop
<1>3. ASSUME NEW g \in Runs, CompleteBgTask(g) PROVE TaskInv'
  <2>1. CASE callback[g]
    BY <1>1, <1>3, <2>1, TaskFinished DEF CompleteBgTask, FinishRun
  <2>2. CASE ~callback[g]
    BY <1>3, <2>2 DEF CompleteBgTask, TaskInv, HasTask
  <2> QED BY <2>1, <2>2
<1>4. CASE Die
  BY <1>4 DEF Die, TaskInv
<1>5. ASSUME NEW k \in Kinds, Deliver(k) PROVE TaskInv'
  <2> DEFINE n == Len(tasks) + 1
  <2>1. /\ open = 0 /\ tasks' = Append(tasks, k) /\ open' = Len(tasks')
        /\ current' = [current EXCEPT ![k] = Len(tasks')]
        /\ taskCompleted' = FALSE /\ completions' = completions
        /\ Len(tasks) < load.tasks
    BY <1>5 DEF Deliver, FlagOnDelivery
  <2>2. Len(tasks') = n /\ tasks'[n] = k /\ n # 0 /\ n \in 1 .. MaxTasks
    BY <1>1, <2>1, Bounds, IosAssumption DEF OsTypes, IosAssumption
  <2>3. \A j \in Kinds : current'[j] = IF j = k THEN n ELSE 0
    BY <1>1, <2>1, <2>2 DEF TaskInv, NoTask, TaskTypes
  <2>4. completions[n] = 0
    BY <1>1, <2>2, Bounds DEF TaskInv
  <2>5. current' # NoTask
    BY <2>2, <2>3 DEF NoTask
  <2>6. \A t \in 1 .. MaxTasks : t > n => completions[t] = 0
    BY <1>1, <2>2, Bounds DEF TaskInv
  <2> QED BY <2>1, <2>2, <2>3, <2>4, <2>5, <2>6 DEF TaskInv, HasTask
<1>6. CASE EnterForeground
  BY <1>6 DEF EnterForeground, TaskInv, HasTask
<1>7. CASE UNCHANGED <<taskVars, tasks>>
  BY <1>7 DEF TaskInv, HasTask
<1> QED
  BY <1>2, <1>3, <1>4, <1>5, <1>6, <1>7
     DEF Next, Boot, EnterBackground, Enable, Disable, WarmBlock, ColdClear,
         WarmQuery, SetOnComplete, StarterNext, ReadPending, ReadDesired,
         StartRejected, Start, Consume, ListenerNext, WaitForCancel,
         CancelListener, ListenerExpired, ListenerTimedOut, ListenerTimeout,
         InitFails, RunReturns, RunNext, ClearDesired, ClearSlot, vars

LEMMA TaskAlways == Spec => [](IosTypeOK /\ TaskInv)
<1>1. Init => TaskInv
  BY DEF Init, TaskInv, HasTask
<1> QED BY <1>1, TaskStep, IosTypeCorrect, PTL DEF Spec

(* Expiration, safety timer, stop and completion may race as they like:    *)
(* a task is completed at most once, and as long as iOS waits for it, the  *)
(* plugin can still complete that very task.                               *)
THEOREM TasksCompletedOnce == Spec => []CompletedOnce
<1>1. IosTypeOK /\ TaskInv => CompletedOnce
  <2> SUFFICES ASSUME OsTypes, TaskTypes, TaskInv PROVE CompletedOnce
      BY DEF IosTypeOK
  <2>1. \A k \in Kinds : current[k] \in {0, open}
    BY OpenTask DEF TaskInv, NoTask
  <2> QED BY <2>1, OpenTask DEF TaskInv, CompletedOnce
<1> QED BY <1>1, TaskAlways, PTL

-----------------------------------------------------------------------------
(* Scheduling.  What is missing in the scheduler of a wanted service is    *)
(* the request of the task iOS is waiting for, or of one that died.        *)

OpenKinds == IF open = 0 THEN {} ELSE {tasks[open]}

WantedInv ==
    desired /\ ~unscheduled => submitted \union lost \union OpenKinds = Kinds

(* After scheduleNext nothing is missing, or the refusal is on record.     *)
LEMMA WantedScheduled ==
    ASSUME OsTypes', TaskTypes', NEW ok, ScheduleNext(ok) PROVE WantedInv'
<1>1. OpenKinds' \subseteq Kinds
  BY IosAssumption DEF OsTypes, TaskTypes, OpenKinds, IosAssumption
<1> QED BY <1>1 DEF ScheduleNext, WantedInv

LEMMA WantedStep ==
    ASSUME IosTypeOK, TaskInv, WantedInv, [Next]_vars, OsTypes', TaskTypes'
    PROVE  WantedInv'
<1> USE DEF osVars, taskVars, scheduleVars, intentVars, managerVars, startVars
<1>1. OsTypes /\ TaskTypes
  BY DEF IosTypeOK
<1>2. ASSUME NEW ok, ScheduleNext(ok) PROVE WantedInv'
  BY <1>2, WantedScheduled
<1>3. CASE ~desired'
  BY <1>3 DEF WantedInv
<1>4. CASE UNCHANGED <<desired, unscheduled, submitted, lost, open, tasks>>
  BY <1>4 DEF WantedInv, OpenKinds
<1>5. ASSUME NEW k \in Kinds, Deliver(k) PROVE WantedInv'
  <2>1. /\ open = 0 /\ submitted' = submitted \ {k}
        /\ tasks' = Append(tasks, k) /\ open' = Len(tasks')
        /\ UNCHANGED <<desired, unscheduled, lost>>
    BY <1>5 DEF Deliver
  <2>2. open' # 0 /\ tasks'[open'] = k
    BY <1>1, <2>1 DEF OsTypes
  <2>3. OpenKinds = {} /\ OpenKinds' = {k}
    BY <2>1, <2>2 DEF OpenKinds
  <2> QED BY <2>1, <2>3 DEF WantedInv
<1>6. CASE Die
  <2>1. OpenKinds' = {} /\ lost' = lost \union OpenKinds
    BY <1>6 DEF Die, OpenKinds
  <2> QED BY <1>6, <2>1 DEF Die, WantedInv
<1>7. ASSUME NEW g \in Runs, CompleteBgTask(g) PROVE WantedInv'
  <2>1. CASE callback[g] /\ ~HasTask
    BY <1>4, <1>7, <2>1
       DEF CompleteBgTask, FinishRun, CompleteActiveTask, Completable,
           Reschedules
  <2>2. CASE callback[g] /\ HasTask
    BY <1>2, <1>7, <2>2 DEF CompleteBgTask, FinishRun, Reschedules
  <2>3. CASE ~callback[g]
    BY <1>4, <1>7, <2>3 DEF CompleteBgTask
  <2> QED BY <2>1, <2>2, <2>3
<1>8. CASE Expire \/ SafetyTimer
  BY <1>2, <1>8 DEF Expire, SafetyTimer, Expired, FinishRun, Reschedules
<1>9. CASE UserStop \/ Disable \/ \E g \in Runs : ClearDesired(g)
  BY <1>3, <1>9 DEF UserStop, Disable, ClearDesired
<1>10. CASE EnterBackground \/ EnterForeground \/ Enable
  BY <1>2, <1>4, <1>10 DEF EnterBackground, EnterForeground, Enable
<1>11. ASSUME NEW s \in Starters, Start(s) PROVE WantedInv'
  BY <1>2, <1>11 DEF Start
<1>12. ASSUME NEW g \in Runs, ListenerTimedOut(g) PROVE WantedInv'
  BY <1>2, <1>4, <1>12 DEF ListenerTimedOut
<1> QED
  BY <1>4, <1>5, <1>6, <1>7, <1>8, <1>9, <1>10, <1>11, <1>12
     DEF Next, Boot, WarmBlock, ColdClear, WarmQuery, SetOnComplete,
         StarterNext, ReadPending, ReadDesired, StartRejected, Consume,
         ListenerNext, WaitForCancel, CancelListener, ListenerExpired,
         ListenerTimeout, InitFails, RunReturns, RunNext, ClearSlot, vars

(* A wanted service without a task keeps both requests in the scheduler,   *)
(* but for what a refusal has put on record or a crash has taken away.     *)
THEOREM WantedStaysScheduled == Spec => []WantedIsScheduled
<1>1. Init => WantedInv
  BY DEF Init, WantedInv
<1>2. IosTypeOK /\ TaskInv /\ WantedInv => WantedIsScheduled
  BY OpenTask DEF IosTypeOK, WantedInv, OpenKinds, WantedIsScheduled
<1>3. IosTypeOK /\ TaskInv /\ WantedInv /\ [Next]_vars /\ IosTypeOK'
          => WantedInv'
  BY WantedStep DEF IosTypeOK
<1> QED BY <1>1, <1>2, <1>3, TaskAlways, PTL DEF Spec

LEMMA SubmissionStep ==
    ASSUME IosTypeOK, [Next]_vars
    PROVE  submitted' \subseteq submitted \/ desired' \/ HasTask
<1> USE DEF osVars, taskVars, scheduleVars, intentVars, managerVars, startVars
<1> DEFINE Due == submitted' \subseteq submitted \/ desired' \/ HasTask
<1>0. desired \in BOOLEAN
  BY DEF IosTypeOK, ScheduleTypes
<1>1. ASSUME NEW g \in Runs, CompleteBgTask(g) PROVE Due
  BY <1>1 DEF CompleteBgTask, FinishRun, Reschedules
<1>2. ASSUME NEW g \in Runs, ListenerTimedOut(g) PROVE Due
  BY <1>0, <1>2 DEF ListenerTimedOut
<1>3. CASE Expire \/ SafetyTimer
  BY <1>3 DEF Expire, SafetyTimer, Expired
<1>4. CASE EnterBackground \/ EnterForeground \/ Enable
  <2>1. CASE EnterBackground \/ Enable
    BY <1>0, <2>1 DEF EnterBackground, Enable
  <2>2. CASE EnterForeground
    BY <1>0, <2>2 DEF EnterForeground
  <2> QED BY <1>4, <2>1, <2>2
<1>5. CASE UserStop \/ Disable \/ \E g \in Runs : ClearDesired(g)
  BY <1>5 DEF UserStop, Disable, ClearDesired, CancelRequests
<1>6. ASSUME NEW s \in Starters, Start(s) PROVE Due
  BY <1>6 DEF Start
<1>7. CASE \E k \in Kinds : Deliver(k)
  BY <1>7 DEF Deliver
<1>8. CASE UNCHANGED submitted
  BY <1>8
<1>9. ASSUME NEW s \in Starters, SetOnComplete(s) \/ StarterNext(s) PROVE Due
  BY <1>6, <1>8, <1>9
     DEF SetOnComplete, StarterNext, ReadPending, ReadDesired, StartRejected,
         Consume
<1>10. ASSUME NEW g \in Runs,
              \/ ListenerNext(g) \/ ListenerTimeout(g)
              \/ InitFails(g) \/ RunReturns(g) \/ RunNext(g)
       PROVE  Due
  BY <1>1, <1>2, <1>5, <1>8, <1>10
     DEF ListenerNext, WaitForCancel, CancelListener, ListenerExpired,
         ListenerTimeout, InitFails, RunReturns, RunNext, ClearSlot
<1>11. CASE Boot \/ Die \/ WarmBlock \/ ColdClear \/ WarmQuery \/ UNCHANGED vars
  BY <1>8, <1>11 DEF Boot, Die, WarmBlock, ColdClear, WarmQuery, vars
<1> QED
  BY <1>3, <1>4, <1>5, <1>7, <1>9, <1>10, <1>11 DEF Next, Due

(* A late completion, expiration or timeout submits nothing for a service  *)
(* that is not wanted, unless it ends a task.                              *)
THEOREM SubmissionsAreDue == Spec => NoSpuriousSubmission
<1>1. IosTypeOK /\ [Next]_vars => [~(submitted' \subseteq submitted) => desired' \/ HasTask]_vars
  BY SubmissionStep
<1> QED BY <1>1, IosTypeCorrect, PTL DEF Spec, NoSpuriousSubmission

-----------------------------------------------------------------------------
(* Listeners.                                                              *)

(* Whoever empties the store has answered the invoke in it.                *)
LEMMA LeakAnswered ==
    ASSUME NoListenerLeaked, NEW answer, answer # "blocked",
           listener' = Answered(answer), pendingCancel' = 0
    PROVE  NoListenerLeaked'
<1>1. 0 \notin Runs
  BY IosAssumption DEF Runs, IosAssumption
<1> QED BY <1>1 DEF NoListenerLeaked, Answered

LEMMA LeakStep ==
    ASSUME IosTypeOK, RunsInv, NoListenerLeaked, [Next]_vars
    PROVE  NoListenerLeaked'
<1> USE DEF osVars, taskVars, scheduleVars, intentVars, managerVars, startVars
<1>1. ListenerTypes /\ 0 \notin Runs
  BY IosAssumption DEF IosTypeOK, Runs, IosAssumption
<1>2. CASE Expire \/ SafetyTimer \/ UserStop
  BY <1>2, LeakAnswered
     DEF Expire, SafetyTimer, Expired, FinishRun, UserStop, Cleanup,
         ExpiryAnswer
<1>3. ASSUME NEW g \in Runs, CompleteBgTask(g) PROVE NoListenerLeaked'
  BY <1>3, LeakAnswered
     DEF CompleteBgTask, FinishRun, Cleanup, NoListenerLeaked
<1>4. CASE Die
  BY <1>1, <1>4 DEF Die, NoListenerLeaked
<1>5. ASSUME NEW g \in Runs,
             WaitForCancel(g) \/ ListenerTimeout(g) \/ CancelListener(g)
      PROVE  NoListenerLeaked'
  BY <1>1, <1>5
     DEF WaitForCancel, ListenerTimeout, CancelListener, Superseded, Answered,
         ListenerTypes, NoListenerLeaked
<1>6. ASSUME NEW g \in Runs, ListenerExpired(g) \/ ListenerTimedOut(g)
      PROVE  NoListenerLeaked'
  BY <1>1, <1>6
     DEF ListenerExpired, ListenerTimedOut, ListenerTypes, NoListenerLeaked
<1>7. ASSUME NEW s \in Starters, Start(s) \/ Consume(s)
      PROVE  NoListenerLeaked'
  <2>1. /\ pendingCancel' = pendingCancel
        /\ \/ listener' = listener
           \/ \E g \in Runs : /\ listener[g] = "none"
                              /\ listener' = [listener EXCEPT ![g] = "due"]
    BY <1>7, NextRun DEF Start, Consume, RunsInv, Started
  <2> QED BY <1>1, <2>1 DEF ListenerTypes, NoListenerLeaked
<1>8. CASE UNCHANGED <<listener, pendingCancel>>
  BY <1>8 DEF NoListenerLeaked
<1> QED
  BY <1>2, <1>3, <1>4, <1>5, <1>6, <1>7, <1>8
     DEF Next, Boot, Deliver, EnterBackground, EnterForeground, Enable,
         Disable, WarmBlock, ColdClear, WarmQuery, SetOnComplete, StarterNext,
         ReadPending, ReadDesired, StartRejected, ListenerNext, InitFails, RunReturns,
         RunNext, ClearDesired, ClearSlot, vars

(* No thread is left behind on an invoke the plugin has forgotten.         *)
THEOREM ListenersAnswered == Spec => []NoListenerLeaked
<1>1. Init => NoListenerLeaked
  BY IosAssumption DEF Init, NoListenerLeaked, Runs, IosAssumption
<1> QED BY <1>1, LeakStep, IosTypeCorrect, PTL DEF Spec

-----------------------------------------------------------------------------
(* Expirations.  Some listener keeps the way to the manager open for the   *)
(* run in the slot.  Which one may change: an older listener's timeout     *)
(* stops the run as well as its own.                                       *)

Reaching == {"blocked", "resolved", "timedout", "stopping"}

(* A step that leaves the slot to the run that had it, its listener where  *)
(* it was or on the way, and every listener that reached the manager on    *)
(* the way to it.                                                          *)
LEMMA ReachFrame ==
    ASSUME ExpirationReaches, orphaned \subseteq orphaned',
           \A g \in Runs :
              slot' = g /\ run'[g] = "running" => slot = g /\ run[g] = "running",
           \A g \in Runs :
              /\ listener[g] \in {"none", "due"} => listener'[g] \in {"none", "due"}
              /\ listener[g] \in Reaching => listener'[g] \in Reaching
    PROVE  ExpirationReaches'
  BY DEF ExpirationReaches, Reaching

(* A step after which some listener reaches the manager for certain.       *)
LEMMA ReachWitness ==
    ASSUME NEW h \in Runs, listener'[h] \in Reaching
    PROVE  ExpirationReaches'
  BY DEF ExpirationReaches, Reaching

LEMMA ReachCompletion ==
    ASSUME IosTypeOK, RunsInv, ExpirationReaches, NEW h \in Runs, CompleteBgTask(h)
    PROVE  ExpirationReaches'
<1>1. /\ slot' = slot /\ run[h] \in {"completing", "failing"}
      /\ \E to \in {"clearing", "ended"} : run' = [run EXCEPT ![h] = to]
  BY DEF CompleteBgTask, RunStep, managerVars
<1>2. \A g \in Runs : run'[g] = "running" => run[g] = "running" /\ g # h
  BY <1>1 DEF IosTypeOK, RunTypes
<1>3. CASE ~callback[h] \/ pendingCancel = 0
  <2>1. 0 \notin Runs
    BY IosAssumption DEF Runs, IosAssumption
  <2>2. listener' = listener /\ orphaned \subseteq orphaned'
    BY <1>3, <2>1 DEF CompleteBgTask, Answered, IosTypeOK, ListenerTypes
  <2> QED BY <1>1, <1>2, <2>2, ReachFrame
<1>4. CASE callback[h] /\ pendingCancel # 0
  <2>1. orphaned' = orphaned \cup (IF slot \notin {0, h} THEN {slot} ELSE {})
    BY <1>4 DEF CompleteBgTask, Orphans
  <2>2. 0 \notin Runs
    BY IosAssumption DEF Runs, IosAssumption
  <2> QED BY <1>1, <1>2, <2>1, <2>2 DEF ExpirationReaches
<1> QED BY <1>3, <1>4

LEMMA ReachStep ==
    ASSUME IosTypeOK, RunsInv, ExpirationReaches, [Next]_vars
    PROVE  ExpirationReaches'
<1> USE DEF osVars, taskVars, scheduleVars, intentVars, managerVars, startVars
<1>1. ListenerTypes /\ RunTypes /\ 0 \notin Runs
  BY IosAssumption DEF IosTypeOK, Runs, IosAssumption
<1>2. CASE Expire \/ SafetyTimer
  <2>1. /\ listener' = Answered("resolved")
        /\ UNCHANGED <<slot, run, orphaned>>
    BY <1>2 DEF Expire, SafetyTimer, Expired, ExpiryAnswer
  <2>2. \A g \in Runs :
           /\ listener[g] \in {"none", "due"} => listener'[g] \in {"none", "due"}
           /\ listener[g] \in Reaching => listener'[g] \in Reaching
    BY <2>1 DEF Answered, Reaching
  <2> QED BY <2>1, <2>2, ReachFrame
<1>3. CASE Die \/ UserStop \/ \E g \in Runs : ListenerExpired(g) \/ ListenerTimedOut(g)
  <2>1. slot' = 0
    BY <1>3 DEF Die, UserStop, StopRun, ListenerExpired, ListenerTimedOut
  <2> QED BY <1>1, <2>1 DEF ExpirationReaches
<1>4. ASSUME NEW h \in Runs,
             WaitForCancel(h) \/ ListenerTimeout(h) \/ CancelListener(h)
      PROVE  ExpirationReaches'
  <2>1. listener'[h] \in {"blocked", "timedout", "stopping"}
    BY <1>1, <1>4
       DEF WaitForCancel, ListenerTimeout, CancelListener, Superseded, Answered,
           ListenerTypes
  <2> QED BY <2>1, ReachWitness DEF Reaching
<1>5. ASSUME NEW s \in Starters, Start(s) PROVE ExpirationReaches'
  <2> DEFINE g == Cardinality(Started) + 1
  <2>1. g \in Runs /\ run[g] = "none" /\ listener[g] = "none"
    BY <1>5, NextRun DEF Start, RunsInv
  <2>2. /\ slot' = g /\ UNCHANGED orphaned
        /\ listener' = listener \/ listener' = [listener EXCEPT ![g] = "due"]
    BY <1>5 DEF Start
  <2>3. listener'[g] \in {"none", "due"}
    BY <1>1, <2>1, <2>2 DEF ListenerTypes
  <2> HIDE DEF g
  <2> QED BY <2>2, <2>3 DEF ExpirationReaches
<1>6. ASSUME NEW s \in Starters, Consume(s) PROVE ExpirationReaches'
  <2>1. /\ target[s] \in Runs /\ listener[target[s]] = "none"
        /\ listener' = [listener EXCEPT ![target[s]] = "due"]
        /\ UNCHANGED <<slot, run, orphaned>>
    BY <1>6 DEF Consume, RunsInv, Started
  <2>2. \A g \in Runs :
           /\ listener[g] \in {"none", "due"} => listener'[g] \in {"none", "due"}
           /\ listener[g] \in Reaching => listener'[g] \in Reaching
    BY <1>1, <2>1 DEF ListenerTypes, Reaching
  <2> QED BY <2>1, <2>2, ReachFrame
<1>7. ASSUME NEW h \in Runs,
             InitFails(h) \/ RunReturns(h) \/ ClearDesired(h) \/ ClearSlot(h)
      PROVE  ExpirationReaches'
  <2>1. /\ UNCHANGED <<listener, orphaned>> /\ slot' \in {0, slot}
        /\ \E to \in {"returned", "completing", "failing", "ended"} :
              run' = [run EXCEPT ![h] = to]
    BY <1>7 DEF InitFails, RunReturns, ClearDesired, ClearSlot, RunStep, Released
  <2>2. \A g \in Runs : run'[g] = "running" => run[g] = "running"
    BY <1>1, <2>1 DEF RunTypes
  <2> QED BY <1>1, <2>1, <2>2, ReachFrame
<1>8. CASE UNCHANGED <<listener, slot, run, orphaned>>
  BY <1>8 DEF ExpirationReaches
<1> QED
  BY <1>2, <1>3, <1>4, <1>5, <1>6, <1>7, <1>8, ReachCompletion
     DEF Next, Boot, Deliver, EnterBackground, EnterForeground, Enable,
         Disable, WarmBlock, ColdClear, WarmQuery, SetOnComplete, StarterNext,
         ReadPending, ReadDesired, StartRejected, ListenerNext, RunNext, vars

(* As long as no older run has answered the invoke in its place, a running *)
(* service with a listener is told of an expiration.                       *)
THEOREM ExpirationsReach == Spec => []ExpirationReaches
<1>1. Init => ExpirationReaches
  BY IosAssumption DEF Init, ExpirationReaches, Runs, IosAssumption
<1> QED BY <1>1, ReachStep, IosTypeCorrect, PTL DEF Spec
=============================================================================
