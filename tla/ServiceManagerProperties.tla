---------------------- MODULE ServiceManagerProperties ----------------------
(***************************************************************************)
(* What the manager actor and its service tasks guarantee, and what the    *)
(* code and its documents say of them that does not hold.                  *)
(***************************************************************************)
EXTENDS ServiceManager

TaskPc == {"none", "init", "mark", "run", "classify", "save", "callback",
           "clear", "clearInit", "lateCallback", "done"}
Outcome == StopReason \union {"none", "failed"}

FlagsOK ==
    /\ seen \in BOOLEAN /\ isRunning \in BOOLEAN /\ lastError \in BOOLEAN
    /\ onComplete \in BOOLEAN /\ native \in BOOLEAN

DataOK ==
    /\ pc \in {"boot", "recv", "persist", "converge", "tag", "merge", "drain"}
    /\ job \in Jobs \union {"none"} /\ (pc = "persist" => job \in Jobs)
    /\ token \in Gens \union {None} /\ generation \in 0 .. MaxGen
    /\ lifecycle \in {"Idle", "Initializing", "Running", "Stopped"}
    /\ reasonSlot \in [gen : 0 .. MaxGen, reason : StopReason \union {"none"}]
    /\ task \in [Gens -> TaskPc]
    /\ runOk \in [Gens -> BOOLEAN] /\ captured \in [Gens -> BOOLEAN]
    /\ cancelled \subseteq Gens
    /\ store \in [desired : BOOLEAN, config : BOOLEAN]
    /\ nativeEvents \subseteq NativeEvents
    /\ boots \in Nat
    /\ stopped \in [Gens -> StopReason \union {"none"}]
    /\ outcome \in [Gens -> Outcome] /\ natural \subseteq Gens
    /\ intent \in {"run", "idle", "armed"}

(* Every variable holds a value of its type.                               *)
TypeOK == FlagsOK /\ DataOK

-----------------------------------------------------------------------------
(* Safety.                                                                 *)

(* The token slot holds exactly the one service that is running and was    *)
(* not cancelled: Stop reaches every such service, a leftover task never   *)
(* takes a newer start's token, and no token outlives its task (the        *)
(* generation check under the token lock in the cleanup of handle_start).  *)
TokenMeansService ==
    \A g \in Gens : token = g <=> Serving(g) /\ g \notin cancelled

(* Off Android the fast path agrees with the slot, and a held token means  *)
(* a lifecycle of Initializing or Running: GetState never says Stopped     *)
(* over a service that Stop would still find.                              *)
BeliefAgrees ==
    /\ isRunning <=> token # None
    /\ token # None => lifecycle \in {"Initializing", "Running"}

(* The terminal event never carries the stop reason of another generation. *)
ReasonIsOwn ==
    \A g \in Gens : outcome[g] \in StopReason \ {"TaskCompleted"}
                        => outcome[g] = stopped[g]

(* A stopped run reports TaskCompleted only when a later generation was    *)
(* stopped too, before this one got to read the single slot.               *)
ReasonLostOnlyByOverwrite ==
    \A g \in Gens :
        outcome[g] = "TaskCompleted" /\ g \notin natural
            => \E h \in Gens : h > g /\ stopped[h] # "none"

(* A stop or disable whose write reached the disk stays there, through     *)
(* leftover tasks, failing writes and crashes, until the write of a later  *)
(* start or enable succeeds.  (A failing write is only logged: that stop   *)
(* is acknowledged and yet not on disk.)                                   *)
StopSticks == intent = "idle" => ~store.desired

(* Until its on_complete callback has run, a service that ended by itself  *)
(* is still reported running, so a caller that polls is_running() and sees *)
(* FALSE knows the callback ran (a failed init() is the exception).        *)
CallbackBeforeIdle ==
    \A g \in Gens : captured[g] /\ g \notin cancelled
                      => isRunning \/ task[g] = "lateCallback"

-----------------------------------------------------------------------------
(* Action properties.                                                      *)

(* A step of a task that is not of the current generation leaves the       *)
(* token, the running flag and the last error as they are.                 *)
StaleHarmless ==
    [][\A g \in Gens : task'[g] # task[g] /\ task'[g] # "none"
                         /\ generation' = generation /\ generation # g
            => UNCHANGED <<token, isRunning, lastError>>]_vars

(* An armed callback leaves its slot only into a service task (or dies     *)
(* with the process): a start that fails puts it back.                     *)
CallbackKept ==
    [][onComplete /\ ~onComplete' /\ boots' = boots
            => \E g \in Gens : captured'[g] /\ ~captured[g]]_vars

-----------------------------------------------------------------------------
(* Liveness.                                                               *)

(* A service that was stopped ends, and its callback has fired by then.    *)
StopDrains ==
    \A g \in Gens : stopped[g] # "none"
                      ~> task[g] \in {"done", "none"} /\ ~captured[g]

-----------------------------------------------------------------------------
(* The promise of SingleService.                                           *)

Single == INSTANCE SingleService
            WITH MaxRun <- MaxGen, current <- token, started <- generation,
                 draining <- {g \in cancelled : Serving(g)}

(* Every step of the actor, its tasks and the native side is one of        *)
(* SingleService's, or none.                                               *)
RefinesSingleService == Single!Spec

(* And under the scheduler's fairness cancelled runs drain as it requires. *)
ImplementsSingleService == Single!FairSpec

-----------------------------------------------------------------------------
(* What is said of this code and does not hold.                            *)

(* Platform timeouts preserve the desired state: unless some run ended by  *)
(* itself or the user changed the wish, a service whose start is on disk   *)
(* stays wanted.                                                           *)
TimeoutPreservesDesired ==
    pc = "recv" /\ intent = "run" /\ natural = {} => store.desired

(* A service that is reported stopped can be started again.                *)
RestartNotBlocked == pc = "recv" /\ ~isRunning => token = None
=============================================================================
