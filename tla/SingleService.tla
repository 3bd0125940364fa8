--------------------------- MODULE SingleService ---------------------------
(***************************************************************************)
(* What the manager promises of a service, whatever its threads do: there  *)
(* is at most one current run; a new one begins only when there is none;   *)
(* a run that is cancelled drains and leaves; no run ever ends the current *)
(* one on behalf of another.                                               *)
(***************************************************************************)
EXTENDS Naturals

CONSTANT MaxRun

VARIABLES current,    \* the run that Stop reaches, 0 when there is none
          started,    \* runs begun or attempted in this process
          draining    \* runs cancelled and not yet gone

vars == <<current, started, draining>>

Init == current = 0 /\ started = 0 /\ draining = {}

Begin == /\ current = 0
         /\ started' = started + 1 /\ current' = started'
         /\ UNCHANGED draining

(* A start that the platform refused takes a number and nothing else.      *)
Refused == /\ current = 0 /\ started' = started + 1
           /\ UNCHANGED <<current, draining>>

Cancel == /\ current # 0 /\ current' = 0
          /\ draining' = draining \union {current}
          /\ UNCHANGED started

Complete == current # 0 /\ current' = 0 /\ UNCHANGED <<started, draining>>

Drained(r) == /\ r \in draining /\ draining' = draining \ {r}
              /\ UNCHANGED <<current, started>>

Die == current' = 0 /\ started' = 0 /\ draining' = {}

Next == \/ Begin \/ Refused \/ Cancel \/ Complete \/ Die
        \/ \E r \in draining : Drained(r)

Spec == Init /\ [][Next]_vars
FairSpec == Spec /\ \A r \in 1 .. MaxRun : WF_vars(Drained(r))
=============================================================================
