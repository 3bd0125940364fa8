-------------------------- MODULE DesiredStateCell --------------------------
(***************************************************************************)
(* What a desired-state backend promises: a cell whose value changes in    *)
(* one step, to a value some caller is saving, and stays whatever happens  *)
(* to a save that does not get there.                                      *)
(***************************************************************************)
CONSTANTS Value, Default

VARIABLES value,    \* what a load returns
          offered   \* the values being saved

vars == <<value, offered>>

Init == value = Default /\ offered = {}

Offer(v) == offered' = offered \union {v} /\ UNCHANGED value
Commit(v) == /\ v \in offered /\ value' = v
             /\ offered' = offered \ {v}
Withdraw(v) == offered' = offered \ {v} /\ UNCHANGED value

Next == \E v \in Value : Offer(v) \/ Commit(v) \/ Withdraw(v)

Spec == Init /\ [][Next]_vars
=============================================================================
