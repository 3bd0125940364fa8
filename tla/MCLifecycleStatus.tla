--------------------------- MODULE MCLifecycleStatus ---------------------------
(* LifecycleStatusProperties on both mobile platforms. *)
EXTENDS LifecycleStatusProperties

MCRefusals == {{}, {"refresh"}, Kinds}
=============================================================================
