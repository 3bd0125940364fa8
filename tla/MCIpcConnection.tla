--------------------------- MODULE MCIpcConnection ---------------------------
(***************************************************************************)
(* Instances of IpcConnection for TLC.  A behaviour is loaded either with  *)
(* calls or with events: together they only multiply the states.           *)
(***************************************************************************)
EXTENDS IpcConnectionProperties, TLC

CONSTANTS c1, c2

MCCalls == {c1, c2}

MCLoads ==
    {[calls |-> {c1, c2}, losses |-> 1, events |-> 0],
     [calls |-> {c1}, losses |-> 1, events |-> 2]}
=============================================================================
