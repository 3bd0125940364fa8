------------------------ MODULE MCIosBackgroundTask ------------------------
(***************************************************************************)
(* Instances of IosBackgroundTask for TLC.  A behaviour uses some of the   *)
(* ways to start the service: all of them together only multiply states.   *)
(***************************************************************************)
EXTENDS IosBackgroundTaskProperties, TLC

Load(S, t, r, b, O) ==
    [starters |-> S, tasks |-> t, runs |-> r, boots |-> b, outcomes |-> O]

OneRefused == {Kinds, {"processing"}}

MCLoads ==
    {Load({"user"}, 2, 1, 1, OneRefused),
     Load({"user"}, 1, 2, 1, OneRefused),
     Load({"warm"}, 2, 1, 1, OneRefused),
     Load({"cold", "warm"}, 1, 2, 1, {Kinds}),
     Load({"cold"}, 1, 1, 2, OneRefused)}
=============================================================================
