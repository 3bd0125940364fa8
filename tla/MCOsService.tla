------------------------------ MODULE MCOsService ------------------------------
(* Instances of OsService for TLC. *)
EXTENDS OsServiceProperties

\* A host that provisions and autostarts under launchd, whose stop returns at
\* once, and one that does neither under systemd, whose stop waits.
MCConfigs ==
    {[startIfMissing |-> TRUE, autostart |-> TRUE, stopBlocks |-> FALSE],
     [startIfMissing |-> FALSE, autostart |-> FALSE, stopBlocks |-> TRUE]}

MCLimits == [commands |-> 2, faults |-> 1, acts |-> 2]
=============================================================================
