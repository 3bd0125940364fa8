-------------------------------- MODULE IpcSocket --------------------------------
(***************************************************************************)
(* The socket file of the desktop service: how a daemon takes it and       *)
(* leaves it (transport_unix.rs, IpcServer::bind and run, headless.rs).    *)
(*                                                                         *)
(* Two daemons of one label may overlap: an older one may still run when   *)
(* another is started.  The kernel's side, names and listening sockets, is *)
(* modelled from how the code uses it.  What passes over a connection is   *)
(* IpcConnection's.                                                        *)
(***************************************************************************)
CONSTANT Daemons    \* daemons that may run for the label

VARIABLES
    daemon,     \* how far each daemon is
    file,       \* there is a socket at the path
    crossed     \* history: daemons that ran beside another one since they started

vars == <<daemon, file, crossed>>

Init ==
    /\ daemon = [d \in Daemons |-> "off"]
    /\ file = FALSE
    /\ crossed = {}

Runs(d) == daemon[d] \notin {"off", "failed"}
Becomes(d, phase) == daemon' = [daemon EXCEPT ![d] = phase]

Boot(d) ==
    /\ ~Runs(d)
    /\ Becomes(d, "probing")
    /\ LET beside == {e \in Daemons \ {d} : Runs(e)}
       IN crossed' = IF beside = {} THEN crossed \ {d} ELSE crossed \union {d} \union beside
    /\ UNCHANGED file

\* A bind without the look at what is there.
MutProbe(d) ==
    /\ daemon[d] = "probing"
    /\ Becomes(d, "binding")
    /\ UNCHANGED <<file, crossed>>

\* symlink_metadata: whatever is there is taken for stale.
Probe(d) ==
    /\ daemon[d] = "probing"
    /\ Becomes(d, IF file THEN "unlinking" ELSE "binding")
    /\ UNCHANGED <<file, crossed>>

\* remove_file, which fails if the name is gone by now; headless_main returns.
Unlink(d) ==
    /\ daemon[d] = "unlinking"
    /\ file' = FALSE
    /\ Becomes(d, IF file THEN "binding" ELSE "failed")
    /\ UNCHANGED crossed

\* UnixListener::bind, which fails if the name is taken.
Bind(d) ==
    /\ daemon[d] = "binding"
    /\ file' = TRUE
    /\ Becomes(d, IF file THEN "failed" ELSE "serving")
    /\ UNCHANGED crossed

\* SIGTERM: the select! of headless_main drops server.run, and its cleanup with
\* it, before its handler starts the drain.
Terminate(d) ==
    /\ daemon[d] = "serving"
    /\ Becomes(d, "draining")
    /\ UNCHANGED <<file, crossed>>

\* The accept loop ends on an error: cleanup removes the name, whoever has it
\* by now, and headless_main returns.
AcceptFails(d) ==
    /\ daemon[d] = "serving"
    /\ file' = FALSE
    /\ Becomes(d, "off")
    /\ UNCHANGED crossed

\* The process is over, drained or killed at any moment; the name stays.
Gone(d) ==
    /\ Becomes(d, "off")
    /\ UNCHANGED <<file, crossed>>
Exit(d) == daemon[d] = "draining" /\ Gone(d)
Killed(d) == Runs(d) /\ Gone(d)

Next ==
    \E d \in Daemons :
        \/ Boot(d) \/ Probe(d) \/ Unlink(d) \/ Bind(d)
        \/ Terminate(d) \/ AcceptFails(d) \/ Exit(d) \/ Killed(d)

Spec == Init /\ [][Next]_vars

-----------------------------------------------------------------------------
\* Whatever an earlier daemon left behind, killed at any moment, a daemon that
\* runs alone is not kept from binding by it (bind).
StaleNeverBlocks == \A d \in Daemons : daemon[d] = "failed" => d \in crossed
=============================================================================
