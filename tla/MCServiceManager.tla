-------------------------- MODULE MCServiceManager --------------------------
(* ServiceManager for TLC: see the .cfg files for the instances.           *)
EXTENDS ServiceManagerProperties

(* A stop that preserves the desired state.                                *)
MCPauses == {"PlatformTimeout"}
=============================================================================
