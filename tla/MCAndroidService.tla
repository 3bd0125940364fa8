-------------------------- MODULE MCAndroidService --------------------------
(* Instances of AndroidService for TLC. *)
EXTENDS AndroidServiceProperties

\* The policies that differ in what they leave in the durable record.
MCPolicies == {"stop", "scheduleRecovery"}
=============================================================================
