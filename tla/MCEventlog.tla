----------------------------- MODULE MCEventlog -----------------------------
(* One host, its agent, its system log and one client. *)
EXTENDS Eventlog
=============================================================================
