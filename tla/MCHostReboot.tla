---------------------------- MODULE MCHostReboot ----------------------------
(* One machine whose agent is restarted up to twice, one host to reboot. *)
EXTENDS HostReboot, TLC

CONSTANTS m1, n1

Symmetry == Permutations(BusName) \cup Permutations(Uuid) \cup Permutations(Agent)

MCMachineOf == [a \in Agent |-> m1]
MCHostnameOf == (m1 :> n1)
MCTargets == {0}
\* Any other timeout is treated as 1 is.  A reboot that does not wait (timeout 0)
\* is the HostShutdown of the registry's own runs.
RebootOptions == [wait : {TRUE}, timeout : {-1, 1}] \cup [wait : {FALSE}, timeout : {-1}]
=============================================================================
