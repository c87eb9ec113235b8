--------------------------- MODULE MCHostRegistry ---------------------------
(* Three incarnations of the agent: two on one machine, one on another that *)
(* is configured with the same hostname.                                    *)
EXTENDS HostRegistry, TLC

CONSTANTS a1, a2, a3, m1, m2, n1

\* Bus names and uuids are only compared for equality.
Symmetry == Permutations(BusName) \cup Permutations(Uuid)

MCMachineOf == (a1 :> m1) @@ (a2 :> m1) @@ (a3 :> m2)
MCHostnameOf == (m1 :> n1) @@ (m2 :> n1)
=============================================================================
