---------------------------- MODULE MCHostClaims ----------------------------
(* Two machines with different hostnames, two tests that compete for them. *)
EXTENDS HostRegistry, TLC

CONSTANTS a1, a2, m1, m2, n1, n2

Symmetry == Permutations(BusName) \cup Permutations(Uuid)
            \cup Permutations(Test) \cup Permutations(Role)

MCMachineOf == (a1 :> m1) @@ (a2 :> m2)
MCHostnameOf == (m1 :> n1) @@ (m2 :> n2)
=============================================================================
