------------------------------- MODULE MCLive -------------------------------
(***************************************************************************)
(* Two parts that do not meet, each with the fairness of its own loops:    *)
(* two incarnations of the agent on one machine that register with the     *)
(* master, or one channel through the two proxies. Which of them a         *)
(* behaviour is about is chosen in the initial state; the other stays as   *)
(* it is.                                                                  *)
(***************************************************************************)
EXTENDS Proxy, TLC

CONSTANTS Agent, BusName, Machine, Name, Test, Role, Uuid, MaxHosts,
          MachineOf, HostnameOf, Reconnecting, EarlyAgents,
          a1, a2, m1, n1
VARIABLES part, busOwner, masterq, agent, stateFile, mapping, host, next_id,
          globalHosts, testHosts, tests

Registry == INSTANCE HostRegistry

\* Both incarnations on one machine: a restart.
MCSameMachine == (a1 :> m1) @@ (a2 :> m1)
MCHostnameOf == m1 :> n1

BothSend == [guest |-> 2, host |-> 1]

registryVars == <<busOwner, masterq, agent, stateFile, mapping, host, next_id,
                  globalHosts, testHosts, tests>>

LiveInit == part \in {"registry", "proxy"} /\ Init /\ Registry!Init

LiveNext ==
    \/ part = "registry" /\ Registry!Next /\ UNCHANGED <<part, vars>>
    \/ part = "proxy" /\ Next /\ UNCHANGED <<part, registryVars>>

LiveSpec ==
    /\ LiveInit
    /\ [][LiveNext]_<<part, vars, registryVars>>
    /\ \/ part = "registry" /\ Registry!Fairness
       \/ part = "proxy" /\ Fairness

\* A host that is ready does not stay without its agent: the master is told of
\* every death by the bus (server/main.c) and disconnects the host.
DeadAgentsNoticed == Registry!DeadAgentsNoticed

\* A registered agent that reaches its main loop gets its host marked ready,
\* unless it dies or loses the host first (server/dbus-host.c, agent/main.c).
RegistrationCompletes == Registry!RegistrationCompletes
=============================================================================
