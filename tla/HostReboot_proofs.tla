------------------------- MODULE HostReboot_proofs -------------------------
(***************************************************************************)
(* Proofs about "testbus reboot", on top of what HostRegistry_proofs shows *)
(* of the registry.                                                        *)
(***************************************************************************)
EXTENDS HostReboot, HostRegistry_proofs

\* An agent that registered host h after the request has announced itself.
BackAgain(h) ==
    \E a \in Agent \ target[h].holders :
        agent[a].path = h /\ agent[a].pc \in {"serving", "dead", "gone"}

\* The client records, asks and waits in this order.
ClientInv ==
    /\ target \in [Targets -> TargetRec]
    /\ phase \in {"idle", "refresh", "request"} => \A h \in Targets : ~target[h].ready
    /\ phase \in {"idle", "refresh"} => \A h \in Targets : ~target[h].requested
    /\ \A h \in Targets :
          target[h].requested /\ ~target[h].ready => target[h].host_gen = target[h].cached

\* Since the request, the host belongs to nobody it belonged to before, and its
\* generation grew only when somebody else announced it.
RequestInv ==
    \A h \in Targets : target[h].requested =>
        /\ h < next_id
        /\ \A a \in target[h].holders : agent[a].path = h
        /\ h \in globalHosts =>
              \A a \in target[h].holders : ~Behind(host[h].agent_bus_name, a)
        /\ host[h].generation > target[h].genAtRequest => BackAgain(h)

RebootInv == ClientInv /\ RequestInv /\ BackMeansNewAgent

-----------------------------------------------------------------------------
(* The registry *)

\* The client only calls the master: the registry behaves as it does without it.
THEOREM RebootRefinesRegistry == RebootSpec => Spec
<1>1. RebootInit => Init
    BY DEF RebootInit
<1>2. [RebootNext]_allVars => [Next]_vars
    <2> SUFFICES ASSUME [RebootNext]_allVars
                 PROVE  [Next]_vars
        OBVIOUS
    <2>1. CASE UNCHANGED allVars
        BY <2>1 DEF allVars, vars
    <2>2. ASSUME NEW h \in Targets, RequestReboot(h)
          PROVE  [Next]_vars
        <3>1. h \in Host
            BY OptionsAssumption
        <3> QED
            BY <2>2, <3>1 DEF RequestReboot, Next, ClientNext
    <2>3. CASE \/ \E o \in Options : DoReboot(o)
               \/ \E h \in Targets : Refresh(h) \/ PollHost(h)
               \/ EndPass \/ TimeIsUp \/ Wakeup
        BY <2>3 DEF DoReboot, Refresh, PollHost, EndPass, TimeIsUp, Wakeup
    <2> QED
        BY <2>1, <2>2, <2>3 DEF RebootNext
<1> QED
    BY <1>1, <1>2, PTL DEF RebootSpec, Spec

\* The generation of a host object.
SameGeneration(rec, old) == rec.generation = old.generation

\* No operation on a host record but agent_ready changes its generation.
LEMMA GenerationOps ==
    ASSUME NEW rec \in HostRec
    PROVE  /\ SameGeneration(agent_disconnected(rec), rec)
           /\ SameGeneration(host_release(rec), rec)
           /\ SameGeneration(host_destroy(rec), rec)
           /\ SameGeneration([rec EXCEPT !.parent = None], rec)
           /\ SameGeneration([rec EXCEPT !.capabilities = TRUE], rec)
           /\ \A r, t : SameGeneration(set_role(rec, r, t), rec)
           /\ \A u, b : SameGeneration([rec EXCEPT !.uuid = u, !.agent_bus_name = b], rec)
           /\ \A last : SameGeneration(host_put(rec, last), rec)
<1>1. /\ SameGeneration(agent_disconnected(rec), rec)
      /\ SameGeneration(host_release(rec), rec)
      /\ SameGeneration(host_destroy(rec), rec)
      /\ SameGeneration([rec EXCEPT !.parent = None], rec)
      /\ SameGeneration([rec EXCEPT !.capabilities = TRUE], rec)
    BY DEF SameGeneration, HostRec, agent_disconnected, host_release, host_destroy
<1>2. \A r, t : SameGeneration(set_role(rec, r, t), rec)
    BY DEF SameGeneration, HostRec, set_role
<1>3. \A u, b : SameGeneration([rec EXCEPT !.uuid = u, !.agent_bus_name = b], rec)
    BY DEF SameGeneration, HostRec
<1>4. SameGeneration(host_destroy([rec EXCEPT !.owner = None]), rec)
    BY DEF SameGeneration, HostRec, host_destroy
<1> QED
    BY <1>1, <1>2, <1>3, <1>4 DEF host_put, SameGeneration

\* The generation of a host that exists grows only when the agent that has it announces it.
LEMMA GenerationStep ==
    ASSUME ServedInv, Next, NEW h \in Host, h < next_id,
           host'[h].generation # host[h].generation
    PROVE  \E a \in Agent : /\ h \in globalHosts
                            /\ Behind(host[h].agent_bus_name, a)
                            /\ agent[a].path = h
                            /\ agent[a].pc \in {"serving", "dead", "gone"}
<1> DEFINE m == Head(masterq)
           Same == SameGeneration(host'[h], host[h])
<1>f. TypeOK
    BY DEF ServedInv, TypeInv
<1>t. \A g \in Host : host[g] \in HostRec
    BY <1>f DEF TypeOK
<1>s. ~Same
    BY DEF SameGeneration
<1>k. host[h] # host'[h]
    OBVIOUS
<1>1. ~AgentNext
    BY <1>k DEF AgentNext, AgentStart, AgentRegister, AgentSetup, AgentPublish, AgentReady,
                AgentStop, AgentCrash, BusNoticesExit, masterVars
<1>2. ASSUME NEW b, DisconnectAgent(b) PROVE FALSE
    <2>1. host'[h] = host[h] \/ host'[h] = agent_disconnected(host[h])
        BY <1>f, <1>2 DEF DisconnectAgent, TypeOK
    <2> QED
        BY <1>s, <1>t, <2>1, GenerationOps DEF SameGeneration
<1>3. ~HandleNameOwnerChanged /\ ~HandleUniqueNameLost
    BY <1>2, <1>k DEF HandleNameOwnerChanged, HandleUniqueNameLost
<1>4. ASSUME NEW u, AddNewHost(m, u) PROVE FALSE
    <2>1. h # next_id
        BY <1>f, ConstantsAssumption DEF Host, TypeOK
    <2> QED
        BY <1>f, <1>k, <1>4, <2>1 DEF AddNewHost, TypeOK
<1>5. ASSUME NEW g, ReconnectExisting(m, g) PROVE FALSE
    <2> DEFINE rec(x) == IF /\ m.uuid # None
                            /\ host[x].uuid = m.uuid
                            /\ host[x].agent_bus_name # None
                         THEN agent_disconnected(host[x]) ELSE host[x]
               b == lookup_wellknown_bus_name(m.sender)
    <2>1. CASE RefuseCall(m)
        BY <1>k, <2>1 DEF RefuseCall
    <2>2. CASE ~RefuseCall(m)
        <3>1. \E u : host' = [host EXCEPT ![g] = [rec(g) EXCEPT !.uuid = u, !.agent_bus_name = b]]
            BY <1>5, <2>2, Zenon DEF ReconnectExisting
        <3>2. PICK u : host' = [host EXCEPT ![g] = [rec(g) EXCEPT !.uuid = u, !.agent_bus_name = b]]
            BY <3>1
        <3>3. rec(h) \in HostRec /\ SameGeneration(rec(h), host[h])
            BY <1>t, HostRecOps, GenerationOps DEF SameGeneration
        <3> HIDE DEF rec, b
        <3>4. SameGeneration([rec(h) EXCEPT !.uuid = u, !.agent_bus_name = b], rec(h))
            BY <3>3, GenerationOps
        <3>5. host'[h] = host[h] \/ host'[h] = [rec(h) EXCEPT !.uuid = u, !.agent_bus_name = b]
            BY <1>f, <3>2 DEF TypeOK
        <3> QED
            BY <1>s, <3>3, <3>4, <3>5 DEF SameGeneration
    <2> QED
        BY <2>1, <2>2
<1>6. ~HandleCreateHost /\ ~HandleReconnect
    BY <1>4, <1>5, <1>k DEF HandleCreateHost, HandleReconnect, RefuseCall
<1>7. ~HandlePublish
    <2> SUFFICES ASSUME HandlePublish PROVE FALSE
        OBVIOUS
    <2> DEFINE p == agent[m.sender].path
    <2>1. host' = host \/ host' = [host EXCEPT ![p].capabilities = TRUE]
        BY DEF HandlePublish
    <2>2. host'[h] = host[h] \/ host'[h] = [host[h] EXCEPT !.capabilities = TRUE]
        <3> HIDE DEF p
        <3> QED
            BY <1>f, <2>1 DEF TypeOK
    <2> QED
        BY <1>s, <1>t, <2>2, GenerationOps DEF SameGeneration
<1>8. ASSUME NEW S, StopHosts(S) PROVE FALSE
    <2>1. host'[h] = host[h] \/ host'[h] = agent_disconnected(host[h])
        BY <1>8 DEF StopHosts
    <2> QED
        BY <1>s, <1>t, <2>1, GenerationOps DEF SameGeneration
<1>9. ~ClientNext
    <2>1. ASSUME NEW g \in Host, HostShutdown(g) PROVE FALSE
        BY <1>8, <2>1 DEF HostShutdown
    <2>2. ~HostlistShutdown
        BY <1>8 DEF HostlistShutdown
    <2>3. ASSUME NEW t \in Test, HostsetShutdown(t) PROVE FALSE
        BY <1>8, <2>3 DEF HostsetShutdown
    <2>4. ASSUME NEW g \in Host, DeleteHost(g) PROVE FALSE
        <3>1. host' = [host EXCEPT ![g] = host_put(host_destroy(host[g]), ~Claimed(g))]
            BY <2>4 DEF DeleteHost
        <3>2. host'[h] = host[h] \/ host'[h] = host_put(host_destroy(host[h]), ~Claimed(h))
            BY <1>f, <3>1 DEF TypeOK
        <3>3. /\ host_destroy(host[h]) \in HostRec
              /\ SameGeneration(host_destroy(host[h]), host[h])
            BY <1>t, HostRecOps, GenerationOps
        <3>4. \A last : SameGeneration(host_put(host_destroy(host[h]), last), host_destroy(host[h]))
            BY <3>3, GenerationOps
        <3> QED
            BY <1>s, <3>2, <3>3, <3>4 DEF SameGeneration
    <2>5. ASSUME NEW n \in Name, RemoveHost(n) PROVE FALSE
        <3> DEFINE g == get_host_by_name(n)
        <3>1. host' = [host EXCEPT ![g] = host_put([host[g] EXCEPT !.parent = None], ~Claimed(g))]
            BY <2>5 DEF RemoveHost
        <3> HIDE DEF g
        <3>2. \/ host'[h] = host[h]
              \/ host'[h] = host_put([host[h] EXCEPT !.parent = None], ~Claimed(h))
            BY <1>f, <3>1 DEF TypeOK
        <3>3. /\ [host[h] EXCEPT !.parent = None] \in HostRec
              /\ SameGeneration([host[h] EXCEPT !.parent = None], host[h])
            BY <1>t, HostRecOps, GenerationOps
        <3>4. \A last : SameGeneration(host_put([host[h] EXCEPT !.parent = None], last),
                                       [host[h] EXCEPT !.parent = None])
            BY <3>3, GenerationOps
        <3> QED
            BY <1>s, <3>2, <3>3, <3>4 DEF SameGeneration
    <2>6. ASSUME NEW t \in Test, NEW r \in Role, NEW g \in Host, AddHost(t, r, g) PROVE FALSE
        <3>1. host' = [host EXCEPT ![g] = set_role(host[g], r, t)]
            BY <2>6 DEF AddHost
        <3>2. host'[h] = host[h] \/ host'[h] = set_role(host[h], r, t)
            BY <1>f, <3>1 DEF TypeOK
        <3> QED
            BY <1>s, <1>t, <3>2, GenerationOps DEF SameGeneration
    <2>7. ASSUME NEW t \in Test, DeleteTest(t) PROVE FALSE
        <3> DEFINE released == IF host[h].owner = t THEN host_release(host[h]) ELSE host[h]
        <3>1. \/ host'[h] = released
              \/ \E last : host'[h] = host_put([released EXCEPT !.parent = None], last)
            BY <2>7 DEF DeleteTest
        <3>2. released \in HostRec /\ SameGeneration(released, host[h])
            BY <1>t, HostRecOps, GenerationOps DEF SameGeneration
        <3> HIDE DEF released
        <3>3. /\ [released EXCEPT !.parent = None] \in HostRec
              /\ SameGeneration([released EXCEPT !.parent = None], released)
            BY <3>2, HostRecOps, GenerationOps
        <3>4. \A last : SameGeneration(host_put([released EXCEPT !.parent = None], last),
                                       [released EXCEPT !.parent = None])
            BY <3>3, GenerationOps
        <3> QED
            BY <1>s, <3>1, <3>2, <3>3, <3>4 DEF SameGeneration
    <2> QED
        BY <2>1, <2>2, <2>3, <2>4, <2>5, <2>6, <2>7 DEF ClientNext
<1>10. HandleReady
    BY <1>1, <1>3, <1>6, <1>7, <1>9 DEF Next, MasterNext
<1> DEFINE a == m.sender
           b == lookup_wellknown_bus_name(a)
           g == find_agent_host(b)
<1>11. /\ Receive("ready")
       /\ host' = IF g = None THEN host ELSE [host EXCEPT ![g] = agent_ready(host[g])]
    BY <1>10 DEF HandleReady
<1>12. m.type = "ready" /\ a \in Agent
    BY <1>f, <1>11, ReceiveType, MessageFields
<1>13. Behind(b, a)
    BY <1>f, <1>12, LookupFacts
<1>14. g # None => g \in globalHosts /\ g \in Host /\ host[g].agent_bus_name = b
    BY <1>f, FindAgentHost
<1>15. agent[a].pc \in {"serving", "dead", "gone"} /\ agent[a].path # None
    <2>1. 1 \in DOMAIN masterq /\ masterq[1] = m
        BY <1>f, <1>11, TailQueue DEF TypeOK, Receive
    <2>2. IsReady(masterq[1], a)
        BY <1>12, <2>1 DEF IsReady
    <2> QED
        BY <1>12, <2>1, <2>2 DEF ServedInv, QueueInv, ReadySentInv
<1> HIDE DEF m, a, b, g
<1>16. g = h /\ g # None
    BY <1>f, <1>k, <1>11, <1>14 DEF TypeOK
<1>17. agent[a].path = h
    BY <1>12, <1>13, <1>14, <1>15, <1>16 DEF ServedInv, HostsInv, BehindInv
<1> QED
    BY <1>12, <1>13, <1>14, <1>15, <1>16, <1>17

-----------------------------------------------------------------------------
(* The client *)

\* An agent that has a host keeps it, and one that served it does not come back.
LEMMA PathStays ==
    ASSUME ServedInv, [Next]_vars, NEW a \in Agent, agent[a].path # None
    PROVE  /\ agent'[a].path = agent[a].path
           /\ agent[a].pc \in {"serving", "dead", "gone"}
                 => agent'[a].pc \in {"serving", "dead", "gone"}
<1>1. Registered(a)
    <2>1. agent[a].pc \notin {"off", "named"}
        BY DEF ServedInv, QueueInv, PathsInv
    <2>2. \A i \in DOMAIN masterq : ~IsRegistration(masterq[i], a)
        BY DEF ServedInv, QueueInv, RegistrationsInv
    <2> QED
        BY <2>1, <2>2 DEF Registered
<1> QED
    BY <1>1, NextServed DEF StepFacts, AgentsGoOn

\* The history of a request is not rewritten.
SameRequest(h) ==
    /\ target'[h].requested = target[h].requested
    /\ target'[h].holders = target[h].holders
    /\ target'[h].genAtRequest = target[h].genAtRequest

\* A host that is back stays so.
LEMMA BackStays ==
    ASSUME ServedInv, [Next]_vars, NEW h \in Targets, BackAgain(h), SameRequest(h)
    PROVE  BackAgain(h)'
<1>1. PICK a \in Agent \ target[h].holders :
         agent[a].path = h /\ agent[a].pc \in {"serving", "dead", "gone"}
    BY DEF BackAgain
<1>2. agent[a].path # None
    BY <1>1, NoneIsNoHost, OptionsAssumption
<1>3. agent'[a].path = h /\ agent'[a].pc \in {"serving", "dead", "gone"}
    BY <1>1, <1>2, PathStays
<1> QED
    BY <1>1, <1>3 DEF BackAgain, SameRequest

\* What the invariant says of one requested host.
Requested(h) ==
    /\ h < next_id
    /\ \A a \in target[h].holders : agent[a].path = h
    /\ h \in globalHosts =>
          \A a \in target[h].holders : ~Behind(host[h].agent_bus_name, a)
    /\ host[h].generation > target[h].genAtRequest => BackAgain(h)

\* Steps of the registry keep it: who takes the host over had no host before.
LEMMA RequestStays ==
    ASSUME ServedInv, [Next]_vars, ClientInv, NEW h \in Targets, Requested(h), SameRequest(h)
    PROVE  Requested(h)'
<1>t. /\ h \in Host /\ h # None /\ target[h].holders \subseteq Agent /\ TypeOK /\ h \in Nat
    <2>1. h \in Host /\ h # None
        BY NoneIsNoHost, OptionsAssumption
    <2>2. target[h] \in TargetRec /\ TypeOK
        BY DEF ClientInv, ServedInv, TypeInv
    <2>3. h \in Nat
        BY <2>1, ConstantsAssumption DEF Host
    <2> QED
        BY <2>1, <2>2, <2>3 DEF TargetRec
<1>1. h < next_id'
    <2>1. next_id' = next_id \/ next_id' = next_id + 1
        BY DEF Next, vars, AgentNext, AgentStart, AgentRegister, AgentSetup, AgentPublish,
               AgentReady, AgentStop, AgentCrash, BusNoticesExit, masterVars, MasterNext,
               HandleNameOwnerChanged, HandleUniqueNameLost, HandleCreateHost,
               HandleReconnect, HandlePublish, HandleReady, AddNewHost, RefuseCall,
               ReconnectExisting, ClientNext, HostShutdown, HostlistShutdown,
               HostsetShutdown, StopHosts, AddHost, RemoveHost, DeleteHost, DeleteTest
    <2>2. next_id \in Nat
        BY <1>t, ConstantsAssumption DEF TypeOK
    <2> QED
        BY <1>t, <2>1, <2>2 DEF Requested
<1>2. \A a \in target[h].holders : agent[a].path = h /\ agent'[a].path = h
    BY <1>t, PathStays DEF Requested
<1>3. ASSUME h \in globalHosts', NEW a \in target[h].holders,
             Behind(host[h].agent_bus_name, a)'
      PROVE  FALSE
    <2>1. NoSecondHost
        BY NextServed DEF StepFacts
    <2>2. \/ h \in globalHosts /\ Behind(host[h].agent_bus_name, a)
          \/ agent[a].path = None
        BY <1>t, <1>3, <2>1 DEF NoSecondHost
    <2> QED
        BY <1>t, <1>2, <1>3, <2>2 DEF Requested
<1>4. ASSUME host'[h].generation > target[h].genAtRequest
      PROVE  BackAgain(h)'
    <2>1. CASE host'[h].generation = host[h].generation
        BY <1>4, <2>1, BackStays DEF Requested
    <2>2. CASE host'[h].generation # host[h].generation
        <3>0. Next
            BY <2>2 DEF vars
        <3>1. PICK a \in Agent : /\ h \in globalHosts
                                 /\ Behind(host[h].agent_bus_name, a)
                                 /\ agent[a].path = h
                                 /\ agent[a].pc \in {"serving", "dead", "gone"}
            BY <1>t, <2>2, <3>0, GenerationStep DEF Requested
        <3>2. a \notin target[h].holders
            BY <3>1 DEF Requested
        <3>3. BackAgain(h)
            BY <3>1, <3>2 DEF BackAgain
        <3> QED
            BY <3>3, BackStays
    <2> QED
        BY <2>1, <2>2
<1> QED
    BY <1>1, <1>2, <1>3, <1>4 DEF Requested, SameRequest

\* A host reported as back is.
BackIsTrue(h) ==
    /\ target[h].ready
    /\ target[h].requested
    /\ target[h].cached = target[h].genAtRequest
    => BackAgain(h)

\* The invariant, host by host.
LEMMA RebootInvByHost ==
    RebootInv <=> /\ ClientInv
                  /\ \A h \in Targets : target[h].requested => Requested(h)
                  /\ \A h \in Targets : BackIsTrue(h)
BY DEF RebootInv, RequestInv, Requested, BackMeansNewAgent, BackIsTrue, BackAgain

\* Steps in which the client changes nothing of what it knows of the hosts.
LEMMA KnowledgeKept ==
    ASSUME ServedInv, [Next]_vars, RebootInv, target' = target, ClientInv'
    PROVE  RebootInv'
<1>1. /\ ClientInv
      /\ \A h \in Targets : target[h].requested => Requested(h)
      /\ \A h \in Targets : BackIsTrue(h)
    BY RebootInvByHost
<1>2. \A h \in Targets : SameRequest(h)
    BY DEF SameRequest
<1>3. \A h \in Targets : target'[h].requested => Requested(h)'
    BY <1>1, <1>2, RequestStays
<1>4. \A h \in Targets : BackIsTrue(h)'
    BY <1>1, <1>2, BackStays DEF BackIsTrue
<1> QED
    BY <1>3, <1>4 DEF RebootInv, RequestInv, Requested, BackMeansNewAgent, BackIsTrue, BackAgain

\* Reading the generation before the request.
LEMMA RefreshReboot ==
    ASSUME ServedInv, RebootInv, NEW h \in Targets, Refresh(h)
    PROVE  RebootInv'
<1>1. ClientInv /\ phase = "refresh" /\ phase' \in {"refresh", "request", "failed"}
    BY DEF RebootInv, Refresh
<1>2. \A g \in Targets : /\ target[g] \in TargetRec
                         /\ ~target[g].requested /\ ~target[g].ready
    BY <1>1 DEF ClientInv
<1>t. h \in Host /\ host[h].generation \in Nat
    <2>1. h \in Host
        BY OptionsAssumption
    <2>2. host[h] \in HostRec
        BY <2>1 DEF ServedInv, TypeInv, TypeOK
    <2> QED
        BY <2>1, <2>2 DEF HostRec
<1>3. target' = target \/ target' = [target EXCEPT ![h].cached = host[h].generation]
    BY DEF Refresh
<1>4. target' \in [Targets -> TargetRec]
    <2>1. \A rec \in TargetRec : [rec EXCEPT !.cached = host[h].generation] \in TargetRec
        BY <1>t DEF TargetRec
    <2> QED
        BY <1>1, <1>2, <1>3, <2>1 DEF ClientInv
<1>5. \A g \in Targets : ~target'[g].requested /\ ~target'[g].ready
    <2>1. \A rec \in TargetRec : /\ [rec EXCEPT !.cached = host[h].generation].requested = rec.requested
                                 /\ [rec EXCEPT !.cached = host[h].generation].ready = rec.ready
        BY DEF TargetRec
    <2> QED
        BY <1>1, <1>2, <1>3, <2>1 DEF ClientInv
<1>6. ClientInv'
    BY <1>4, <1>5 DEF ClientInv
<1>7. RequestInv' /\ BackMeansNewAgent'
    BY <1>5 DEF RequestInv, BackMeansNewAgent
<1> QED
    BY <1>6, <1>7 DEF RebootInv

\* The request: the host has no agent now, and its holders are the old ones.
LEMMA RequestReboots ==
    ASSUME ServedInv, ClaimsInv, RebootInv, NEW h \in Targets, RequestReboot(h)
    PROVE  RebootInv'
<1> DEFINE old == target[h]
           new == [old EXCEPT !.host_gen = old.cached, !.requested = host[h].registered,
                              !.genAtRequest = host[h].generation,
                              !.holders = {a \in Agent : agent[a].path = h}]
<1>1. /\ ClientInv /\ phase = "request" /\ phase' \in {"request", "wait", "done"}
      /\ \A g \in Targets : target[g].requested => Requested(g)
    BY RebootInvByHost DEF RequestReboot
<1>2. /\ target' = [target EXCEPT ![h] = new]
      /\ IF host[h].registered THEN HostShutdown(h) ELSE UNCHANGED vars
    BY DEF RequestReboot
<1>t. /\ h \in Host /\ host[h] \in HostRec /\ TypeOK
      /\ old \in TargetRec
    <2>1. h \in Host
        BY OptionsAssumption
    <2> QED
        BY <1>1, <2>1 DEF ServedInv, TypeInv, TypeOK, ClientInv
<1>n. [Next]_vars
    BY <1>2, <1>t DEF Next, ClientNext
<1>3. /\ new \in TargetRec /\ new.host_gen = new.cached /\ new.ready = old.ready
      /\ new.requested = host[h].registered /\ new.genAtRequest = host[h].generation
      /\ new.holders = {a \in Agent : agent[a].path = h}
    <2>1. host[h].generation \in Nat /\ host[h].registered \in BOOLEAN
        BY <1>t DEF HostRec
    <2> HIDE DEF old
    <2> QED
        BY <1>t, <2>1 DEF TargetRec
<1> HIDE DEF new, old
<1>4. target'[h] = new /\ \A g \in Targets : g # h => target'[g] = target[g]
    BY <1>1, <1>2 DEF ClientInv
<1>5. \A g \in Targets : ~target[g].ready
    BY <1>1 DEF ClientInv
<1>6. \A g \in Targets : ~target'[g].ready
    BY <1>3, <1>4, <1>5 DEF old
<1>7. ClientInv'
    <2>1. target' \in [Targets -> TargetRec]
        BY <1>1, <1>2, <1>3 DEF ClientInv
    <2>2. \A g \in Targets : target'[g].requested /\ ~target'[g].ready
             => target'[g].host_gen = target'[g].cached
        BY <1>1, <1>3, <1>4 DEF ClientInv
    <2> QED
        BY <1>1, <1>6, <2>1, <2>2 DEF ClientInv
<1>8. \A g \in Targets : target'[g].requested => Requested(g)'
    <2> SUFFICES ASSUME NEW g \in Targets, target'[g].requested
                 PROVE  Requested(g)'
        OBVIOUS
    <2>1. CASE g # h
        <3>1. SameRequest(g)
            BY <1>4, <2>1 DEF SameRequest
        <3> QED
            BY <1>1, <1>4, <1>n, <2>1, <3>1, RequestStays
    <2>2. CASE g = h
        <3>1. host[h].registered
            BY <1>3, <1>4, <2>2
        <3>2. StopHosts({h})
            BY <1>2, <3>1 DEF HostShutdown
        <3>3. host'[h] = agent_disconnected(host[h]) /\ next_id' = next_id
            BY <1>t, <3>2 DEF StopHosts
        <3>4. /\ agent_disconnected(host[h]).agent_bus_name = None
              /\ agent_disconnected(host[h]).generation = host[h].generation
            BY <1>t DEF agent_disconnected, HostRec
        <3>5. h < next_id
            BY <1>t, <3>1 DEF ClaimsInv, ClaimedHostsExist
        <3>6. \A a \in new.holders : agent'[a].path = h
            <4>1. \A a \in Agent : agent'[a].path = agent[a].path
                BY <1>t, <3>2 DEF StopHosts, TypeOK, AgentRec
            <4> QED
                BY <1>3, <4>1
        <3>7. \A a \in new.holders : ~Behind(host[h].agent_bus_name, a)'
            BY <1>3, <3>3, <3>4, ConstantsAssumption DEF Behind
        <3>8. ~(host'[h].generation > new.genAtRequest)
            <4>1. host[h].generation \in Nat
                BY <1>t DEF HostRec
            <4> QED
                BY <1>3, <3>3, <3>4, <4>1
        <3> QED
            BY <1>4, <2>2, <3>3, <3>5, <3>6, <3>7, <3>8 DEF Requested
    <2> QED
        BY <2>1, <2>2
<1>9. RequestInv' /\ BackMeansNewAgent'
    BY <1>6, <1>8 DEF RequestInv, Requested, BackMeansNewAgent
<1> QED
    BY <1>7, <1>9 DEF RebootInv

\* A host is taken for back when its generation is newer than the one recorded.
LEMMA PollReboots ==
    ASSUME ServedInv, RebootInv, NEW h \in Targets, PollHost(h)
    PROVE  RebootInv'
<1>1. /\ ClientInv /\ phase' = phase /\ phase = "wait" /\ UNCHANGED vars
      /\ \A g \in Targets : target[g].requested => Requested(g)
      /\ \A g \in Targets : BackIsTrue(g)
    BY RebootInvByHost DEF PollHost
<1>2. CASE target' = target
    <2>1. ClientInv'
        BY <1>1, <1>2 DEF ClientInv
    <2> QED
        BY <1>1, <1>2, <2>1, KnowledgeKept
<1>3. CASE target' # target
    <2> DEFINE old == target[h]
               new == [old EXCEPT !.ready = TRUE, !.host_gen = host[h].generation]
    <2>1. /\ target' = [target EXCEPT ![h].ready = TRUE, ![h].host_gen = host[h].generation]
          /\ ~old.ready /\ host[h].generation > old.host_gen
        BY <1>3 DEF PollHost
    <2>2. target' = [target EXCEPT ![h] = new]
        BY <1>1, <2>1 DEF ClientInv
    <2>t. old \in TargetRec /\ host[h].generation \in Nat
        <3>1. h \in Host
            BY OptionsAssumption
        <3>2. host[h] \in HostRec
            BY <3>1 DEF ServedInv, TypeInv, TypeOK
        <3> QED
            BY <1>1, <3>2 DEF ClientInv, HostRec
    <2>3. /\ new \in TargetRec /\ new.ready /\ new.requested = old.requested
          /\ new.holders = old.holders /\ new.genAtRequest = old.genAtRequest
          /\ new.cached = old.cached
        <3> HIDE DEF old
        <3> QED
            BY <2>t DEF TargetRec
    <2> HIDE DEF new
    <2>4. target'[h] = new /\ \A g \in Targets : g # h => target'[g] = target[g]
        BY <1>1, <2>2 DEF ClientInv
    <2>5. \A g \in Targets : SameRequest(g)
        BY <2>3, <2>4 DEF SameRequest
    <2>6. ClientInv'
        <3>1. target' \in [Targets -> TargetRec]
            BY <1>1, <2>2, <2>3 DEF ClientInv
        <3> QED
            BY <1>1, <2>3, <2>4, <3>1 DEF ClientInv
    <2>7. \A g \in Targets : target'[g].requested => Requested(g)'
        BY <1>1, <2>5, RequestStays DEF SameRequest
    <2>8. \A g \in Targets : BackIsTrue(g)'
        <3> SUFFICES ASSUME NEW g \in Targets, target'[g].ready, target'[g].requested,
                            target'[g].cached = target'[g].genAtRequest
                     PROVE  BackAgain(g)'
            BY DEF BackIsTrue
        <3>1. CASE g # h
            <4>1. BackAgain(g)
                BY <1>1, <2>4, <3>1 DEF BackIsTrue
            <4> QED
                BY <1>1, <2>5, <4>1, BackStays
        <3>2. CASE g = h
            <4>1. old.requested /\ old.cached = old.genAtRequest
                BY <2>3, <2>4, <3>2
            <4>2. old.host_gen = old.cached
                BY <1>1, <2>1, <4>1 DEF ClientInv
            <4>3. Requested(h) /\ host[h].generation > target[h].genAtRequest
                BY <1>1, <2>1, <4>1, <4>2
            <4>4. BackAgain(h)
                BY <4>3 DEF Requested
            <4> QED
                BY <1>1, <2>5, <3>2, <4>4, BackStays
        <3> QED
            BY <3>1, <3>2
    <2>9. RequestInv' /\ BackMeansNewAgent'
        BY <2>7, <2>8 DEF RequestInv, Requested, BackMeansNewAgent, BackIsTrue, BackAgain
    <2> QED
        BY <2>6, <2>9 DEF RebootInv
<1> QED
    BY <1>2, <1>3

\* What "testbus reboot" knows of its hosts is true in every reachable state.
THEOREM RebootInvariant == RebootSpec => []RebootInv
<1>1. RebootInit => RebootInv
    <2> SUFFICES ASSUME RebootInit PROVE RebootInv
        OBVIOUS
    <2>1. ClientInv
        BY DEF RebootInit, ClientInv, TargetRec
    <2>2. RequestInv /\ BackMeansNewAgent
        BY DEF RebootInit, RequestInv, BackMeansNewAgent
    <2> QED
        BY <2>1, <2>2 DEF RebootInv
<1>2. ServedInv /\ ClaimsInv /\ RebootInv /\ [RebootNext]_allVars => RebootInv'
    <2> SUFFICES ASSUME ServedInv, ClaimsInv, RebootInv, [RebootNext]_allVars
                 PROVE  RebootInv'
        OBVIOUS
    <2>1. CASE (Next /\ UNCHANGED rebootVars) \/ UNCHANGED allVars
        <3>1. ClientInv' /\ target' = target /\ [Next]_vars
            BY <2>1 DEF RebootInv, ClientInv, rebootVars, allVars, vars
        <3> QED
            BY <3>1, KnowledgeKept
    <2>2. CASE (\E o \in Options : DoReboot(o)) \/ EndPass \/ TimeIsUp \/ Wakeup
        <3>1. target' = target /\ UNCHANGED vars
            BY <2>2 DEF DoReboot, EndPass, TimeIsUp, Wakeup
        <3>2. \/ phase' = phase
              \/ phase = "idle" /\ phase' \in {"refused", "refresh"}
              \/ phase \notin {"idle", "refresh", "request"}
                 /\ phase' \notin {"idle", "refresh", "request"}
            BY <2>2 DEF DoReboot, EndPass, TimeIsUp, Wakeup
        <3>3. ClientInv'
            BY <3>1, <3>2 DEF RebootInv, ClientInv
        <3> QED
            BY <3>1, <3>3, KnowledgeKept
    <2>3. ASSUME NEW h \in Targets, Refresh(h) \/ RequestReboot(h) \/ PollHost(h)
          PROVE  RebootInv'
        BY <2>3, RefreshReboot, RequestReboots, PollReboots
    <2> QED
        BY <2>1, <2>2, <2>3 DEF RebootNext
<1> QED
    BY <1>1, <1>2, RebootRefinesRegistry, ServedInvariant, ClaimsInvariant, PTL DEF RebootSpec

\* "testbus reboot" reports a host as back only when an agent that registered
\* after the request announced it, for any number of hosts and agents.
THEOREM BackIsNewAgent == RebootSpec => []BackMeansNewAgent
<1>1. RebootInv => BackMeansNewAgent
    BY DEF RebootInv
<1> QED
    BY <1>1, RebootInvariant, PTL

=============================================================================
