------------------------ MODULE HostRegistry_proofs ------------------------
(***************************************************************************)
(* Proofs about HostRegistry, for any number of agents, machines, bus      *)
(* names, hosts and tests.                                                 *)
(***************************************************************************)
EXTENDS HostRegistry, TLAPS, SequenceTheorems, WellFoundedInduction

\* A non-empty set of host numbers has a first element.
LEMMA FirstIsMember ==
    ASSUME NEW S \in SUBSET Host, S # {}
    PROVE  First(S) \in S
<1>1. S \subseteq Nat
    BY ConstantsAssumption DEF Host
<1>2. PICK x \in S : \A y \in S : ~(<<y, x>> \in OpToRel(<, Nat))
    BY <1>1, WFMin, NatLessThanWellFounded, Zenon
<1>3. \A y \in Nat, z \in Nat : y < z => <<y, z>> \in OpToRel(<, Nat)
    BY DEF OpToRel
<1>4. \A y \in S : ~(y < x)
    BY <1>1, <1>2, <1>3
<1>5. \A y \in S : x <= y
    BY <1>1, <1>4
<1> QED
    BY <1>5 DEF First

\* First yields a member of the set or None.
LEMMA FirstType ==
    ASSUME NEW S \in SUBSET Host
    PROVE  First(S) = None \/ First(S) \in S
BY FirstIsMember DEF First

\* What the fields of a message are, by its type.
LEMMA MessageFields ==
    ASSUME NEW m \in Message
    PROVE  /\ m.type = "NameOwnerChanged" =>
                  m.name \in BusName /\ m.owner \in Agent \cup {None}
           /\ m.type = "UniqueNameLost" => m.name \in Agent
           /\ m.type \in {"createHost", "reconnect"} =>
                  m.sender \in Agent /\ m.name \in Name /\ m.uuid \in Uuid \cup {None}
           /\ m.type \in {"publish", "ready"} => m.sender \in Agent
BY DEF Message

\* The operations on a host record preserve its type.
LEMMA HostRecOps ==
    ASSUME NEW rec \in HostRec
    PROVE  /\ agent_disconnected(rec) \in HostRec
           /\ agent_ready(rec) \in HostRec
           /\ host_release(rec) \in HostRec
           /\ host_destroy(rec) \in HostRec
           /\ [rec EXCEPT !.parent = None] \in HostRec
           /\ \A r \in Role, t \in Test : set_role(rec, r, t) \in HostRec
           /\ \A last \in BOOLEAN : host_put(rec, last) \in HostRec
<1>1. agent_disconnected(rec) \in HostRec
    BY DEF HostRec, agent_disconnected
<1>2. agent_ready(rec) \in HostRec
    <2>1. rec.generation + 1 \in Nat
        BY DEF HostRec
    <2> QED
        BY <2>1, Zenon DEF HostRec, agent_ready
<1>3. host_release(rec) \in HostRec
    BY DEF HostRec, host_release
<1>4. host_destroy(rec) \in HostRec
    BY DEF HostRec, host_destroy
<1>5. [rec EXCEPT !.parent = None] \in HostRec
    BY DEF HostRec
<1>6. \A r \in Role, t \in Test : set_role(rec, r, t) \in HostRec
    BY DEF HostRec, set_role
<1>7. \A last \in BOOLEAN : host_put(rec, last) \in HostRec
    BY DEF HostRec, host_put, host_destroy
<1> QED
    BY <1>1, <1>2, <1>3, <1>4, <1>5, <1>6, <1>7

-----------------------------------------------------------------------------

\* An agent that got its reply knows the path of its host.
RepliedHasPath == \A a \in Agent : agent[a].pc = "replied" => agent[a].path \in Host

TypeInv == TypeOK /\ RepliedHasPath

\* The reply to an agent.
LEMMA ReplyType ==
    ASSUME TypeInv, NEW a \in Agent, NEW h \in Host \cup {None}, Reply(a, h)
    PROVE  agent' \in [Agent -> AgentRec] /\ RepliedHasPath'
<1> USE DEF TypeInv, TypeOK, RepliedHasPath, AgentRec, AgentPc
<1>1. CASE agent[a].pc # "calling"
    BY <1>1 DEF Reply
<1>2. CASE agent[a].pc = "calling" /\ h = None
    BY <1>2 DEF Reply
<1>3. CASE agent[a].pc = "calling" /\ h # None
    <2>1. agent' = [agent EXCEPT ![a].pc = "replied", ![a].path = h]
        BY <1>3 DEF Reply
    <2> QED
        BY <1>3, <2>1
<1> QED
    BY <1>1, <1>2, <1>3

\* A step of an agent that only changes its program counter.
LEMMA SetPcType ==
    ASSUME TypeInv, NEW a \in Agent, NEW pc \in AgentPc \ {"replied"}, SetPc(a, pc)
    PROVE  agent' \in [Agent -> AgentRec] /\ RepliedHasPath'
<1>1. agent \in [Agent -> AgentRec] /\ pc \in AgentPc /\ pc # "replied"
    BY DEF TypeInv, TypeOK
<1>2. agent' \in [Agent -> AgentRec]
    BY <1>1 DEF SetPc, AgentRec
<1>3. \A b \in Agent : /\ b # a => agent'[b] = agent[b]
                       /\ b = a => agent'[b].pc # "replied"
    BY <1>1 DEF SetPc, AgentRec
<1>4. RepliedHasPath'
    BY <1>3 DEF TypeInv, RepliedHasPath
<1> QED
    BY <1>2, <1>4

\* The message a master's handler takes from the queue.
LEMMA ReceiveType ==
    ASSUME TypeOK, NEW type, Receive(type)
    PROVE  /\ Head(masterq) \in Message
           /\ Head(masterq).type = type
           /\ masterq' \in Seq(Message)
BY HeadTailProperties DEF TypeOK, Receive

\* Sending a message keeps the queue well typed.
LEMMA SendType ==
    ASSUME TypeOK, NEW msg \in Message, Send(msg)
    PROVE  masterq' \in Seq(Message)
BY AppendProperties DEF TypeOK, Send

\* A sender is known by its well-known name or by its unique name.
LEMMA LookupType ==
    ASSUME TypeOK, NEW a \in Agent
    PROVE  lookup_wellknown_bus_name(a) \in Agent \cup BusName
BY DEF lookup_wellknown_bus_name

\* Losing an agent (server/main.c) keeps the host objects well typed.
LEMMA DisconnectType ==
    ASSUME TypeOK, NEW b, DisconnectAgent(b)
    PROVE  host' \in [Host -> HostRec]
BY HostRecOps DEF TypeOK, DisconnectAgent

\* createHost and reconnect under a new name add one host to the end of the array.
LEMMA AddNewHostType ==
    ASSUME TypeInv, NEW m, m.sender \in Agent, m.name \in Name, NEW u \in Uuid,
           AddNewHost(m, u)
    PROVE  /\ host' \in [Host -> HostRec]
           /\ next_id' \in 0 .. MaxHosts
           /\ globalHosts' \in SUBSET Host
           /\ agent' \in [Agent -> AgentRec]
           /\ RepliedHasPath'
<1>1. next_id \in Host /\ next_id + 1 \in 0 .. MaxHosts
    BY ConstantsAssumption DEF AddNewHost, TypeInv, TypeOK, Host
<1>2. NewHost(m, u) \in HostRec
    BY LookupType DEF NewHost, NoHost, HostRec, TypeInv
<1>3. host' \in [Host -> HostRec]
    BY <1>2 DEF AddNewHost, TypeInv, TypeOK
<1>4. agent' \in [Agent -> AgentRec] /\ RepliedHasPath'
    BY <1>1, ReplyType DEF AddNewHost
<1> QED
    BY <1>1, <1>3, <1>4 DEF AddNewHost, TypeInv, TypeOK

\* A refused registration ends the agent and changes nothing on the master.
LEMMA RefuseCallType ==
    ASSUME TypeInv, NEW m, m.sender \in Agent, RefuseCall(m)
    PROVE  /\ host' \in [Host -> HostRec]
           /\ next_id' \in 0 .. MaxHosts
           /\ globalHosts' \in SUBSET Host
           /\ agent' \in [Agent -> AgentRec]
           /\ RepliedHasPath'
BY ReplyType DEF RefuseCall, TypeInv, TypeOK

\* reconnect of an existing host keeps the types.
LEMMA ReconnectExistingType ==
    ASSUME TypeInv, NEW m, m.sender \in Agent, m.uuid \in Uuid \cup {None},
           NEW h \in Host, ReconnectExisting(m, h)
    PROVE  /\ host' \in [Host -> HostRec]
           /\ next_id' \in 0 .. MaxHosts
           /\ globalHosts' \in SUBSET Host
           /\ agent' \in [Agent -> AgentRec]
           /\ RepliedHasPath'
<1> DEFINE takeover == /\ m.uuid # None
                       /\ host[h].uuid = m.uuid
                       /\ host[h].agent_bus_name # None
           rec == IF takeover THEN agent_disconnected(host[h]) ELSE host[h]
           U == IF m.uuid = None THEN FreshUuid ELSE {m.uuid}
<1>1. rec \in HostRec
    BY HostRecOps DEF TypeInv, TypeOK
<1>2. U \subseteq Uuid
    BY DEF FreshUuid
<1>3. CASE rec.agent_bus_name # None
    BY <1>3, RefuseCallType DEF ReconnectExisting
<1>4. CASE rec.agent_bus_name = None
    <2>1. PICK u \in U : host' = [host EXCEPT ![h] =
             [rec EXCEPT !.uuid = u,
                         !.agent_bus_name = lookup_wellknown_bus_name(m.sender)]]
        BY <1>4, Zenon DEF ReconnectExisting
    <2>2. [rec EXCEPT !.uuid = u,
                      !.agent_bus_name = lookup_wellknown_bus_name(m.sender)] \in HostRec
        <3> HIDE DEF rec, U
        <3> QED
            BY <1>1, <1>2, LookupType DEF HostRec, TypeInv
    <2>3. host' \in [Host -> HostRec]
        <3> HIDE DEF rec
        <3> QED
            BY <2>1, <2>2 DEF TypeInv, TypeOK
    <2>4. Reply(m.sender, h) /\ UNCHANGED <<globalHosts, next_id>>
        BY <1>4 DEF ReconnectExisting
    <2> QED
        BY <2>3, <2>4, ReplyType DEF TypeInv, TypeOK
<1> QED
    BY <1>3, <1>4

\* Host.shutdown of any set of hosts keeps the types.
LEMMA StopHostsType ==
    ASSUME TypeInv, NEW S, StopHosts(S)
    PROVE  TypeInv'
<1>1. host' \in [Host -> HostRec]
    BY HostRecOps DEF StopHosts, TypeInv, TypeOK
<1>2. agent' \in [Agent -> AgentRec] /\ RepliedHasPath'
    BY DEF StopHosts, TypeInv, TypeOK, RepliedHasPath, AgentRec, AgentPc
<1> QED
    BY <1>1, <1>2 DEF StopHosts, TypeInv, TypeOK

\* The steps of agents and bus daemon.
LEMMA AgentStepType ==
    ASSUME TypeInv, AgentNext
    PROVE  TypeInv'
<1>0. PICK a \in Agent : \/ AgentStart(a) \/ AgentRegister(a) \/ AgentSetup(a)
                         \/ AgentPublish(a) \/ AgentReady(a) \/ AgentStop(a)
                         \/ AgentCrash(a) \/ BusNoticesExit(a)
    BY DEF AgentNext
<1> USE DEF TypeInv, TypeOK
<1> DEFINE m == MachineOf[a]
<1>a. m \in Machine /\ HostnameOf[m] \in Name /\ stateFile[m] \in Uuid \cup {None}
    BY ConstantsAssumption
<1>1. CASE AgentStart(a)
    <2>1. agent' \in [Agent -> AgentRec] /\ RepliedHasPath'
        BY <1>1, SetPcType DEF AgentStart, AgentPc
    <2>2. PICK w \in BusName :
             /\ busOwner' = [busOwner EXCEPT ![w] = a]
             /\ \/ Send([type |-> "NameOwnerChanged", name |-> w, owner |-> a])
                \/ UNCHANGED masterq
        BY <1>1 DEF AgentStart
    <2>3. [type |-> "NameOwnerChanged", name |-> w, owner |-> a] \in Message
        BY DEF Message
    <2>4. masterq' \in Seq(Message)
        BY <2>2, <2>3, SendType
    <2> QED
        BY <1>1, <2>1, <2>2, <2>4 DEF AgentStart, masterVars
<1>2. CASE AgentRegister(a)
    <2>1. agent' \in [Agent -> AgentRec] /\ RepliedHasPath'
        BY <1>2, SetPcType DEF AgentRegister, AgentPc
    <2>2. /\ [type |-> "reconnect", sender |-> a, name |-> HostnameOf[m],
              uuid |-> stateFile[m]] \in Message
          /\ [type |-> "createHost", sender |-> a, name |-> HostnameOf[m],
              uuid |-> None] \in Message
        BY <1>a DEF Message
    <2>3. PICK msg \in Message : Send(msg)
        BY <1>2, <2>2 DEF AgentRegister
    <2>4. masterq' \in Seq(Message)
        BY <2>3, SendType
    <2> QED
        BY <1>2, <2>1, <2>4 DEF AgentRegister, masterVars
<1>3. CASE AgentSetup(a)
    <2>1. agent' \in [Agent -> AgentRec] /\ RepliedHasPath'
        BY <1>3, SetPcType DEF AgentSetup, AgentPc
    <2>2. agent[a].path \in Host
        BY <1>3 DEF AgentSetup, RepliedHasPath
    <2>3. host[agent[a].path].uuid \in Uuid \cup {None}
        BY <2>2 DEF HostRec
    <2>4. stateFile' \in [Machine -> Uuid \cup {None}]
        BY <1>3, <1>a, <2>3 DEF AgentSetup
    <2> QED
        BY <1>3, <2>1, <2>4 DEF AgentSetup, masterVars
<1>4. CASE AgentPublish(a)
    <2>1. agent' \in [Agent -> AgentRec] /\ RepliedHasPath'
        BY <1>4, SetPcType DEF AgentPublish, AgentPc
    <2>2. [type |-> "publish", sender |-> a] \in Message
        BY DEF Message
    <2>3. masterq' \in Seq(Message)
        BY <1>4, <2>2, SendType, Zenon DEF AgentPublish
    <2> QED
        BY <1>4, <2>1, <2>3 DEF AgentPublish, masterVars
<1>5. CASE AgentReady(a)
    <2>1. agent' \in [Agent -> AgentRec] /\ RepliedHasPath'
        BY <1>5, SetPcType DEF AgentReady, AgentPc
    <2>2. [type |-> "ready", sender |-> a] \in Message
        BY DEF Message
    <2>3. masterq' \in Seq(Message)
        BY <1>5, <2>2, SendType, Zenon DEF AgentReady
    <2> QED
        BY <1>5, <2>1, <2>3 DEF AgentReady, masterVars
<1>6. CASE AgentStop(a) \/ AgentCrash(a)
    <2>1. agent' \in [Agent -> AgentRec] /\ RepliedHasPath'
        BY <1>6, SetPcType DEF AgentStop, AgentCrash, AgentPc
    <2> QED
        BY <1>6, <2>1 DEF AgentStop, AgentCrash, masterVars
<1>7. CASE BusNoticesExit(a)
    <2>1. agent' \in [Agent -> AgentRec] /\ RepliedHasPath'
        BY <1>7, SetPcType DEF BusNoticesExit, AgentPc
    <2>2. PICK w \in BusName :
             /\ busOwner' = [busOwner EXCEPT ![w] = None]
             /\ masterq' = masterq \o
                   <<[type |-> "NameOwnerChanged", name |-> w, owner |-> None],
                     [type |-> "UniqueNameLost", name |-> a]>>
        BY <1>7 DEF BusNoticesExit
    <2>3. /\ [type |-> "NameOwnerChanged", name |-> w, owner |-> None] \in Message
          /\ [type |-> "UniqueNameLost", name |-> a] \in Message
        BY DEF Message
    <2>4. masterq' \in Seq(Message)
        BY <2>2, <2>3, ConcatProperties
    <2> QED
        BY <1>7, <2>1, <2>2, <2>4 DEF BusNoticesExit, masterVars
<1> QED
    BY <1>0, <1>1, <1>2, <1>3, <1>4, <1>5, <1>6, <1>7

\* The handlers of the master.
LEMMA MasterStepType ==
    ASSUME TypeInv, MasterNext
    PROVE  TypeInv'
<1> USE DEF TypeInv, TypeOK
<1> DEFINE m == Head(masterq)
<1>1. CASE HandleNameOwnerChanged
    <2>1. m.name \in BusName /\ m.owner \in Agent \cup {None} /\ masterq' \in Seq(Message)
        BY <1>1, ReceiveType, MessageFields DEF HandleNameOwnerChanged
    <2>2. host' \in [Host -> HostRec]
        BY <1>1, DisconnectType DEF HandleNameOwnerChanged
    <2>3. mapping' \in [BusName -> Agent \cup {None}]
        BY <1>1, <2>1 DEF HandleNameOwnerChanged
    <2> QED
        BY <1>1, <2>1, <2>2, <2>3 DEF HandleNameOwnerChanged, RepliedHasPath
<1>2. CASE HandleUniqueNameLost
    <2>1. masterq' \in Seq(Message) /\ host' \in [Host -> HostRec]
        BY <1>2, ReceiveType, DisconnectType DEF HandleUniqueNameLost
    <2> QED
        BY <1>2, <2>1 DEF HandleUniqueNameLost, RepliedHasPath
<1>3. CASE HandleCreateHost
    <2>1. /\ m.sender \in Agent /\ m.name \in Name /\ m.uuid \in Uuid \cup {None}
          /\ masterq' \in Seq(Message)
        BY <1>3, ReceiveType, MessageFields DEF HandleCreateHost
    <2>2. CASE RefuseCall(m)
        BY <1>3, <2>1, <2>2, RefuseCallType DEF HandleCreateHost
    <2>3. CASE \E u \in FreshUuid : AddNewHost(m, u)
        <3>1. PICK u \in FreshUuid : AddNewHost(m, u)
            BY <2>3
        <3>2. u \in Uuid
            BY DEF FreshUuid
        <3> QED
            BY <1>3, <2>1, <3>1, <3>2, AddNewHostType DEF HandleCreateHost
    <2> QED
        BY <1>3, <2>2, <2>3 DEF HandleCreateHost
<1>4. CASE HandleReconnect
    <2> DEFINE h == get_host_by_name(m.name)
               U == IF m.uuid = None THEN FreshUuid ELSE {m.uuid}
    <2>1. /\ m.sender \in Agent /\ m.name \in Name /\ m.uuid \in Uuid \cup {None}
          /\ masterq' \in Seq(Message)
        BY <1>4, ReceiveType, MessageFields DEF HandleReconnect
    <2>2. CASE h # None
        <3>1. h \in Host
            BY <2>2, FirstType DEF get_host_by_name
        <3>2. ReconnectExisting(m, h)
            BY <1>4, <2>2 DEF HandleReconnect
        <3> QED
            BY <1>4, <2>1, <3>1, <3>2, ReconnectExistingType DEF HandleReconnect
    <2>3. CASE h = None
        <3>1. PICK u \in U : AddNewHost(m, u)
            BY <1>4, <2>3 DEF HandleReconnect
        <3>2. u \in Uuid
            BY <2>1 DEF FreshUuid
        <3> QED
            BY <1>4, <2>1, <3>1, <3>2, AddNewHostType DEF HandleReconnect
    <2> QED
        BY <2>2, <2>3
<1>5. CASE HandlePublish
    <2> DEFINE a == m.sender
    <2>1. a \in Agent /\ masterq' \in Seq(Message)
        BY <1>5, ReceiveType, MessageFields DEF HandlePublish
    <2>2. \/ UNCHANGED host
          \/ host' = [host EXCEPT ![agent[a].path].capabilities = TRUE]
        BY <1>5 DEF HandlePublish
    <2>3. host' \in [Host -> HostRec]
        <3>1. \A rec \in HostRec : [rec EXCEPT !.capabilities = TRUE] \in HostRec
            BY DEF HostRec
        <3>2. CASE host' = [host EXCEPT ![agent[a].path].capabilities = TRUE]
            <4> DEFINE p == agent[a].path
            <4>1. host' = [x \in Host |-> IF x = p THEN [host[x] EXCEPT !.capabilities = TRUE]
                                          ELSE host[x]]
                BY <3>2, Zenon
            <4> HIDE DEF p
            <4> QED
                BY <3>1, <4>1, Zenon
        <3> QED
            BY <2>2, <3>2
    <2>4. \/ UNCHANGED agent
          \/ agent' = [agent EXCEPT ![a].pc = "published"]
          \/ agent' = [agent EXCEPT ![a].pc = "dead"]
        BY <1>5 DEF HandlePublish
    <2>5. UNCHANGED agent \/ \E pc \in AgentPc \ {"replied"} : SetPc(a, pc)
        BY <2>4 DEF SetPc, AgentPc
    <2>6. agent' \in [Agent -> AgentRec] /\ RepliedHasPath'
        BY <2>1, <2>5, SetPcType DEF RepliedHasPath
    <2> QED
        BY <1>5, <2>1, <2>3, <2>6 DEF HandlePublish
<1>6. CASE HandleReady
    <2>1. masterq' \in Seq(Message)
        BY <1>6, ReceiveType DEF HandleReady
    <2>2. host' \in [Host -> HostRec]
        BY <1>6, HostRecOps DEF HandleReady
    <2> QED
        BY <1>6, <2>1, <2>2 DEF HandleReady, RepliedHasPath
<1> QED
    BY <1>1, <1>2, <1>3, <1>4, <1>5, <1>6 DEF MasterNext

\* The calls of clients.
LEMMA ClientStepType ==
    ASSUME TypeInv, ClientNext
    PROVE  TypeInv'
<1> USE DEF TypeInv, TypeOK, RepliedHasPath
<1>1. ASSUME NEW h \in Host, HostShutdown(h)
      PROVE  TypeInv'
    BY <1>1, StopHostsType DEF HostShutdown
<1>2. CASE HostlistShutdown
    BY <1>2, StopHostsType DEF HostlistShutdown
<1>3. ASSUME NEW t \in Test, HostsetShutdown(t)
      PROVE  TypeInv'
    BY <1>3, StopHostsType DEF HostsetShutdown
<1>4. ASSUME NEW h \in Host, DeleteHost(h)
      PROVE  TypeInv'
    <2>1. host_put(host_destroy(host[h]), ~Claimed(h)) \in HostRec
        BY HostRecOps DEF Claimed
    <2> QED
        BY <1>4, <2>1 DEF DeleteHost
<1>5. ASSUME NEW t \in Test, DeleteTest(t)
      PROVE  TypeInv'
    <2> DEFINE released(h) ==
                  IF host[h].owner = t THEN host_release(host[h]) ELSE host[h]
    <2>1. \A h \in Host : released(h) \in HostRec
        BY HostRecOps
    <2>2. \A h \in Host :
             host_put([released(h) EXCEPT !.parent = None], h \notin globalHosts) \in HostRec
        <3> HIDE DEF released
        <3> QED
            BY <2>1, HostRecOps
    <2>3. host' = [h \in Host |->
              IF h \in HostsOf(t)
              THEN host_put([released(h) EXCEPT !.parent = None], h \notin globalHosts)
              ELSE released(h)]
        BY <1>5 DEF DeleteTest
    <2>4. host' \in [Host -> HostRec]
        <3> HIDE DEF released
        <3> QED
            BY <2>1, <2>2, <2>3
    <2>5. testHosts' \in [Test -> Seq(Host)]
        BY <1>5 DEF DeleteTest
    <2> QED
        BY <1>5, <2>4, <2>5 DEF DeleteTest
<1>6. ASSUME NEW t \in Test, NEW r \in Role, NEW h \in Host, AddHost(t, r, h)
      PROVE  TypeInv'
    <2>1. set_role(host[h], r, t) \in HostRec
        BY HostRecOps
    <2>2. Append(testHosts[t], h) \in Seq(Host)
        BY AppendProperties
    <2> QED
        BY <1>6, <2>1, <2>2 DEF AddHost
<1>7. ASSUME NEW n \in Name, RemoveHost(n)
      PROVE  TypeInv'
    <2> DEFINE h == get_host_by_name(n)
    <2>1. h \in Host
        BY <1>7, FirstType DEF RemoveHost, get_host_by_name
    <2>2. host_put([host[h] EXCEPT !.parent = None], ~Claimed(h)) \in HostRec
        <3> HIDE DEF h
        <3> QED
            BY <2>1, HostRecOps DEF Claimed
    <2> QED
        BY <1>7, <2>1, <2>2 DEF RemoveHost
<1> QED
    BY <1>1, <1>2, <1>3, <1>4, <1>5, <1>6, <1>7 DEF ClientNext

\* Every variable keeps its type, for every number of agents, hosts and tests.
THEOREM TypeCorrect == Spec => []TypeOK
<1>1. Init => TypeInv
    BY ConstantsAssumption
       DEF Init, TypeInv, TypeOK, RepliedHasPath, AgentRec, AgentPc, HostRec, NoHost, Host
<1>2. TypeInv /\ [Next]_vars => TypeInv'
    <2> SUFFICES ASSUME TypeInv, [Next]_vars
                 PROVE  TypeInv'
        OBVIOUS
    <2>1. CASE UNCHANGED vars
        BY <2>1 DEF vars, TypeInv, TypeOK, RepliedHasPath
    <2> QED
        BY <2>1, AgentStepType, MasterStepType, ClientStepType DEF Next
<1>3. TypeInv => TypeOK
    BY DEF TypeInv
<1> QED
    BY <1>1, <1>2, <1>3, PTL DEF Spec

-----------------------------------------------------------------------------
(* A host that is ready has an agent.  ReadyHasAgent is inductive once the *)
(* types are known: it is a statement about each host record (RecOK), and  *)
(* every operation on a record preserves it.                               *)

RecOK(rec) == rec.registered /\ rec.ready => rec.agent_bus_name # None

\* The operations on a host record that clear the bus name clear the ready flag or unregister.
LEMMA RecOKOps ==
    ASSUME NEW rec \in HostRec, RecOK(rec)
    PROVE  /\ RecOK(agent_disconnected(rec))
           /\ rec.agent_bus_name # None => RecOK(agent_ready(rec))
           /\ RecOK(host_release(rec))
           /\ RecOK(host_destroy(rec))
           /\ RecOK([rec EXCEPT !.parent = None])
           /\ RecOK([rec EXCEPT !.capabilities = TRUE])
           /\ \A r, t : RecOK(set_role(rec, r, t))
           /\ \A last : RecOK(host_put(rec, last))
<1>1. /\ RecOK(agent_disconnected(rec))
      /\ rec.agent_bus_name # None => RecOK(agent_ready(rec))
      /\ RecOK(host_release(rec))
      /\ RecOK([rec EXCEPT !.parent = None])
      /\ RecOK([rec EXCEPT !.capabilities = TRUE])
    BY DEF RecOK, HostRec, agent_disconnected, agent_ready, host_release
<1>2. \A r, t : RecOK(set_role(rec, r, t))
    BY DEF RecOK, HostRec, set_role
<1>3. RecOK(host_destroy(rec)) /\ RecOK(host_destroy([rec EXCEPT !.owner = None]))
    BY DEF RecOK, HostRec, host_destroy
<1> QED
    BY <1>1, <1>2, <1>3 DEF host_put

\* The bus name recorded for the sender of a message is not NULL.
LEMMA LookupNotNone ==
    ASSUME TypeOK, NEW a \in Agent
    PROVE  lookup_wellknown_bus_name(a) # None
BY LookupType, ConstantsAssumption

\* A new host is not ready.
LEMMA AddNewHostReady ==
    ASSUME TypeOK, ReadyHasAgent, NEW m, NEW u, AddNewHost(m, u)
    PROVE  ReadyHasAgent'
<1>1. RecOK(NewHost(m, u))
    BY DEF RecOK, NewHost, NoHost
<1> QED
    BY <1>1 DEF AddNewHost, ReadyHasAgent, TypeOK, RecOK

\* A host taken over by a reconnecting agent has that agent's bus name.
LEMMA ReconnectReady ==
    ASSUME TypeOK, ReadyHasAgent, NEW m, m.sender \in Agent, NEW h \in Host,
           ReconnectExisting(m, h)
    PROVE  ReadyHasAgent'
<1> DEFINE takeover == /\ m.uuid # None
                       /\ host[h].uuid = m.uuid
                       /\ host[h].agent_bus_name # None
           rec == IF takeover THEN agent_disconnected(host[h]) ELSE host[h]
           b == lookup_wellknown_bus_name(m.sender)
<1>1. CASE rec.agent_bus_name # None
    BY <1>1 DEF ReconnectExisting, RefuseCall, ReadyHasAgent
<1>2. CASE rec.agent_bus_name = None
    <2>1. PICK u : host' = [host EXCEPT ![h] = [rec EXCEPT !.uuid = u, !.agent_bus_name = b]]
        BY <1>2, Zenon DEF ReconnectExisting
    <2>2. rec \in HostRec
        BY HostRecOps DEF TypeOK
    <2>3. b # None
        BY LookupNotNone
    <2>4. [rec EXCEPT !.uuid = u, !.agent_bus_name = b].agent_bus_name = b
        <3> HIDE DEF rec, b
        <3> QED
            BY <2>2 DEF HostRec
    <2> HIDE DEF rec, b
    <2> QED
        BY <2>1, <2>3, <2>4 DEF ReadyHasAgent, TypeOK
<1> QED
    BY <1>1, <1>2

\* No handler of the master leaves a ready host without an agent.
LEMMA MasterStepReady ==
    ASSUME TypeOK, ReadyHasAgent, MasterNext
    PROVE  ReadyHasAgent'
<1> DEFINE m == Head(masterq)
<1>0. \A h \in Host : host[h] \in HostRec /\ RecOK(host[h])
    BY DEF TypeOK, ReadyHasAgent, RecOK
<1>a. ASSUME NEW b, DisconnectAgent(b)
      PROVE  ReadyHasAgent'
    <2>1. \A h \in Host : RecOK(agent_disconnected(host[h]))
        BY <1>0, RecOKOps
    <2>2. \A h \in Host : RecOK(host'[h])
        BY <1>0, <1>a, <2>1 DEF DisconnectAgent, TypeOK
    <2> QED
        BY <2>2 DEF ReadyHasAgent, RecOK
<1>1. CASE HandleNameOwnerChanged
    BY <1>1, <1>a DEF HandleNameOwnerChanged, ReadyHasAgent
<1>2. CASE HandleUniqueNameLost
    BY <1>2, <1>a DEF HandleUniqueNameLost
<1>3. CASE HandleCreateHost
    BY <1>3, AddNewHostReady DEF HandleCreateHost, RefuseCall, ReadyHasAgent
<1>4. CASE HandleReconnect
    <2>1. m.sender \in Agent
        BY <1>4, ReceiveType, MessageFields DEF HandleReconnect
    <2>2. get_host_by_name(m.name) # None => get_host_by_name(m.name) \in Host
        BY FirstType DEF get_host_by_name, TypeOK
    <2> QED
        BY <1>4, <2>1, <2>2, AddNewHostReady, ReconnectReady DEF HandleReconnect
<1>5. CASE HandlePublish
    <2> DEFINE p == agent[m.sender].path
    <2>1. UNCHANGED host \/ host' = [host EXCEPT ![p].capabilities = TRUE]
        BY <1>5 DEF HandlePublish
    <2>2. \A h \in Host : RecOK([host[h] EXCEPT !.capabilities = TRUE])
        BY <1>0, RecOKOps
    <2>3. \A h \in Host : RecOK(host'[h])
        <3> HIDE DEF p
        <3> QED
            BY <1>0, <2>1, <2>2 DEF TypeOK
    <2> QED
        BY <2>3 DEF ReadyHasAgent, RecOK
<1>6. CASE HandleReady
    <2> DEFINE b == lookup_wellknown_bus_name(m.sender)
               g == find_agent_host(b)
    <2>1. b # None
        BY <1>6, ReceiveType, MessageFields, LookupNotNone DEF HandleReady
    <2>2. g # None => g \in Host /\ host[g].agent_bus_name = b
        <3> HIDE DEF b
        <3>1. {h \in globalHosts : host[h].agent_bus_name = b} \in SUBSET Host
            BY DEF TypeOK
        <3> QED
            BY <3>1, FirstType DEF find_agent_host
    <2>3. host' = IF g = None THEN host ELSE [host EXCEPT ![g] = agent_ready(@)]
        BY <1>6 DEF HandleReady
    <2>4. \A h \in Host : RecOK(host'[h])
        <3> HIDE DEF b, g
        <3> QED
            BY <1>0, <2>1, <2>2, <2>3, RecOKOps DEF TypeOK
    <2> QED
        BY <2>4 DEF ReadyHasAgent, RecOK
<1> QED
    BY <1>1, <1>2, <1>3, <1>4, <1>5, <1>6 DEF MasterNext

\* No call of a client leaves a ready host without an agent.
LEMMA ClientStepReady ==
    ASSUME TypeOK, ReadyHasAgent, ClientNext
    PROVE  ReadyHasAgent'
<1>0. \A h \in Host : host[h] \in HostRec /\ RecOK(host[h])
    BY DEF TypeOK, ReadyHasAgent, RecOK
<1>a. ASSUME \A h \in Host : RecOK(host'[h])
      PROVE  ReadyHasAgent'
    BY <1>a DEF ReadyHasAgent, RecOK
<1>b. ASSUME NEW S, StopHosts(S)
      PROVE  ReadyHasAgent'
    BY <1>0, <1>a, <1>b, RecOKOps DEF StopHosts
<1>1. ASSUME NEW h \in Host, HostShutdown(h)
      PROVE  ReadyHasAgent'
    BY <1>1, <1>b DEF HostShutdown
<1>2. CASE HostlistShutdown
    BY <1>2, <1>b DEF HostlistShutdown
<1>3. ASSUME NEW t \in Test, HostsetShutdown(t)
      PROVE  ReadyHasAgent'
    BY <1>3, <1>b DEF HostsetShutdown
<1>4. ASSUME NEW h \in Host, DeleteHost(h)
      PROVE  ReadyHasAgent'
    <2>1. RecOK(host_put(host_destroy(host[h]), ~Claimed(h)))
        BY <1>0, HostRecOps, RecOKOps
    <2>2. host' = [host EXCEPT ![h] = host_put(host_destroy(host[h]), ~Claimed(h))]
        BY <1>4 DEF DeleteHost
    <2>3. \A g \in Host : RecOK(host'[g])
        BY <1>0, <2>1, <2>2 DEF TypeOK
    <2> QED
        BY <1>a, <2>3
<1>5. ASSUME NEW t \in Test, DeleteTest(t)
      PROVE  ReadyHasAgent'
    <2> DEFINE released(h) ==
                  IF host[h].owner = t THEN host_release(host[h]) ELSE host[h]
               orphan(h) == [released(h) EXCEPT !.parent = None]
    <2>1. \A h \in Host : released(h) \in HostRec /\ RecOK(released(h))
        BY <1>0, HostRecOps, RecOKOps
    <2>2. \A h \in Host : orphan(h) \in HostRec /\ RecOK(orphan(h))
        <3> HIDE DEF released
        <3> QED
            BY <2>1, HostRecOps, RecOKOps
    <2>3. \A h \in Host : RecOK(host_put(orphan(h), h \notin globalHosts))
        <3> HIDE DEF orphan
        <3> QED
            BY <2>2, RecOKOps
    <2>4. host' = [h \in Host |-> IF h \in HostsOf(t)
                                  THEN host_put(orphan(h), h \notin globalHosts)
                                  ELSE released(h)]
        BY <1>5 DEF DeleteTest
    <2>5. \A h \in Host : RecOK(host'[h])
        <3> HIDE DEF released, orphan
        <3> QED
            BY <2>1, <2>3, <2>4
    <2> QED
        BY <1>a, <2>5
<1>6. ASSUME NEW t \in Test, NEW r \in Role, NEW h \in Host, AddHost(t, r, h)
      PROVE  ReadyHasAgent'
    <2>1. \A g \in Host : RecOK(host'[g])
        BY <1>0, <1>6, RecOKOps DEF AddHost, TypeOK
    <2> QED
        BY <1>a, <2>1
<1>7. ASSUME NEW n \in Name, RemoveHost(n)
      PROVE  ReadyHasAgent'
    <2> DEFINE h == get_host_by_name(n)
    <2>1. \A g \in Host : RecOK(host_put([host[g] EXCEPT !.parent = None], ~Claimed(h)))
        BY <1>0, HostRecOps, RecOKOps
    <2>2. host' = [host EXCEPT ![h] = host_put([@ EXCEPT !.parent = None], ~Claimed(h))]
        BY <1>7 DEF RemoveHost
    <2>3. \A g \in Host : RecOK(host'[g])
        <3> HIDE DEF h
        <3> QED
            BY <1>0, <2>1, <2>2 DEF TypeOK
    <2> QED
        BY <1>a, <2>3
<1> QED
    BY <1>1, <1>2, <1>3, <1>4, <1>5, <1>6, <1>7 DEF ClientNext

\* A host object that clients see as ready always has an agent behind it, so
\* Host.run never schedules a process for nobody.
THEOREM ReadyHostsHaveAgents == Spec => []ReadyHasAgent
<1>1. Init => ReadyHasAgent
    BY DEF Init, ReadyHasAgent, NoHost
<1>2. TypeOK /\ ReadyHasAgent /\ [Next]_vars => ReadyHasAgent'
    <2> SUFFICES ASSUME TypeOK, ReadyHasAgent, [Next]_vars
                 PROVE  ReadyHasAgent'
        OBVIOUS
    <2>1. CASE UNCHANGED vars
        BY <2>1 DEF vars, ReadyHasAgent
    <2>2. CASE AgentNext
        <3>1. UNCHANGED host
            BY <2>2 DEF AgentNext, AgentStart, AgentRegister, AgentSetup, AgentPublish,
                        AgentReady, AgentStop, AgentCrash, BusNoticesExit, masterVars
        <3> QED
            BY <3>1 DEF ReadyHasAgent
    <2> QED
        BY <2>1, <2>2, MasterStepReady, ClientStepReady DEF Next
<1> QED
    BY <1>1, <1>2, TypeCorrect, PTL DEF Spec

-----------------------------------------------------------------------------
(* Claims.  ClaimsConsistent alone is not inductive: a new host object must *)
(* not already be in the array of a test.                                   *)

ClaimedHostsExist ==
    /\ \A h \in Host : host[h].registered => h < next_id
    /\ \A t \in Test : \A h \in HostsOf(t) : h < next_id

ClaimsInv == ClaimsConsistent /\ ClaimedHostsExist

\* The fields of a host record that ClaimsConsistent speaks of.
SameClaim(rec, old) ==
    rec.role = old.role /\ rec.owner = old.owner /\ rec.registered = old.registered

\* A step that leaves every claim alone, or destroys host objects, preserves
\* the invariant.
LEMMA ClaimsFrame ==
    ASSUME TypeOK, ClaimsInv, next_id' \in Nat, next_id' >= next_id,
           UNCHANGED testHosts,
           \A h \in Host : host'[h].registered => SameClaim(host'[h], host[h])
    PROVE  ClaimsInv'
<1>1. \A t \in Test : HostsOf(t)' = HostsOf(t)
    BY DEF HostsOf
<1>2. \A t \in Test : HostsOf(t) \subseteq Host
    BY ElementOfSeq DEF HostsOf, TypeOK
<1>3. ClaimedHostsExist'
    <2>1. next_id \in Nat /\ Host \subseteq Int
        BY ConstantsAssumption DEF TypeOK, Host
    <2>2. \A h \in Host : host'[h].registered => h < next_id'
        BY <2>1 DEF ClaimsInv, ClaimedHostsExist, SameClaim
    <2>3. \A t \in Test : \A h \in HostsOf(t) : h < next_id'
        <3>1. TAKE t \in Test
        <3>4. TAKE h \in HostsOf(t)
        <3>2. h \in Int
            BY <1>2, <2>1
        <3>3. h < next_id
            BY DEF ClaimsInv, ClaimedHostsExist
        <3> QED
            BY <2>1, <3>2, <3>3
    <2>4. \A t \in Test : \A h \in HostsOf(t)' : h < next_id'
        BY <1>1, <2>3
    <2> QED
        BY <2>2, <2>4 DEF ClaimedHostsExist
<1>4. ClaimsConsistent'
    BY <1>1 DEF ClaimsInv, ClaimsConsistent, SameClaim
<1> QED
    BY <1>3, <1>4 DEF ClaimsInv

\* A new host is claimed by nobody.
LEMMA AddNewHostClaims ==
    ASSUME TypeOK, ClaimsInv, NEW m, NEW u, AddNewHost(m, u), UNCHANGED testHosts
    PROVE  ClaimsInv'
<1>1. \A t \in Test : HostsOf(t)' = HostsOf(t)
    BY DEF HostsOf
<1>2. \A t \in Test : HostsOf(t) \subseteq Host
    BY ElementOfSeq DEF HostsOf, TypeOK
<1>3. ClaimedHostsExist'
    BY <1>1, <1>2, ConstantsAssumption
       DEF ClaimsInv, ClaimedHostsExist, TypeOK, Host, AddNewHost
<1>4. \A t \in Test : next_id \notin HostsOf(t)
    BY DEF ClaimsInv, ClaimedHostsExist, TypeOK
<1>5. /\ \A h \in Host \ {next_id} : host'[h] = host[h]
      /\ next_id \in Host => host'[next_id] = NewHost(m, u)
    BY DEF AddNewHost, TypeOK
<1>6. NewHost(m, u).role = None /\ NewHost(m, u).owner = None
    BY DEF NewHost, NoHost
<1>7. \A t \in Test : t # None
    BY ConstantsAssumption
<1>8. ClaimsConsistent'
    <2> SUFFICES ASSUME NEW h \in Host, host'[h].registered
                 PROVE  /\ (host'[h].role # None) <=> (host'[h].owner # None)
                        /\ \A t \in Test : h \in HostsOf(t)' <=> host'[h].owner = t
                        /\ \A g \in Host : /\ g # h /\ host'[g].registered
                                           /\ host'[g].owner = host'[h].owner
                                           /\ host'[h].owner # None
                                          => host'[g].role # host'[h].role
        BY DEF ClaimsConsistent
    <2>1. CASE h = next_id
        BY <1>1, <1>4, <1>5, <1>6, <1>7, <2>1
    <2>2. CASE h # next_id
        BY <1>1, <1>5, <1>6, <2>2 DEF ClaimsInv, ClaimsConsistent
    <2> QED
        BY <2>1, <2>2
<1> QED
    BY <1>3, <1>8 DEF ClaimsInv

\* The handlers of the master leave the claims alone.
LEMMA MasterStepClaims ==
    ASSUME TypeOK, ClaimsInv, MasterNext
    PROVE  ClaimsInv'
<1> DEFINE m == Head(masterq)
<1>0. next_id \in Nat /\ \A h \in Host : host[h] \in HostRec
    BY ConstantsAssumption DEF TypeOK
<1>a. ASSUME NEW b, DisconnectAgent(b)
      PROVE  \A h \in Host : SameClaim(host'[h], host[h])
    BY <1>0, <1>a DEF DisconnectAgent, agent_disconnected, SameClaim, TypeOK, HostRec
<1>1. CASE HandleNameOwnerChanged
    <2>1. \A h \in Host : SameClaim(host'[h], host[h])
        BY <1>1, <1>a DEF HandleNameOwnerChanged, SameClaim
    <2> QED
        BY <1>0, <1>1, <2>1, ClaimsFrame DEF HandleNameOwnerChanged
<1>2. CASE HandleUniqueNameLost
    BY <1>0, <1>2, <1>a, ClaimsFrame DEF HandleUniqueNameLost
<1>b. ASSUME RefuseCall(m), UNCHANGED testHosts
      PROVE  ClaimsInv'
    BY <1>0, <1>b, ClaimsFrame DEF RefuseCall, SameClaim
<1>3. CASE HandleCreateHost
    BY <1>3, <1>b, AddNewHostClaims DEF HandleCreateHost
<1>4. CASE HandleReconnect
    <2> DEFINE h == get_host_by_name(m.name)
    <2>1. CASE h = None
        BY <1>4, <2>1, AddNewHostClaims DEF HandleReconnect
    <2>2. CASE h # None
        <3> DEFINE takeover == /\ m.uuid # None
                               /\ host[h].uuid = m.uuid
                               /\ host[h].agent_bus_name # None
                   rec == IF takeover THEN agent_disconnected(host[h]) ELSE host[h]
                   b == lookup_wellknown_bus_name(m.sender)
        <3>1. ReconnectExisting(m, h) /\ UNCHANGED testHosts
            BY <1>4, <2>2 DEF HandleReconnect
        <3>2. CASE rec.agent_bus_name # None
            BY <1>b, <3>1, <3>2 DEF ReconnectExisting
        <3>3. CASE rec.agent_bus_name = None
            <4>1. h \in Host
                BY <2>2, FirstType DEF get_host_by_name, TypeOK
            <4>2. PICK u : host' = [host EXCEPT ![h] =
                                       [rec EXCEPT !.uuid = u, !.agent_bus_name = b]]
                BY <3>1, <3>3, Zenon DEF ReconnectExisting
            <4>3. UNCHANGED next_id
                BY <3>1, <3>3 DEF ReconnectExisting
            <4>4. rec \in HostRec
                BY <1>0, <4>1, HostRecOps
            <4>5. SameClaim(rec, host[h])
                BY <1>0, <4>1 DEF SameClaim, agent_disconnected, HostRec
            <4>6. \A g \in Host : SameClaim(host'[g], host[g])
                <5> HIDE DEF rec, b, h
                <5>1. SameClaim([rec EXCEPT !.uuid = u, !.agent_bus_name = b], host[h])
                    BY <4>4, <4>5 DEF SameClaim, HostRec
                <5> QED
                    BY <4>2, <5>1 DEF SameClaim, TypeOK
            <4> QED
                BY <1>0, <3>1, <4>3, <4>6, ClaimsFrame
        <3> QED
            BY <3>2, <3>3
    <2> QED
        BY <2>1, <2>2
<1>5. CASE HandlePublish
    <2> DEFINE p == agent[m.sender].path
    <2>1. UNCHANGED host \/ host' = [host EXCEPT ![p].capabilities = TRUE]
        BY <1>5 DEF HandlePublish
    <2>2. \A h \in Host : SameClaim(host'[h], host[h])
        <3>1. \A h \in Host :
                 SameClaim([host[h] EXCEPT !.capabilities = TRUE], host[h])
            BY <1>0 DEF SameClaim, HostRec
        <3>2. \A h \in Host : SameClaim(host[h], host[h])
            BY DEF SameClaim
        <3> HIDE DEF p
        <3> QED
            BY <2>1, <3>1, <3>2 DEF TypeOK
    <2> QED
        BY <1>0, <1>5, <2>2, ClaimsFrame DEF HandlePublish
<1>6. CASE HandleReady
    <2>1. \A h \in Host : SameClaim(agent_ready(host[h]), host[h])
        BY <1>0 DEF SameClaim, agent_ready, HostRec
    <2>2. \A h \in Host : SameClaim(host'[h], host[h])
        BY <1>0, <1>6, <2>1 DEF HandleReady, SameClaim, TypeOK
    <2> QED
        BY <1>0, <1>6, <2>2, ClaimsFrame DEF HandleReady
<1> QED
    BY <1>1, <1>2, <1>3, <1>4, <1>5, <1>6 DEF MasterNext

\* Claiming, releasing, removing and deleting keep role, owner and arrays in agreement.
LEMMA ClientStepClaims ==
    ASSUME TypeOK, ClaimsInv, ClientNext
    PROVE  ClaimsInv'
<1>0. next_id \in Nat /\ \A h \in Host : host[h] \in HostRec
    BY ConstantsAssumption DEF TypeOK
<1>a. ASSUME NEW S, StopHosts(S)
      PROVE  ClaimsInv'
    <2>1. \A h \in Host : SameClaim(agent_disconnected(host[h]), host[h])
        BY <1>0 DEF SameClaim, agent_disconnected, HostRec
    <2>2. \A h \in Host : SameClaim(host'[h], host[h])
        BY <1>a, <2>1 DEF StopHosts, SameClaim
    <2> QED
        BY <1>0, <1>a, <2>2, ClaimsFrame DEF StopHosts
<1>1. ASSUME NEW h \in Host, HostShutdown(h)
      PROVE  ClaimsInv'
    BY <1>1, <1>a DEF HostShutdown
<1>2. CASE HostlistShutdown
    BY <1>2, <1>a DEF HostlistShutdown
<1>3. ASSUME NEW t \in Test, HostsetShutdown(t)
      PROVE  ClaimsInv'
    BY <1>3, <1>a DEF HostsetShutdown
\* host_put keeps the claim of a host object or destroys the object.
<1>b. ASSUME NEW rec \in HostRec, NEW last
      PROVE  host_put(rec, last).registered => SameClaim(host_put(rec, last), rec)
    BY <1>b DEF host_put, host_destroy, SameClaim, HostRec
<1>4. ASSUME NEW h \in Host, DeleteHost(h)
      PROVE  ClaimsInv'
    <2>1. host_put(host_destroy(host[h]), ~Claimed(h)).registered = FALSE
        BY <1>0 DEF host_put, host_destroy, HostRec
    <2>2. host' = [host EXCEPT ![h] = host_put(host_destroy(host[h]), ~Claimed(h))]
        BY <1>4 DEF DeleteHost
    <2>3. \A g \in Host : host'[g].registered => SameClaim(host'[g], host[g])
        BY <2>1, <2>2 DEF SameClaim, TypeOK
    <2> QED
        BY <1>0, <1>4, <2>3, ClaimsFrame DEF DeleteHost
<1>5. ASSUME NEW n \in Name, RemoveHost(n)
      PROVE  ClaimsInv'
    <2> DEFINE h == get_host_by_name(n)
               orphan == [host[h] EXCEPT !.parent = None]
    <2>1. h \in Host
        BY <1>5, FirstType DEF RemoveHost, get_host_by_name, TypeOK
    <2>2. orphan \in HostRec /\ SameClaim(orphan, host[h])
        <3> HIDE DEF h
        <3> QED
            BY <1>0, <2>1, HostRecOps DEF SameClaim, HostRec
    <2>3. host_put(orphan, ~Claimed(h)).registered
              => SameClaim(host_put(orphan, ~Claimed(h)), host[h])
        <3> HIDE DEF h, orphan
        <3> QED
            BY <1>b, <2>2 DEF SameClaim
    <2>4. host' = [host EXCEPT ![h] = host_put(orphan, ~Claimed(h))]
        BY <1>5 DEF RemoveHost
    <2>5. \A g \in Host : host'[g].registered => SameClaim(host'[g], host[g])
        <3> HIDE DEF h, orphan
        <3> QED
            BY <2>3, <2>4 DEF SameClaim, TypeOK
    <2> QED
        BY <1>0, <1>5, <2>5, ClaimsFrame DEF RemoveHost
<1>6. ASSUME NEW t \in Test, NEW r \in Role, NEW h \in Host, AddHost(t, r, h)
      PROVE  ClaimsInv'
    <2>1. /\ host' = [host EXCEPT ![h] = set_role(host[h], r, t)]
          /\ testHosts' = [testHosts EXCEPT ![t] = Append(testHosts[t], h)]
          /\ UNCHANGED next_id
        BY <1>6 DEF AddHost
    <2>2. t # None /\ r # None
        BY ConstantsAssumption
    <2>3. /\ set_role(host[h], r, t).role = r /\ set_role(host[h], r, t).owner = t
          /\ set_role(host[h], r, t).registered = host[h].registered
        BY <1>0 DEF set_role, HostRec
    <2>4. /\ host'[h].role = r /\ host'[h].owner = t
          /\ host'[h].registered = host[h].registered
          /\ \A g \in Host \ {h} : host'[g] = host[g]
        BY <2>1, <2>3 DEF TypeOK
    <2>5. HostsOf(t)' = HostsOf(t) \cup {h}
        <3> DEFINE s == testHosts[t]
                   n == Append(s, h)
        <3>1. s \in Seq(Host) /\ testHosts'[t] = n
            BY <2>1 DEF TypeOK
        <3>2. /\ DOMAIN s = 1 .. Len(s) /\ Len(s) \in Nat
              /\ DOMAIN n = 1 .. (Len(s) + 1)
              /\ \A i \in 1 .. Len(s) : n[i] = s[i]
              /\ n[Len(s) + 1] = h
            BY <3>1, AppendProperties, LenProperties
        <3>3. HostsOf(t) = {s[i] : i \in DOMAIN s} /\ HostsOf(t)' = {n[i] : i \in DOMAIN n}
            BY <3>1 DEF HostsOf
        <3> HIDE DEF s, n
        <3> QED
            BY <3>2, <3>3
    <2>6. \A x \in Test \ {t} : HostsOf(x)' = HostsOf(x)
        BY <2>1 DEF HostsOf, TypeOK
    <2>7. host[h].registered /\ host[h].role = None
        BY <1>6 DEF AddHost
    <2>8. \A x \in Test : h \notin HostsOf(x)
        <3>1. host[h].owner = None
            BY <2>7 DEF ClaimsInv, ClaimsConsistent
        <3> QED
            BY <2>7, <3>1, ConstantsAssumption DEF ClaimsInv, ClaimsConsistent
    <2>9. \A g \in HostsOf(t) : host[g].role # r
        BY <1>6 DEF AddHost, get_host_by_role
    <2>10. ClaimsConsistent'
        <3> SUFFICES ASSUME NEW k \in Host, host'[k].registered
                     PROVE  /\ (host'[k].role # None) <=> (host'[k].owner # None)
                            /\ \A x \in Test : k \in HostsOf(x)' <=> host'[k].owner = x
                            /\ \A g \in Host : /\ g # k /\ host'[g].registered
                                               /\ host'[g].owner = host'[k].owner
                                               /\ host'[k].owner # None
                                              => host'[g].role # host'[k].role
            BY DEF ClaimsConsistent
        <3>1. CASE k = h
            BY <2>2, <2>4, <2>5, <2>6, <2>8, <2>9, <3>1 DEF ClaimsInv, ClaimsConsistent
        <3>2. CASE k # h
            BY <2>2, <2>4, <2>5, <2>6, <2>9, <3>2 DEF ClaimsInv, ClaimsConsistent
        <3> QED
            BY <3>1, <3>2
    <2>11. ClaimedHostsExist'
        BY <2>1, <2>4, <2>5, <2>6, <2>7 DEF ClaimsInv, ClaimedHostsExist
    <2> QED
        BY <2>10, <2>11 DEF ClaimsInv
<1>7. ASSUME NEW t \in Test, DeleteTest(t)
      PROVE  ClaimsInv'
    <2> DEFINE released(h) ==
                  IF host[h].owner = t THEN host_release(host[h]) ELSE host[h]
               orphan(h) == [released(h) EXCEPT !.parent = None]
    <2>1. host' = [h \in Host |-> IF h \in HostsOf(t)
                                  THEN host_put(orphan(h), h \notin globalHosts)
                                  ELSE released(h)]
        BY <1>7 DEF DeleteTest
    <2>2. /\ HostsOf(t)' = {}
          /\ \A x \in Test \ {t} : HostsOf(x)' = HostsOf(x)
          /\ UNCHANGED next_id
        BY <1>7 DEF DeleteTest, HostsOf, TypeOK
    <2>3. \A h \in Host : /\ released(h) \in HostRec
                          /\ released(h).registered = host[h].registered
                          /\ host[h].owner # t => released(h) = host[h]
                          /\ host[h].owner = t =>
                                released(h).role = None /\ released(h).owner = None
        <3>1. \A rec \in HostRec : /\ host_release(rec).registered = rec.registered
                                   /\ host_release(rec).role = None
                                   /\ host_release(rec).owner = None
            BY DEF host_release, HostRec
        <3> QED
            BY <1>0, <3>1, HostRecOps
    <2>4. \A h \in Host : orphan(h) \in HostRec /\ SameClaim(orphan(h), released(h))
        <3> HIDE DEF released
        <3> QED
            BY <2>3, HostRecOps DEF SameClaim, HostRec
    <2>5. \A h \in Host : host'[h].registered => SameClaim(host'[h], released(h))
        <3> HIDE DEF released, orphan
        <3>1. \A h \in Host : \A last : host_put(orphan(h), last).registered
                                       => SameClaim(host_put(orphan(h), last), orphan(h))
            BY <1>b, <2>4
        <3> QED
            BY <2>1, <2>4, <3>1 DEF SameClaim
    <2> HIDE DEF released, orphan
    <2>6. ClaimedHostsExist'
        BY <2>2, <2>3, <2>5 DEF ClaimsInv, ClaimedHostsExist, SameClaim
    <2>7. t # None
        BY ConstantsAssumption
    <2>8. \A h \in Host : host'[h].registered =>
             /\ host[h].registered
             /\ host[h].owner # t => /\ host'[h].owner = host[h].owner
                                     /\ host'[h].role = host[h].role
             /\ host[h].owner = t => host'[h].owner = None /\ host'[h].role = None
        BY <2>3, <2>5 DEF SameClaim
    <2>9. ClaimsConsistent'
        <3> SUFFICES ASSUME NEW k \in Host, host'[k].registered
                     PROVE  /\ (host'[k].role # None) <=> (host'[k].owner # None)
                            /\ \A x \in Test : k \in HostsOf(x)' <=> host'[k].owner = x
                            /\ \A g \in Host : /\ g # k /\ host'[g].registered
                                               /\ host'[g].owner = host'[k].owner
                                               /\ host'[k].owner # None
                                              => host'[g].role # host'[k].role
            BY DEF ClaimsConsistent
        <3>1. CASE host[k].owner = t
            BY <2>2, <2>7, <2>8, <3>1, ConstantsAssumption DEF ClaimsInv, ClaimsConsistent
        <3>2. CASE host[k].owner # t
            BY <2>2, <2>8, <3>2 DEF ClaimsInv, ClaimsConsistent
        <3> QED
            BY <3>1, <3>2
    <2> QED
        BY <2>6, <2>9 DEF ClaimsInv
<1> QED
    BY <1>1, <1>2, <1>3, <1>4, <1>5, <1>6, <1>7 DEF ClientNext

\* The claims agree to begin with, and every step keeps them so.
THEOREM ClaimsInvariant == Spec => []ClaimsInv
<1>1. Init => ClaimsInv
    BY ConstantsAssumption
       DEF Init, ClaimsInv, ClaimsConsistent, ClaimedHostsExist, HostsOf, NoHost
<1>2. TypeOK /\ ClaimsInv /\ [Next]_vars => ClaimsInv'
    <2> SUFFICES ASSUME TypeOK, ClaimsInv, [Next]_vars
                 PROVE  ClaimsInv'
        OBVIOUS
    <2>1. CASE UNCHANGED vars \/ AgentNext
        <3>1. UNCHANGED <<host, testHosts, next_id>>
            BY <2>1 DEF vars, AgentNext, AgentStart, AgentRegister, AgentSetup, AgentPublish,
                        AgentReady, AgentStop, AgentCrash, BusNoticesExit, masterVars
        <3> QED
            BY <3>1 DEF ClaimsInv, ClaimsConsistent, ClaimedHostsExist, HostsOf
    <2> QED
        BY <2>1, MasterStepClaims, ClientStepClaims DEF Next
<1> QED
    BY <1>1, <1>2, TypeCorrect, PTL DEF Spec

\* Hosts, owners and roles agree at all times: a host has a role exactly while
\* one test holds it, through disconnects, deletions and re-registrations.
THEOREM ClaimsAreConsistent == Spec => []ClaimsConsistent
<1>1. ClaimsInv => ClaimsConsistent
    BY DEF ClaimsInv
<1> QED
    BY <1>1, ClaimsInvariant, PTL

-----------------------------------------------------------------------------
(* Which process is behind a host.  The proof follows the queue: the bus   *)
(* delivers in order, so what an agent sends is handled after the bus said *)
(* that it owns its name and before the bus says that it lost it.          *)

NameTaken(w, a) == [type |-> "NameOwnerChanged", name |-> w, owner |-> a]

NameFreed(w) == [type |-> "NameOwnerChanged", name |-> w, owner |-> None]

UniqueLost(a) == [type |-> "UniqueNameLost", name |-> a]

IsRegistration(m, a) == m.type \in {"createHost", "reconnect"} /\ m.sender = a

IsReady(m, a) == m.type = "ready" /\ m.sender = a

\* The registration of agent a has been sent and handled.
Registered(a) ==
    /\ agent[a].pc \notin {"off", "named"}
    /\ \A i \in DOMAIN masterq : ~IsRegistration(masterq[i], a)

\* Agent a has, had or is about to be known to have the name w.
Linked(a, w) == mapping[w] = a \/ busOwner[w] = a \/ Pending(NameTaken(w, a))

\* An agent has one name, from when it starts; the owner of a name is connected.
NamesInv ==
    /\ \A a \in Agent, w \in BusName : Linked(a, w) => agent[a].pc # "off"
    /\ \A a \in Agent, w \in BusName, v \in BusName : Linked(a, w) /\ Linked(a, v) => w = v
    /\ \A a \in Agent, w \in BusName : busOwner[w] = a => agent[a].pc # "gone"

\* A name the master believes to be owned is, or it will hear otherwise.
MappedIsOwned ==
    \A w \in BusName :
        mapping[w] # None => busOwner[w] = mapping[w] \/ Pending(NameFreed(w))

\* The same of a name it is about to hear of.
TakenIsOwned ==
    \A w \in BusName, a \in Agent : \A i \in DOMAIN masterq :
        masterq[i] = NameTaken(w, a) =>
            \/ busOwner[w] = a
            \/ \E j \in DOMAIN masterq : i < j /\ masterq[j] = NameFreed(w)

\* The master hears that a name was released before it hears of its next owner.
FreedBeforeTaken ==
    \A w \in BusName, a \in Agent : \A i \in DOMAIN masterq :
        masterq[i] = NameTaken(w, a) /\ mapping[w] # None =>
            \E j \in DOMAIN masterq : j < i /\ masterq[j] = NameFreed(w)

FreedBetween ==
    \A w \in BusName, a \in Agent, b \in Agent :
        \A i \in DOMAIN masterq, k \in DOMAIN masterq :
            masterq[i] = NameTaken(w, a) /\ masterq[k] = NameTaken(w, b) /\ k < i =>
                \E j \in DOMAIN masterq : k < j /\ j < i /\ masterq[j] = NameFreed(w)

TurnsInv == MappedIsOwned /\ TakenIsOwned /\ FreedBeforeTaken /\ FreedBetween

\* An agent knows its host from the reply on.
PathsInv ==
    /\ \A a \in Agent : agent[a].pc \in {"off", "named", "calling"} => agent[a].path = None
    /\ \A a \in Agent :
          agent[a].pc \in {"replied", "subscribed", "publishing", "published", "serving"}
              => agent[a].path # None

\* An agent registers once, and before it is gone.
RegistrationsInv ==
    /\ \A a \in Agent : \A i \in DOMAIN masterq : IsRegistration(masterq[i], a) =>
          agent[a].pc \in {"calling", "dead", "gone"} /\ agent[a].path = None
    /\ \A a \in Agent : \A i \in DOMAIN masterq :
          IsRegistration(masterq[i], a) /\ agent[a].pc = "gone" =>
              \E j \in DOMAIN masterq : i < j /\ masterq[j] = UniqueLost(a)
    /\ \A a \in Agent : \A i \in DOMAIN masterq, k \in DOMAIN masterq :
          IsRegistration(masterq[i], a) /\ IsRegistration(masterq[k], a) => i = k

\* An agent that announces itself has a host.
ReadySentInv ==
    \A a \in Agent : \A i \in DOMAIN masterq : IsReady(masterq[i], a) =>
        agent[a].pc \in {"serving", "dead", "gone"} /\ agent[a].path # None

\* Agent a is the one that bus name b stands for, as far as the master knows.
Behind(b, a) == b = a \/ (b \in BusName /\ mapping[b] = a)

\* The bus name of a listed host stands for somebody.
NamedInv ==
    \A h \in globalHosts :
        host[h].agent_bus_name \in BusName => mapping[host[h].agent_bus_name] # None

\* The agent behind a listed host registered it, or died before it heard so.
BehindInv ==
    \A h \in globalHosts, a \in Agent : Behind(host[h].agent_bus_name, a) =>
        /\ Registered(a)
        /\ \/ agent[a].path = h
           \/ agent[a].path = None /\ agent[a].pc \in {"dead", "gone"}

\* The master will hear that an agent known by its unique name is gone.
GoneInv ==
    \A h \in globalHosts, a \in Agent :
        host[h].agent_bus_name = a /\ agent[a].pc = "gone" => Pending(UniqueLost(a))

\* The agent behind a listed host that is ready announced itself.
ReadyInv ==
    /\ \A h \in globalHosts : host[h].ready => host[h].agent_bus_name # None
    /\ \A h \in globalHosts, a \in Agent :
          host[h].ready /\ Behind(host[h].agent_bus_name, a) =>
              agent[a].path = h /\ agent[a].pc \in {"serving", "dead", "gone"}

QueueInv == NamesInv /\ TurnsInv /\ PathsInv /\ RegistrationsInv /\ ReadySentInv

HostsInv == NamedInv /\ BehindInv /\ GoneInv /\ ReadyInv /\ OneHostPerAgent

ServedInv == TypeInv /\ QueueInv /\ HostsInv

-----------------------------------------------------------------------------
(* The queue. *)

\* A message is added to the end of the queue.
LEMMA AppendQueue ==
    ASSUME masterq \in Seq(Message), NEW m, masterq' = Append(masterq, m)
    PROVE  \E n \in Nat : /\ DOMAIN masterq' = DOMAIN masterq \cup {n}
                          /\ masterq'[n] = m
                          /\ \A i \in DOMAIN masterq : i \in Nat /\ i < n
                          /\ \A i \in DOMAIN masterq : masterq'[i] = masterq[i]
<1> DEFINE n == Len(masterq) + 1
<1>1. masterq \in Seq(Message \cup {m})
    BY Zenon, SeqMonotonic
<1>2. /\ Len(masterq) \in Nat /\ DOMAIN masterq = 1 .. Len(masterq)
    BY LenProperties
<1>3. /\ Len(masterq') = n
      /\ \A i \in 1 .. Len(masterq) : masterq'[i] = masterq[i]
      /\ masterq'[n] = m
      /\ masterq' \in Seq(Message \cup {m})
    BY <1>1, AppendProperties
<1>4. DOMAIN masterq' = 1 .. n
    BY <1>3, LenProperties
<1>5. DOMAIN masterq' = DOMAIN masterq \cup {n}
    BY <1>2, <1>4
<1> QED
    BY <1>2, <1>3, <1>5

\* The first message is taken from the queue.
LEMMA TailQueue ==
    ASSUME masterq \in Seq(Message), masterq # <<>>, masterq' = Tail(masterq)
    PROVE  /\ 1 \in DOMAIN masterq /\ masterq[1] = Head(masterq)
           /\ DOMAIN masterq \subseteq Nat /\ DOMAIN masterq' \subseteq Nat
           /\ \A i \in DOMAIN masterq' : i + 1 \in DOMAIN masterq /\ masterq'[i] = masterq[i + 1]
           /\ \A i \in DOMAIN masterq : i # 1 =>
                 i - 1 \in DOMAIN masterq' /\ masterq'[i - 1] = masterq[i]
<1>1. /\ Len(masterq) \in Nat /\ DOMAIN masterq = 1 .. Len(masterq)
      /\ Len(masterq) # 0
    BY LenProperties, EmptySeq
<1>2. /\ masterq' \in Seq(Message) /\ Len(masterq') = Len(masterq) - 1
      /\ \A i \in 1 .. Len(masterq') : masterq'[i] = masterq[i + 1]
      /\ Head(masterq) = masterq[1]
    BY HeadTailProperties
<1>3. DOMAIN masterq' = 1 .. (Len(masterq) - 1)
    BY <1>2, LenProperties
<1> HIDE DEF Message
<1>4. \A i \in DOMAIN masterq' : i + 1 \in DOMAIN masterq /\ masterq'[i] = masterq[i + 1]
    BY <1>1, <1>2, <1>3
<1>5. \A i \in DOMAIN masterq : i # 1 => i - 1 \in DOMAIN masterq' /\ (i - 1) + 1 = i
    BY <1>1, <1>3
<1> QED
    BY <1>1, <1>2, <1>3, <1>4, <1>5

\* The messages of the bus daemon differ from each other and from those of the agents.
LEMMA MessageKinds ==
    /\ \A w \in BusName, v \in BusName, a \in Agent, b \in Agent :
          /\ NameTaken(w, a) = NameTaken(v, b) => w = v /\ a = b
          /\ NameTaken(w, a) # NameFreed(v)
          /\ NameFreed(w) = NameFreed(v) => w = v
          /\ NameTaken(w, a).type = "NameOwnerChanged"
          /\ NameFreed(w).type = "NameOwnerChanged"
          /\ UniqueLost(a).type = "UniqueNameLost"
          /\ UniqueLost(a) = UniqueLost(b) => a = b
    /\ \A w \in BusName : NameFreed(w).type = "NameOwnerChanged"
    /\ \A a \in Agent : UniqueLost(a).type = "UniqueNameLost"
<1>1. None \notin Agent
    BY ConstantsAssumption
<1>2. \A w \in BusName, v \in BusName, a \in Agent, b \in Agent :
          /\ NameTaken(w, a) = NameTaken(v, b) => w = v /\ a = b
          /\ NameTaken(w, a) # NameFreed(v)
    BY <1>1 DEF NameTaken, NameFreed
<1>3. \A w \in BusName, v \in BusName : NameFreed(w) = NameFreed(v) => w = v
    BY DEF NameFreed
<1>4. \A a \in Agent, b \in Agent : UniqueLost(a) = UniqueLost(b) => a = b
    BY DEF UniqueLost
<1> QED
    BY <1>2, <1>3, <1>4 DEF NameTaken, NameFreed, UniqueLost

\* A step that sends and receives nothing keeps the order of what the bus says.
LEMMA TurnsKept ==
    ASSUME TurnsInv, UNCHANGED <<mapping, busOwner, masterq>>
    PROVE  TurnsInv'
BY DEF TurnsInv, MappedIsOwned, TakenIsOwned, FreedBeforeTaken, FreedBetween, Pending

\* So does one that sends something else.
LEMMA TurnsAppend ==
    ASSUME TypeOK, TurnsInv, NEW m, m.type # "NameOwnerChanged", Send(m),
           UNCHANGED <<mapping, busOwner>>
    PROVE  TurnsInv'
<1>1. PICK n \in Nat : /\ DOMAIN masterq' = DOMAIN masterq \cup {n}
                       /\ masterq'[n] = m
                       /\ \A i \in DOMAIN masterq : i \in Nat /\ i < n
                       /\ \A i \in DOMAIN masterq : masterq'[i] = masterq[i]
    BY AppendQueue DEF TypeOK, Send
<1>2. \A w \in BusName, a \in Agent : masterq'[n] # NameTaken(w, a)
    BY <1>1, MessageKinds
<1>3. MappedIsOwned'
    BY <1>1 DEF TurnsInv, MappedIsOwned, Pending
<1>4. TakenIsOwned'
    BY <1>1, <1>2 DEF TurnsInv, TakenIsOwned
<1>5. FreedBeforeTaken'
    BY <1>1, <1>2 DEF TurnsInv, FreedBeforeTaken
<1>6. FreedBetween'
    BY <1>1, <1>2 DEF TurnsInv, FreedBetween
<1> QED
    BY <1>3, <1>4, <1>5, <1>6 DEF TurnsInv

\* And one that receives something else.
LEMMA TurnsTail ==
    ASSUME TypeOK, TurnsInv, NEW type, type # "NameOwnerChanged", Receive(type),
           UNCHANGED <<mapping, busOwner>>
    PROVE  TurnsInv'
<1>1. /\ 1 \in DOMAIN masterq /\ masterq[1] = Head(masterq)
      /\ DOMAIN masterq \subseteq Nat /\ DOMAIN masterq' \subseteq Nat
      /\ \A i \in DOMAIN masterq' : i + 1 \in DOMAIN masterq /\ masterq'[i] = masterq[i + 1]
      /\ \A i \in DOMAIN masterq : i # 1 =>
            i - 1 \in DOMAIN masterq' /\ masterq'[i - 1] = masterq[i]
    BY TailQueue DEF TypeOK, Receive
<1>2. \A w \in BusName : masterq[1] # NameFreed(w)
    BY <1>1, MessageKinds DEF Receive
<1>3. MappedIsOwned'
    BY <1>1, <1>2 DEF TurnsInv, MappedIsOwned, Pending
<1>4. TakenIsOwned'
    <2> SUFFICES ASSUME NEW w \in BusName, NEW a \in Agent, NEW i \in DOMAIN masterq',
                        masterq'[i] = NameTaken(w, a), busOwner[w] # a
                 PROVE  \E j \in DOMAIN masterq' : i < j /\ masterq'[j] = NameFreed(w)
        BY DEF TakenIsOwned
    <2>1. PICK j \in DOMAIN masterq : i + 1 < j /\ masterq[j] = NameFreed(w)
        BY <1>1 DEF TurnsInv, TakenIsOwned
    <2>2. j # 1 /\ j - 1 \in DOMAIN masterq' /\ i < j - 1
        BY <1>1, <2>1
    <2> QED
        BY <1>1, <2>1, <2>2
<1>5. FreedBeforeTaken'
    <2> SUFFICES ASSUME NEW w \in BusName, NEW a \in Agent, NEW i \in DOMAIN masterq',
                        masterq'[i] = NameTaken(w, a), mapping[w] # None
                 PROVE  \E j \in DOMAIN masterq' : j < i /\ masterq'[j] = NameFreed(w)
        BY DEF FreedBeforeTaken
    <2>1. PICK j \in DOMAIN masterq : j < i + 1 /\ masterq[j] = NameFreed(w)
        BY <1>1 DEF TurnsInv, FreedBeforeTaken
    <2>2. j # 1
        BY <1>2, <2>1
    <2>3. j - 1 \in DOMAIN masterq' /\ j - 1 < i
        BY <1>1, <2>1, <2>2
    <2> QED
        BY <1>1, <2>1, <2>2, <2>3
<1>6. FreedBetween'
    <2> SUFFICES ASSUME NEW w \in BusName, NEW a \in Agent, NEW b \in Agent,
                        NEW i \in DOMAIN masterq', NEW k \in DOMAIN masterq',
                        masterq'[i] = NameTaken(w, a), masterq'[k] = NameTaken(w, b), k < i
                 PROVE  \E j \in DOMAIN masterq' : k < j /\ j < i /\ masterq'[j] = NameFreed(w)
        BY DEF FreedBetween
    <2>0. /\ i + 1 \in DOMAIN masterq /\ masterq[i + 1] = NameTaken(w, a)
          /\ k + 1 \in DOMAIN masterq /\ masterq[k + 1] = NameTaken(w, b)
          /\ k + 1 < i + 1
        BY <1>1
    <2>1. PICK j \in DOMAIN masterq : k + 1 < j /\ j < i + 1 /\ masterq[j] = NameFreed(w)
        BY <2>0 DEF TurnsInv, FreedBetween
    <2>2. j # 1 /\ j - 1 \in DOMAIN masterq' /\ k < j - 1 /\ j - 1 < i
        BY <1>1, <2>1
    <2> QED
        BY <1>1, <2>1, <2>2
<1> QED
    BY <1>3, <1>4, <1>5, <1>6 DEF TurnsInv

\* The bus daemon gives a name nobody has to an agent, and says so or is not heard.
LEMMA TurnsStart ==
    ASSUME TypeOK, TurnsInv, NEW a \in Agent, NEW w \in BusName,
           busOwner[w] = None, busOwner' = [busOwner EXCEPT ![w] = a],
           Send(NameTaken(w, a)) \/ UNCHANGED masterq, UNCHANGED mapping
    PROVE  TurnsInv'
<1>0. /\ None \notin Agent /\ busOwner'[w] = a
      /\ \A v \in BusName : v # w => busOwner'[v] = busOwner[v]
      /\ \A v \in BusName : mapping[v] # None => mapping[v] \in Agent
    BY ConstantsAssumption DEF TypeOK
\* What was owned before and is not w is owned now; w was not.
<1>a. \A v \in BusName, b \in Agent : busOwner[v] = b => busOwner'[v] = b
    BY <1>0
<1>1. CASE Send(NameTaken(w, a))
    <2>1. PICK n \in Nat : /\ DOMAIN masterq' = DOMAIN masterq \cup {n}
                           /\ masterq'[n] = NameTaken(w, a)
                           /\ \A i \in DOMAIN masterq : i \in Nat /\ i < n
                           /\ \A i \in DOMAIN masterq : masterq'[i] = masterq[i]
        BY <1>1, AppendQueue DEF TypeOK, Send
    <2>2. \A v \in BusName, b \in Agent : masterq'[n] = NameTaken(v, b) => v = w /\ b = a
        <3>1. \A v \in BusName, b \in Agent : NameTaken(w, a) = NameTaken(v, b) => v = w /\ b = a
            BY DEF NameTaken
        <3> QED
            BY <2>1, <3>1
    <2>3. MappedIsOwned'
        BY <1>0, <1>a, <2>1 DEF TurnsInv, MappedIsOwned, Pending
    <2>4. TakenIsOwned'
        BY <1>0, <1>a, <2>1, <2>2 DEF TurnsInv, TakenIsOwned
    <2>5. FreedBeforeTaken'
        <3>1. mapping[w] # None => \E j \in DOMAIN masterq : masterq[j] = NameFreed(w)
            BY <1>0 DEF TurnsInv, MappedIsOwned, Pending
        <3> QED
            BY <2>1, <2>2, <3>1 DEF TurnsInv, FreedBeforeTaken
    <2>6. FreedBetween'
        <3>1. \A b \in Agent, k \in DOMAIN masterq : masterq[k] = NameTaken(w, b) =>
                 \E j \in DOMAIN masterq : k < j /\ masterq[j] = NameFreed(w)
            BY <1>0 DEF TurnsInv, TakenIsOwned
        <3> SUFFICES ASSUME NEW v \in BusName, NEW c \in Agent, NEW b \in Agent,
                            NEW i \in DOMAIN masterq', NEW k \in DOMAIN masterq',
                            masterq'[i] = NameTaken(v, c), masterq'[k] = NameTaken(v, b),
                            k < i
                     PROVE  \E j \in DOMAIN masterq' :
                               k < j /\ j < i /\ masterq'[j] = NameFreed(v)
            BY DEF FreedBetween
        <3>2. k \in DOMAIN masterq
            BY <2>1
        <3>3. CASE i = n
            <4>1. v = w
                BY <2>2, <3>3
            <4>2. PICK j \in DOMAIN masterq : k < j /\ masterq[j] = NameFreed(w)
                BY <2>1, <3>1, <3>2, <4>1
            <4> QED
                BY <2>1, <3>3, <4>1, <4>2
        <3>4. CASE i # n
            <4>1. i \in DOMAIN masterq
                BY <2>1, <3>4
            <4>2. PICK j \in DOMAIN masterq : k < j /\ j < i /\ masterq[j] = NameFreed(v)
                BY <2>1, <3>2, <4>1 DEF TurnsInv, FreedBetween
            <4> QED
                BY <2>1, <4>2
        <3> QED
            BY <3>3, <3>4
    <2> QED
        BY <2>3, <2>4, <2>5, <2>6 DEF TurnsInv
<1>2. CASE UNCHANGED masterq
    <2>1. MappedIsOwned'
        BY <1>0, <1>2, <1>a DEF TurnsInv, MappedIsOwned, Pending
    <2>2. TakenIsOwned'
        BY <1>2, <1>a DEF TurnsInv, TakenIsOwned
    <2>3. FreedBeforeTaken' /\ FreedBetween'
        BY <1>2 DEF TurnsInv, FreedBeforeTaken, FreedBetween
    <2> QED
        BY <2>1, <2>2, <2>3 DEF TurnsInv
<1> QED
    BY <1>1, <1>2

\* Two messages are added to the end of the queue.
LEMMA AppendTwo ==
    ASSUME masterq \in Seq(Message), NEW x \in Message, NEW y \in Message,
           masterq' = masterq \o <<x, y>>
    PROVE  \E n \in Nat : /\ DOMAIN masterq' = DOMAIN masterq \cup {n, n + 1}
                          /\ masterq'[n] = x /\ masterq'[n + 1] = y
                          /\ \A i \in DOMAIN masterq : i \in Nat /\ i < n
                          /\ \A i \in DOMAIN masterq : masterq'[i] = masterq[i]
<1> DEFINE two == <<x, y>>
           n == Len(masterq) + 1
<1>1. two \in Seq(Message) /\ Len(two) = 2 /\ two[1] = x /\ two[2] = y
    OBVIOUS
<1>2. Len(masterq) \in Nat /\ DOMAIN masterq = 1 .. Len(masterq)
    BY LenProperties
<1> HIDE DEF two
<1>3. /\ masterq' \in Seq(Message)
      /\ Len(masterq') = Len(masterq) + 2
      /\ \A i \in 1 .. Len(masterq') :
            masterq'[i] = IF i <= Len(masterq) THEN masterq[i] ELSE two[i - Len(masterq)]
    <2>1. masterq' = masterq \o two
        BY DEF two
    <2> QED
        BY <1>1, <2>1, ConcatProperties
<1>4. DOMAIN masterq' = 1 .. (Len(masterq) + 2)
    BY <1>3, LenProperties
<1>5. /\ DOMAIN masterq' = DOMAIN masterq \cup {n, n + 1}
      /\ \A i \in DOMAIN masterq : i \in Nat /\ i < n
    BY <1>2, <1>4
<1>6. /\ n \in 1 .. Len(masterq') /\ ~(n <= Len(masterq)) /\ n - Len(masterq) = 1
      /\ n + 1 \in 1 .. Len(masterq') /\ ~(n + 1 <= Len(masterq))
      /\ (n + 1) - Len(masterq) = 2
    BY <1>2, <1>3
<1>7. masterq'[n] = x /\ masterq'[n + 1] = y
    <2> HIDE DEF n
    <2> QED
        BY <1>1, <1>3, <1>6
<1>8. \A i \in DOMAIN masterq : masterq'[i] = masterq[i]
    BY <1>2, <1>3
<1>9. n \in Nat
    BY <1>2
<1> HIDE DEF n
<1> QED
    BY <1>5, <1>7, <1>8, <1>9

\* The bus daemon takes the name w of agent a, and says so.
Frees(w, a) ==
    /\ busOwner[w] = a
    /\ busOwner' = [busOwner EXCEPT ![w] = None]
    /\ masterq' = masterq \o <<NameFreed(w), UniqueLost(a)>>

\* When the name of an agent that is gone is taken, the master will hear of it.
LEMMA TurnsExit ==
    ASSUME TypeOK, TurnsInv, NEW a \in Agent, NEW w \in BusName, Frees(w, a),
           UNCHANGED mapping
    PROVE  TurnsInv'
<1>0. \A v \in BusName : v # w => busOwner'[v] = busOwner[v]
    BY DEF TypeOK, Frees
<1>1. NameFreed(w) \in Message /\ UniqueLost(a) \in Message
    BY DEF Message, NameFreed, UniqueLost
<1>2. PICK n \in Nat :
         /\ DOMAIN masterq' = DOMAIN masterq \cup {n, n + 1}
         /\ masterq'[n] = NameFreed(w) /\ masterq'[n + 1] = UniqueLost(a)
         /\ \A i \in DOMAIN masterq : i \in Nat /\ i < n
         /\ \A i \in DOMAIN masterq : masterq'[i] = masterq[i]
    BY <1>1, AppendTwo DEF TypeOK, Frees
<1>3. \A v \in BusName, b \in Agent :
         masterq'[n] # NameTaken(v, b) /\ masterq'[n + 1] # NameTaken(v, b)
    <2>1. \A v \in BusName, b \in Agent :
             NameFreed(w) # NameTaken(v, b) /\ UniqueLost(a) # NameTaken(v, b)
        BY MessageKinds
    <2> QED
        BY <1>2, <2>1
<1>4. MappedIsOwned'
    BY <1>0, <1>2 DEF TurnsInv, MappedIsOwned, Pending
<1>5. TakenIsOwned'
    <2> SUFFICES ASSUME NEW v \in BusName, NEW b \in Agent, NEW i \in DOMAIN masterq',
                        masterq'[i] = NameTaken(v, b), busOwner'[v] # b
                 PROVE  \E j \in DOMAIN masterq' : i < j /\ masterq'[j] = NameFreed(v)
        BY DEF TakenIsOwned
    <2>1. i \in DOMAIN masterq /\ masterq[i] = NameTaken(v, b)
        BY <1>2, <1>3
    <2>2. CASE v = w
        BY <1>2, <2>1, <2>2
    <2>3. CASE v # w
        <3>1. PICK j \in DOMAIN masterq : i < j /\ masterq[j] = NameFreed(v)
            BY <1>0, <2>1, <2>3 DEF TurnsInv, TakenIsOwned
        <3> QED
            BY <1>2, <3>1
    <2> QED
        BY <2>2, <2>3
<1>6. FreedBeforeTaken'
    BY <1>2, <1>3 DEF TurnsInv, FreedBeforeTaken
<1>7. FreedBetween'
    <2> SUFFICES ASSUME NEW v \in BusName, NEW c \in Agent, NEW b \in Agent,
                        NEW i \in DOMAIN masterq', NEW k \in DOMAIN masterq',
                        masterq'[i] = NameTaken(v, c), masterq'[k] = NameTaken(v, b),
                        k < i
                 PROVE  \E j \in DOMAIN masterq' :
                           k < j /\ j < i /\ masterq'[j] = NameFreed(v)
        BY DEF FreedBetween
    <2>1. /\ i \in DOMAIN masterq /\ masterq[i] = NameTaken(v, c)
          /\ k \in DOMAIN masterq /\ masterq[k] = NameTaken(v, b)
        BY <1>2, <1>3
    <2>2. PICK j \in DOMAIN masterq : k < j /\ j < i /\ masterq[j] = NameFreed(v)
        BY <2>1 DEF TurnsInv, FreedBetween
    <2> QED
        BY <1>2, <2>2
<1> QED
    BY <1>4, <1>5, <1>6, <1>7 DEF TurnsInv

\* The master hears of a name.  When it got an owner, it had none before.
LEMMA TurnsHandle ==
    ASSUME TypeOK, TurnsInv, HandleNameOwnerChanged
    PROVE  /\ TurnsInv'
           /\ Head(masterq).owner # None => mapping[Head(masterq).name] = None
<1> DEFINE m == Head(masterq)
           w == m.name
<1>1. /\ 1 \in DOMAIN masterq /\ masterq[1] = m
      /\ DOMAIN masterq \subseteq Nat /\ DOMAIN masterq' \subseteq Nat
      /\ \A i \in DOMAIN masterq' : i + 1 \in DOMAIN masterq /\ masterq'[i] = masterq[i + 1]
      /\ \A i \in DOMAIN masterq : i # 1 =>
            i - 1 \in DOMAIN masterq' /\ masterq'[i - 1] = masterq[i]
    BY TailQueue DEF TypeOK, Receive, HandleNameOwnerChanged
<1>2. m \in Message /\ m.type = "NameOwnerChanged"
    BY ReceiveType DEF HandleNameOwnerChanged
<1>3. w \in BusName /\ m.owner \in Agent \cup {None} /\ m = NameTaken(w, m.owner)
    BY <1>2 DEF Message, NameTaken
<1>4. /\ mapping' = [mapping EXCEPT ![w] = m.owner] /\ UNCHANGED busOwner
    BY DEF HandleNameOwnerChanged
<1>5. /\ mapping'[w] = m.owner /\ \A v \in BusName : v # w => mapping'[v] = mapping[v]
    BY <1>3, <1>4 DEF TypeOK
<1>n. None \notin Agent
    BY ConstantsAssumption
<1>m. DOMAIN masterq' \subseteq Nat \ {0}
    BY LenProperties, ReceiveType DEF HandleNameOwnerChanged
<1> HIDE DEF m, w
<1>6. ASSUME m.owner # None
      PROVE  mapping[w] = None
    <2>1. m.owner \in Agent /\ masterq[1] = NameTaken(w, m.owner)
        BY <1>1, <1>3, <1>6
    <2>2. ~ \E j \in DOMAIN masterq : j < 1
        <3>1. DOMAIN masterq = 1 .. Len(masterq) /\ Len(masterq) \in Nat
            BY LenProperties DEF TypeOK
        <3> QED
            BY <3>1
    <2> QED
        BY <1>1, <1>3, <2>1, <2>2 DEF TurnsInv, FreedBeforeTaken
\* What the bus says of another name is not m.
<1>7. \A v \in BusName : masterq[1] = NameFreed(v) => v = w /\ m.owner = None
    <2>1. \A v \in BusName : NameTaken(w, m.owner) = NameFreed(v) => v = w /\ m.owner = None
        BY DEF NameTaken, NameFreed
    <2> QED
        BY <1>1, <1>3, <2>1
<1>8. MappedIsOwned'
    <2> SUFFICES ASSUME NEW v \in BusName, mapping'[v] # None, busOwner[v] # mapping'[v]
                 PROVE  \E j \in DOMAIN masterq' : masterq'[j] = NameFreed(v)
        BY <1>4 DEF MappedIsOwned, Pending
    <2>1. CASE v # w
        <3>1. PICK j \in DOMAIN masterq : masterq[j] = NameFreed(v)
            BY <1>5, <2>1 DEF TurnsInv, MappedIsOwned, Pending
        <3>2. j # 1
            BY <1>7, <2>1, <3>1
        <3> QED
            BY <1>1, <3>1, <3>2
    <2>2. CASE v = w
        <3>1. m.owner \in Agent /\ masterq[1] = NameTaken(w, m.owner) /\ busOwner[w] # m.owner
            BY <1>1, <1>3, <1>5, <2>2
        <3>2. PICK j \in DOMAIN masterq : 1 < j /\ masterq[j] = NameFreed(w)
            BY <1>1, <1>3, <3>1 DEF TurnsInv, TakenIsOwned
        <3>3. j # 1
            BY <1>1, <3>2
        <3> QED
            BY <1>1, <2>2, <3>2, <3>3
    <2> QED
        BY <2>1, <2>2
<1>9. TakenIsOwned'
    <2> SUFFICES ASSUME NEW v \in BusName, NEW a \in Agent, NEW i \in DOMAIN masterq',
                        masterq'[i] = NameTaken(v, a), busOwner[v] # a
                 PROVE  \E j \in DOMAIN masterq' : i < j /\ masterq'[j] = NameFreed(v)
        BY <1>4 DEF TakenIsOwned
    <2>1. PICK j \in DOMAIN masterq : i + 1 < j /\ masterq[j] = NameFreed(v)
        BY <1>1 DEF TurnsInv, TakenIsOwned
    <2>2. j # 1 /\ j - 1 \in DOMAIN masterq' /\ i < j - 1
        BY <1>1, <2>1
    <2> QED
        BY <1>1, <2>1, <2>2
<1>10. FreedBeforeTaken'
    <2> SUFFICES ASSUME NEW v \in BusName, NEW a \in Agent, NEW i \in DOMAIN masterq',
                        masterq'[i] = NameTaken(v, a), mapping'[v] # None
                 PROVE  \E j \in DOMAIN masterq' : j < i /\ masterq'[j] = NameFreed(v)
        BY DEF FreedBeforeTaken
    <2>1. i + 1 \in DOMAIN masterq /\ masterq[i + 1] = NameTaken(v, a) /\ 0 < i /\ i \in Nat
        BY <1>1, <1>m
    <2>2. CASE v # w
        <3>1. PICK j \in DOMAIN masterq : j < i + 1 /\ masterq[j] = NameFreed(v)
            BY <1>5, <2>1, <2>2 DEF TurnsInv, FreedBeforeTaken
        <3>2. j # 1
            BY <1>7, <2>2, <3>1
        <3>3. j - 1 \in DOMAIN masterq' /\ j - 1 < i
            BY <1>1, <3>1, <3>2
        <3> QED
            BY <1>1, <3>1, <3>2, <3>3
    <2>3. CASE v = w
        <3>1. m.owner \in Agent /\ masterq[1] = NameTaken(w, m.owner)
            BY <1>1, <1>3, <1>5, <2>3
        <3>2. 1 < i + 1
            BY <2>1
        <3>3. PICK j \in DOMAIN masterq : 1 < j /\ j < i + 1 /\ masterq[j] = NameFreed(w)
            BY <1>1, <2>1, <2>3, <3>1, <3>2 DEF TurnsInv, FreedBetween
        <3>4. j # 1 /\ j - 1 \in DOMAIN masterq' /\ j - 1 < i
            BY <1>1, <3>3
        <3> QED
            BY <1>1, <2>3, <3>3, <3>4
    <2> QED
        BY <2>2, <2>3
<1>11. FreedBetween'
    <2> SUFFICES ASSUME NEW v \in BusName, NEW a \in Agent, NEW b \in Agent,
                        NEW i \in DOMAIN masterq', NEW k \in DOMAIN masterq',
                        masterq'[i] = NameTaken(v, a), masterq'[k] = NameTaken(v, b), k < i
                 PROVE  \E j \in DOMAIN masterq' : k < j /\ j < i /\ masterq'[j] = NameFreed(v)
        BY DEF FreedBetween
    <2>0. /\ i + 1 \in DOMAIN masterq /\ masterq[i + 1] = NameTaken(v, a)
          /\ k + 1 \in DOMAIN masterq /\ masterq[k + 1] = NameTaken(v, b)
          /\ k + 1 < i + 1
        BY <1>1
    <2>1. PICK j \in DOMAIN masterq : k + 1 < j /\ j < i + 1 /\ masterq[j] = NameFreed(v)
        BY <2>0 DEF TurnsInv, FreedBetween
    <2>2. j # 1 /\ j - 1 \in DOMAIN masterq' /\ k < j - 1 /\ j - 1 < i
        BY <1>1, <2>1
    <2> QED
        BY <1>1, <2>1, <2>2
<1> QED
    BY <1>6, <1>8, <1>9, <1>10, <1>11 DEF TurnsInv, m, w

\* What is pending after a message was sent.
LEMMA PendingAppend ==
    ASSUME TypeOK, NEW m, Send(m), NEW x
    PROVE  Pending(x)' <=> Pending(x) \/ x = m
<1>1. PICK n \in Nat : /\ DOMAIN masterq' = DOMAIN masterq \cup {n}
                       /\ masterq'[n] = m
                       /\ \A i \in DOMAIN masterq : i \in Nat /\ i < n
                       /\ \A i \in DOMAIN masterq : masterq'[i] = masterq[i]
    BY AppendQueue DEF TypeOK, Send
<1> QED
    BY <1>1 DEF Pending

\* What is pending after a message was received.
LEMMA PendingTail ==
    ASSUME TypeOK, NEW type, Receive(type), NEW x
    PROVE  /\ Pending(x)' => Pending(x)
           /\ Pending(x) => Pending(x)' \/ x = Head(masterq)
<1>1. /\ 1 \in DOMAIN masterq /\ masterq[1] = Head(masterq)
      /\ \A i \in DOMAIN masterq' : i + 1 \in DOMAIN masterq /\ masterq'[i] = masterq[i + 1]
      /\ \A i \in DOMAIN masterq : i # 1 =>
            i - 1 \in DOMAIN masterq' /\ masterq'[i - 1] = masterq[i]
    BY TailQueue DEF TypeOK, Receive
<1> QED
    BY <1>1 DEF Pending

\* What is pending after the bus daemon took a name.
LEMMA PendingFrees ==
    ASSUME TypeOK, NEW a \in Agent, NEW w \in BusName, Frees(w, a), NEW x
    PROVE  Pending(x)' <=> Pending(x) \/ x \in {NameFreed(w), UniqueLost(a)}
<1>1. NameFreed(w) \in Message /\ UniqueLost(a) \in Message
    BY DEF Message, NameFreed, UniqueLost
<1>2. PICK n \in Nat :
         /\ DOMAIN masterq' = DOMAIN masterq \cup {n, n + 1}
         /\ masterq'[n] = NameFreed(w) /\ masterq'[n + 1] = UniqueLost(a)
         /\ \A i \in DOMAIN masterq : i \in Nat /\ i < n
         /\ \A i \in DOMAIN masterq : masterq'[i] = masterq[i]
    BY <1>1, AppendTwo DEF TypeOK, Frees
<1> QED
    BY <1>2 DEF Pending

\* Steps in which no agent gets a name.
LEMMA NamesFrame ==
    ASSUME NamesInv,
           \A a \in Agent, w \in BusName : mapping'[w] = a => Linked(a, w),
           \A a \in Agent, w \in BusName : Pending(NameTaken(w, a))' => Pending(NameTaken(w, a)),
           \A a \in Agent, w \in BusName :
               busOwner'[w] = a => busOwner[w] = a /\ agent'[a].pc # "gone",
           \A a \in Agent : agent[a].pc # "off" => agent'[a].pc # "off"
    PROVE  NamesInv'
<1>1. \A a \in Agent, w \in BusName : Linked(a, w)' => Linked(a, w)
    BY DEF Linked
<1> QED
    BY <1>1 DEF NamesInv

\* Steps that send no registration and no announcement, in which agents go on.
LEMMA MessagesFrame ==
    ASSUME RegistrationsInv, ReadySentInv,
           NEW shift \in {0, 1}, DOMAIN masterq' \subseteq Nat, DOMAIN masterq \subseteq Nat,
           \A i \in DOMAIN masterq' :
               \/ i + shift \in DOMAIN masterq /\ masterq'[i] = masterq[i + shift]
               \/ \A a \in Agent : ~IsRegistration(masterq'[i], a) /\ ~IsReady(masterq'[i], a),
           \A i \in DOMAIN masterq : i # shift =>
               i - shift \in DOMAIN masterq' /\ masterq'[i - shift] = masterq[i],
           \A a \in Agent : agent[a].pc \in {"calling", "dead", "gone"} /\ agent[a].path = None
               => (agent'[a].pc \in {"calling", "dead", "gone"} /\ agent'[a].path = None)
                  \/ \A i \in DOMAIN masterq' : ~IsRegistration(masterq'[i], a),
           \A a \in Agent : agent[a].pc \in {"serving", "dead", "gone"} /\ agent[a].path # None
               => agent'[a].pc \in {"serving", "dead", "gone"} /\ agent'[a].path # None,
           \A a \in Agent : agent'[a].pc = "gone" /\ agent[a].pc # "gone" =>
               \E j \in DOMAIN masterq' : /\ masterq'[j] = UniqueLost(a)
                                          /\ \A i \in DOMAIN masterq : i - shift < j
    PROVE  RegistrationsInv' /\ ReadySentInv'
<1>1. \A a \in Agent, i \in DOMAIN masterq' : IsRegistration(masterq'[i], a) =>
         i + shift \in DOMAIN masterq /\ IsRegistration(masterq[i + shift], a)
    OBVIOUS
<1>2. \A a \in Agent, i \in DOMAIN masterq' : IsReady(masterq'[i], a) =>
         i + shift \in DOMAIN masterq /\ IsReady(masterq[i + shift], a)
    OBVIOUS
<1>3. ReadySentInv'
    BY <1>2 DEF ReadySentInv
<1>4. \A a \in Agent : \A i \in DOMAIN masterq' : IsRegistration(masterq'[i], a) =>
         agent'[a].pc \in {"calling", "dead", "gone"} /\ agent'[a].path = None
    BY <1>1 DEF RegistrationsInv
<1>5. \A a \in Agent : \A i \in DOMAIN masterq', k \in DOMAIN masterq' :
         IsRegistration(masterq'[i], a) /\ IsRegistration(masterq'[k], a) => i = k
    <2> SUFFICES ASSUME NEW a \in Agent, NEW i \in DOMAIN masterq', NEW k \in DOMAIN masterq',
                        IsRegistration(masterq'[i], a), IsRegistration(masterq'[k], a)
                 PROVE  i = k
        OBVIOUS
    <2>1. i + shift = k + shift
        BY <1>1 DEF RegistrationsInv
    <2> QED
        BY <2>1
<1>6. \A a \in Agent : \A i \in DOMAIN masterq' :
         IsRegistration(masterq'[i], a) /\ agent'[a].pc = "gone" =>
              \E j \in DOMAIN masterq' : i < j /\ masterq'[j] = UniqueLost(a)
    <2> SUFFICES ASSUME NEW a \in Agent, NEW i \in DOMAIN masterq',
                        IsRegistration(masterq'[i], a), agent'[a].pc = "gone"
                 PROVE  \E j \in DOMAIN masterq' : i < j /\ masterq'[j] = UniqueLost(a)
        OBVIOUS
    <2>1. i + shift \in DOMAIN masterq /\ IsRegistration(masterq[i + shift], a)
        BY <1>1
    <2>2. CASE agent[a].pc = "gone"
        <3>1. PICK j \in DOMAIN masterq : i + shift < j /\ masterq[j] = UniqueLost(a)
            BY <2>1, <2>2 DEF RegistrationsInv
        <3>2. j # shift /\ i < j - shift
            BY <3>1
        <3> QED
            BY <3>1, <3>2
    <2>3. CASE agent[a].pc # "gone"
        <3>1. PICK j \in DOMAIN masterq' : /\ masterq'[j] = UniqueLost(a)
                                           /\ \A k \in DOMAIN masterq : k - shift < j
            BY <2>3
        <3>2. (i + shift) - shift < j
            BY <2>1, <3>1
        <3> QED
            BY <3>1, <3>2
    <2> QED
        BY <2>2, <2>3
<1> QED
    BY <1>3, <1>4, <1>5, <1>6 DEF RegistrationsInv

\* The part of a host record that says who serves it.
SameAgent(rec, old) == rec.agent_bus_name = old.agent_bus_name /\ rec.ready = old.ready

\* A host record without an agent.
NoAgent(rec) == rec.agent_bus_name = None /\ ~rec.ready

\* The agents that registered keep their hosts and do not come back to life.
AgentsGoOn ==
    \A a \in Agent : Registered(a) =>
        /\ Registered(a)'
        /\ agent'[a].path = agent[a].path
        /\ agent[a].pc \in {"dead", "gone"} => agent'[a].pc \in {"dead", "gone"}
        /\ agent[a].pc \in {"serving", "dead", "gone"}
              => agent'[a].pc \in {"serving", "dead", "gone"}

\* No host gets an agent, and a host that keeps its agent keeps the name's meaning.
HostsKeepOrLose ==
    /\ globalHosts' \subseteq globalHosts
    /\ \A h \in globalHosts' :
          \/ NoAgent(host'[h])
          \/ /\ SameAgent(host'[h], host[h])
             /\ host[h].agent_bus_name \in BusName =>
                   mapping'[host[h].agent_bus_name] = mapping[host[h].agent_bus_name]

\* The loss of an agent is heard of when its host has lost it, not before.
LossesHeard ==
    \A h \in globalHosts', a \in Agent :
        host'[h].agent_bus_name = a /\ agent'[a].pc = "gone" =>
            \/ Pending(UniqueLost(a))'
            \/ agent[a].pc = "gone" /\ ~Pending(UniqueLost(a))

\* An agent gets behind a listed host only when it had no host before.
NoSecondHost ==
    \A h \in globalHosts', a \in Agent : Behind(host[h].agent_bus_name, a)' =>
        \/ h \in globalHosts /\ Behind(host[h].agent_bus_name, a)
        \/ agent[a].path = None

\* What every step does for the agents.
StepFacts == AgentsGoOn /\ NoSecondHost

\* Steps in which hosts keep their agents or lose them.
LEMMA HostsFrame ==
    ASSUME HostsInv, AgentsGoOn, HostsKeepOrLose, LossesHeard
    PROVE  HostsInv' /\ StepFacts
<1>0. None \notin Agent /\ None \notin BusName
    BY ConstantsAssumption
<1> USE DEF AgentsGoOn, HostsKeepOrLose, LossesHeard
<1>1. \A h \in globalHosts', a \in Agent : Behind(host[h].agent_bus_name, a)' =>
         /\ SameAgent(host'[h], host[h])
         /\ Behind(host[h].agent_bus_name, a)
    BY <1>0 DEF Behind, NoAgent, SameAgent
<1>2. NamedInv'
    BY <1>0 DEF HostsInv, NamedInv, NoAgent, SameAgent
<1>3. BehindInv'
    BY <1>1 DEF HostsInv, BehindInv
<1>4. GoneInv'
    BY <1>0 DEF HostsInv, GoneInv, NoAgent, SameAgent
<1>5. ReadyInv'
    <2>1. \A h \in globalHosts' : host'[h].ready => host'[h].agent_bus_name # None
        BY DEF HostsInv, ReadyInv, NoAgent, SameAgent
    <2>2. \A h \in globalHosts', a \in Agent :
              host'[h].ready /\ Behind(host[h].agent_bus_name, a)' =>
                  agent'[a].path = h /\ agent'[a].pc \in {"serving", "dead", "gone"}
        BY <1>1 DEF HostsInv, ReadyInv, BehindInv, SameAgent
    <2> QED
        BY <2>1, <2>2 DEF ReadyInv
<1>6. OneHostPerAgent'
    BY DEF HostsInv, OneHostPerAgent, NoAgent, SameAgent
<1>7. StepFacts
    BY <1>1 DEF StepFacts, NoSecondHost
<1> QED
    BY <1>2, <1>3, <1>4, <1>5, <1>6, <1>7 DEF HostsInv

\* What changes when an agent goes on.
LEMMA SetPcFacts ==
    ASSUME TypeOK, NEW a \in Agent, NEW pc, SetPc(a, pc)
    PROVE  /\ agent'[a].pc = pc /\ agent'[a].path = agent[a].path
           /\ \A b \in Agent : b # a => agent'[b] = agent[b]
BY DEF TypeOK, SetPc, AgentRec

\* The agent reads its host, stops or crashes: no message is involved.
LEMMA QuietStepServed ==
    ASSUME ServedInv, TypeInv', NEW a \in Agent, AgentSetup(a) \/ AgentStop(a) \/ AgentCrash(a)
    PROVE  ServedInv' /\ StepFacts
<1>f. TypeOK /\ NamesInv /\ TurnsInv /\ PathsInv /\ RegistrationsInv /\ ReadySentInv /\ HostsInv
    BY DEF ServedInv, QueueInv, TypeInv
<1>u. /\ busOwner' = busOwner /\ masterq' = masterq /\ mapping' = mapping
      /\ host' = host /\ globalHosts' = globalHosts
    BY DEF AgentSetup, AgentStop, AgentCrash, masterVars
<1>1. \/ agent[a].pc = "replied" /\ agent'[a].pc = "subscribed"
      \/ agent[a].pc \in Alive /\ agent'[a].pc = "dead"
    BY <1>f, SetPcFacts DEF AgentSetup, AgentStop, AgentCrash, Alive, AgentPc
<1>2. /\ agent'[a].path = agent[a].path
      /\ \A b \in Agent : b # a => agent'[b] = agent[b]
    BY <1>f, SetPcFacts DEF AgentSetup, AgentStop, AgentCrash
<1>3. agent[a].pc \notin {"off", "dead", "gone"} /\ agent'[a].pc \notin {"off", "named", "calling", "gone"}
    BY <1>1 DEF Alive
<1>4. TurnsInv'
    BY <1>f, <1>u, TurnsKept
<1>5. NamesInv'
    <2>1. \A b \in Agent, w \in BusName : Linked(b, w)' => Linked(b, w)
        BY <1>u DEF Linked, Pending
    <2>2. \A b \in Agent : agent[b].pc # "off" => agent'[b].pc # "off"
        BY <1>2, <1>3
    <2>3. \A b \in Agent : agent[b].pc # "gone" => agent'[b].pc # "gone"
        BY <1>2, <1>3
    <2> QED
        BY <1>f, <1>u, <2>1, <2>2, <2>3 DEF NamesInv
<1>6. PathsInv'
    BY <1>f, <1>1, <1>2, <1>3 DEF PathsInv, Alive, AgentPc
<1>7. RegistrationsInv' /\ ReadySentInv'
    <2>1. \A i \in DOMAIN masterq : IsRegistration(masterq[i], a) => agent'[a].pc = "dead" /\ agent[a].path = None
        BY <1>f, <1>1 DEF RegistrationsInv
    <2>2. \A i \in DOMAIN masterq : IsReady(masterq[i], a) => agent'[a].pc = "dead" /\ agent[a].path # None
        BY <1>f, <1>1 DEF ReadySentInv
    <2>3. RegistrationsInv'
        BY <1>f, <1>u, <1>2, <1>3, <2>1 DEF RegistrationsInv
    <2>4. ReadySentInv'
        BY <1>f, <1>u, <1>2, <2>2 DEF ReadySentInv
    <2> QED
        BY <2>3, <2>4
<1>8. HostsInv' /\ StepFacts
    <2>1. \A b \in Agent : Registered(b) => Registered(b)' /\ agent'[b].path = agent[b].path
        BY <1>u, <1>2, <1>3 DEF Registered
    <2>2. \A b \in Agent : agent[b].pc \in {"dead", "gone"} => agent'[b].pc \in {"dead", "gone"}
        BY <1>2, <1>3
    <2>3. \A b \in Agent : agent[b].pc \in {"serving", "dead", "gone"}
             => agent'[b].pc \in {"serving", "dead", "gone"}
        BY <1>1, <1>2, <1>3
    <2>4. \A b \in Agent : agent'[b].pc = "gone" => agent[b].pc = "gone"
        BY <1>2, <1>3
    <2>5. \A h \in globalHosts : SameAgent(host'[h], host[h])
        BY <1>u DEF SameAgent
    <2>6. \A x : Pending(x)' <=> Pending(x)
        BY <1>u DEF Pending
    <2>7. AgentsGoOn
        BY <2>1, <2>2, <2>3 DEF AgentsGoOn
    <2>8. HostsKeepOrLose
        BY <1>u, <2>5 DEF HostsKeepOrLose
    <2>9. LossesHeard
        BY <2>4, <2>6 DEF LossesHeard
    <2> QED
        BY <1>f, <2>7, <2>8, <2>9, HostsFrame
<1> QED
    BY <1>4, <1>5, <1>6, <1>7, <1>8 DEF ServedInv, QueueInv

\* An agent starts and gets a name.
LEMMA StartServed ==
    ASSUME ServedInv, TypeInv', NEW a \in Agent, AgentStart(a)
    PROVE  ServedInv' /\ StepFacts
<1>f. TypeOK /\ NamesInv /\ TurnsInv /\ PathsInv /\ RegistrationsInv /\ ReadySentInv /\ HostsInv
    BY DEF ServedInv, QueueInv, TypeInv
<1>u. mapping' = mapping /\ host' = host /\ globalHosts' = globalHosts
    BY DEF AgentStart, masterVars
<1>1. PICK w \in BusName :
         /\ busOwner[w] = None
         /\ busOwner' = [busOwner EXCEPT ![w] = a]
         /\ Send(NameTaken(w, a)) \/ UNCHANGED masterq
    BY DEF AgentStart, NameTaken
<1>2. agent[a].pc = "off" /\ agent'[a].pc = "named" /\ agent'[a].path = agent[a].path
    BY <1>f, SetPcFacts DEF AgentStart
<1>3. \A b \in Agent : b # a => agent'[b] = agent[b]
    BY <1>f, SetPcFacts DEF AgentStart
<1>4. TurnsInv'
    BY <1>f, <1>u, <1>1, TurnsStart
<1>5. \A b \in Agent, v \in BusName : Linked(b, v)' => Linked(b, v) \/ (b = a /\ v = w)
    <2>1. \A b \in Agent, v \in BusName : NameTaken(v, b) = NameTaken(w, a) => b = a /\ v = w
        BY DEF NameTaken
    <2>2. \A b \in Agent, v \in BusName : Pending(NameTaken(v, b))' =>
             Pending(NameTaken(v, b)) \/ NameTaken(v, b) = NameTaken(w, a)
        BY <1>f, <1>1, PendingAppend DEF Pending
    <2>3. \A b \in Agent, v \in BusName : busOwner'[v] = b => busOwner[v] = b \/ (b = a /\ v = w)
        BY <1>f, <1>1 DEF TypeOK
    <2> QED
        BY <1>u, <2>1, <2>2, <2>3 DEF Linked
<1>6. NamesInv'
    <2>1. \A v \in BusName : ~Linked(a, v)
        BY <1>f, <1>2 DEF NamesInv
    <2>2. \A b \in Agent, v \in BusName : Linked(b, v)' => agent'[b].pc # "off"
        BY <1>f, <1>2, <1>3, <1>5 DEF NamesInv
    <2>3. \A b \in Agent, v \in BusName, x \in BusName : Linked(b, v)' /\ Linked(b, x)' => v = x
        BY <1>f, <1>5, <2>1 DEF NamesInv
    <2>4. \A b \in Agent, v \in BusName : busOwner'[v] = b => agent'[b].pc # "gone"
        <3>1. \A b \in Agent, v \in BusName : busOwner'[v] = b => busOwner[v] = b \/ b = a
            BY <1>f, <1>1 DEF TypeOK
        <3> QED
            BY <1>f, <1>2, <1>3, <3>1 DEF NamesInv
    <2> QED
        BY <2>2, <2>3, <2>4 DEF NamesInv
<1>7. PathsInv'
    BY <1>f, <1>2, <1>3 DEF PathsInv
<1>q. /\ DOMAIN masterq \subseteq Nat /\ DOMAIN masterq' \subseteq Nat
      /\ \A i \in DOMAIN masterq : i \in DOMAIN masterq' /\ masterq'[i] = masterq[i]
      /\ \A i \in DOMAIN masterq' : i \in DOMAIN masterq \/ masterq'[i] = NameTaken(w, a)
    <2>1. CASE Send(NameTaken(w, a))
        <3>1. PICK n \in Nat : /\ DOMAIN masterq' = DOMAIN masterq \cup {n}
                               /\ masterq'[n] = NameTaken(w, a)
                               /\ \A i \in DOMAIN masterq : i \in Nat /\ i < n
                               /\ \A i \in DOMAIN masterq : masterq'[i] = masterq[i]
            BY <1>f, <2>1, AppendQueue DEF TypeOK, Send
        <3> QED
            BY <3>1
    <2>2. CASE UNCHANGED masterq
        <3>1. DOMAIN masterq = 1 .. Len(masterq) /\ Len(masterq) \in Nat
            BY <1>f, LenProperties DEF TypeOK
        <3> QED
            BY <2>2, <3>1
    <2> QED
        BY <1>1, <2>1, <2>2
<1>m. \A b \in Agent : ~IsRegistration(NameTaken(w, a), b) /\ ~IsReady(NameTaken(w, a), b)
    BY DEF NameTaken, IsRegistration, IsReady
<1>8. RegistrationsInv' /\ ReadySentInv'
    <2>1. \A i \in DOMAIN masterq : i + 0 = i /\ i - 0 = i
        BY <1>q
    <2>2. \A i \in DOMAIN masterq' : i + 0 = i
        BY <1>q
    <2>3. \A i \in DOMAIN masterq' :
               \/ i + 0 \in DOMAIN masterq /\ masterq'[i] = masterq[i + 0]
               \/ \A b \in Agent : ~IsRegistration(masterq'[i], b) /\ ~IsReady(masterq'[i], b)
        BY <1>q, <1>m, <2>2
    <2>4. \A i \in DOMAIN masterq : i - 0 \in DOMAIN masterq' /\ masterq'[i - 0] = masterq[i]
        BY <1>q, <2>1
    <2> QED
        BY <1>f, <1>q, <1>2, <1>3, <2>3, <2>4, MessagesFrame
<1>9. HostsInv' /\ StepFacts
    <2>1. \A b \in Agent : Registered(b) => Registered(b)' /\ agent'[b] = agent[b]
        BY <1>q, <1>m, <1>2, <1>3 DEF Registered
    <2>2. \A b \in Agent : agent'[b].pc = "gone" => agent[b].pc = "gone"
        BY <1>2, <1>3
    <2>3. \A h \in globalHosts : SameAgent(host'[h], host[h])
        BY <1>u DEF SameAgent
    <2>4. \A x : Pending(x) => Pending(x)'
        BY <1>q DEF Pending
    <2>5. AgentsGoOn
        BY <2>1 DEF AgentsGoOn
    <2>6. HostsKeepOrLose
        BY <1>u, <2>3 DEF HostsKeepOrLose
    <2>7. LossesHeard
        BY <2>2, <2>4 DEF LossesHeard
    <2> QED
        BY <1>f, <2>5, <2>6, <2>7, HostsFrame
<1> QED
    BY <1>4, <1>6, <1>7, <1>8, <1>9 DEF ServedInv, QueueInv

\* What an agent's own messages change in the queue, and what they do not.
LEMMA AgentSends ==
    ASSUME TypeOK, NamesInv, TurnsInv, NEW m \in Message, Send(m),
           m.type \notin {"NameOwnerChanged", "UniqueNameLost"},
           UNCHANGED <<mapping, busOwner>>,
           \A b \in Agent : agent[b].pc # "off" => agent'[b].pc # "off",
           \A b \in Agent : agent[b].pc # "gone" => agent'[b].pc # "gone"
    PROVE  /\ TurnsInv' /\ NamesInv'
           /\ \A x : Pending(x) => Pending(x)'
           /\ \E n \in Nat : /\ DOMAIN masterq' = DOMAIN masterq \cup {n}
                             /\ masterq'[n] = m
                             /\ \A i \in DOMAIN masterq : i \in Nat /\ i < n
                             /\ \A i \in DOMAIN masterq : masterq'[i] = masterq[i]
<1>1. TurnsInv'
    BY TurnsAppend
<1>2. \A b \in Agent, w \in BusName : Pending(NameTaken(w, b))' => Pending(NameTaken(w, b))
    <2>1. \A b \in Agent, w \in BusName : NameTaken(w, b) # m
        BY DEF NameTaken
    <2> QED
        BY <2>1, PendingAppend
<1>3. NamesInv'
    <2>1. \A b \in Agent, w \in BusName : Linked(b, w)' => Linked(b, w)
        BY <1>2 DEF Linked
    <2> QED
        BY <2>1 DEF NamesInv
<1>4. \A x : Pending(x) => Pending(x)'
    BY PendingAppend
<1>5. \E n \in Nat : /\ DOMAIN masterq' = DOMAIN masterq \cup {n}
                     /\ masterq'[n] = m
                     /\ \A i \in DOMAIN masterq : i \in Nat /\ i < n
                     /\ \A i \in DOMAIN masterq : masterq'[i] = masterq[i]
    BY AppendQueue DEF TypeOK, Send
<1> QED
    BY <1>1, <1>3, <1>4, <1>5

\* An agent asks to be registered.
LEMMA RegisterServed ==
    ASSUME ServedInv, TypeInv', NEW a \in Agent, AgentRegister(a)
    PROVE  ServedInv' /\ StepFacts
<1>f. TypeOK /\ NamesInv /\ TurnsInv /\ PathsInv /\ RegistrationsInv /\ ReadySentInv /\ HostsInv
    BY DEF ServedInv, QueueInv, TypeInv
<1>u. /\ mapping' = mapping /\ host' = host /\ globalHosts' = globalHosts
      /\ busOwner' = busOwner
    BY DEF AgentRegister, masterVars
<1>1. PICK m \in Message : Send(m) /\ m.type \in {"createHost", "reconnect"} /\ m.sender = a
    <2> DEFINE mm == MachineOf[a]
    <2>a. mm \in Machine /\ HostnameOf[mm] \in Name /\ stateFile[mm] \in Uuid \cup {None}
        BY <1>f, ConstantsAssumption DEF TypeOK
    <2>1. /\ [type |-> "reconnect", sender |-> a, name |-> HostnameOf[mm],
              uuid |-> stateFile[mm]] \in Message
          /\ [type |-> "createHost", sender |-> a, name |-> HostnameOf[mm],
              uuid |-> None] \in Message
        BY <2>a DEF Message
    <2> QED
        BY <2>1 DEF AgentRegister
<1>2. agent[a].pc = "named" /\ agent'[a].pc = "calling" /\ agent'[a].path = agent[a].path
    BY <1>f, SetPcFacts DEF AgentRegister
<1>3. \A b \in Agent : b # a => agent'[b] = agent[b]
    BY <1>f, SetPcFacts DEF AgentRegister
<1>4. /\ \A b \in Agent : agent[b].pc # "off" => agent'[b].pc # "off"
      /\ \A b \in Agent : agent[b].pc # "gone" => agent'[b].pc # "gone"
      /\ \A b \in Agent : agent'[b].pc = "gone" => agent[b].pc = "gone"
    BY <1>2, <1>3
<1>5. /\ TurnsInv' /\ NamesInv'
      /\ \A x : Pending(x) => Pending(x)'
    BY <1>f, <1>u, <1>1, <1>4, AgentSends
<1>6. PICK n \in Nat : /\ DOMAIN masterq' = DOMAIN masterq \cup {n}
                       /\ masterq'[n] = m
                       /\ \A i \in DOMAIN masterq : i \in Nat /\ i < n
                       /\ \A i \in DOMAIN masterq : masterq'[i] = masterq[i]
    BY <1>f, <1>1, AppendQueue DEF TypeOK, Send
<1>7. PathsInv'
    BY <1>f, <1>2, <1>3 DEF PathsInv
<1>8. /\ \A b \in Agent : IsRegistration(m, b) => b = a
      /\ \A b \in Agent : ~IsReady(m, b)
      /\ agent[a].path = None
      /\ \A i \in DOMAIN masterq : ~IsRegistration(masterq[i], a)
      /\ \A i \in DOMAIN masterq : ~IsReady(masterq[i], a)
    <2>1. \A b \in Agent : (IsRegistration(m, b) => b = a) /\ ~IsReady(m, b)
        BY <1>1 DEF IsRegistration, IsReady
    <2>2. agent[a].path = None
        BY <1>f, <1>2 DEF PathsInv
    <2>3. \A i \in DOMAIN masterq : ~IsRegistration(masterq[i], a)
        BY <1>f, <1>2 DEF RegistrationsInv
    <2>4. \A i \in DOMAIN masterq : ~IsReady(masterq[i], a)
        BY <1>f, <1>2 DEF ReadySentInv
    <2> QED
        BY <2>1, <2>2, <2>3, <2>4
<1>9. ReadySentInv'
    BY <1>f, <1>3, <1>6, <1>8 DEF ReadySentInv
<1>10. RegistrationsInv'
    BY <1>f, <1>2, <1>3, <1>6, <1>8 DEF RegistrationsInv
<1>11. HostsInv' /\ StepFacts
    <2>1. \A b \in Agent : Registered(b) => Registered(b)' /\ agent'[b] = agent[b]
        BY <1>2, <1>3, <1>6, <1>8 DEF Registered
    <2>2. AgentsGoOn
        BY <2>1 DEF AgentsGoOn
    <2>3. HostsKeepOrLose
        BY <1>u DEF HostsKeepOrLose, SameAgent
    <2>4. LossesHeard
        BY <1>4, <1>5 DEF LossesHeard
    <2> QED
        BY <1>f, <2>2, <2>3, <2>4, HostsFrame
<1> QED
    BY <1>5, <1>7, <1>9, <1>10, <1>11 DEF ServedInv, QueueInv

\* An agent publishes its capabilities or announces itself.
LEMMA AnnounceServed ==
    ASSUME ServedInv, TypeInv', NEW a \in Agent, AgentPublish(a) \/ AgentReady(a)
    PROVE  ServedInv' /\ StepFacts
<1>f. TypeOK /\ NamesInv /\ TurnsInv /\ PathsInv /\ RegistrationsInv /\ ReadySentInv /\ HostsInv
    BY DEF ServedInv, QueueInv, TypeInv
<1>u. /\ mapping' = mapping /\ host' = host /\ globalHosts' = globalHosts
      /\ busOwner' = busOwner
    BY DEF AgentPublish, AgentReady, masterVars
<1>1. PICK m \in Message : /\ Send(m)
                           /\ m.type \in {"publish", "ready"} /\ m.sender = a
                           /\ m.type = "ready" => agent'[a].pc = "serving"
    <2>1. [type |-> "publish", sender |-> a] \in Message /\ [type |-> "ready", sender |-> a] \in Message
        BY DEF Message
    <2>2. CASE AgentPublish(a)
        <3>1. Send([type |-> "publish", sender |-> a])
            BY <2>2 DEF AgentPublish
        <3> QED
            BY <2>1, <3>1
    <2>3. CASE AgentReady(a)
        <3>1. Send([type |-> "ready", sender |-> a]) /\ agent'[a].pc = "serving"
            BY <1>f, <2>3, SetPcFacts DEF AgentReady
        <3> QED
            BY <2>1, <3>1
    <2> QED
        BY <2>2, <2>3
<1>2. /\ agent[a].pc \in {"subscribed", "published"}
      /\ agent'[a].pc \in {"publishing", "serving"} /\ agent'[a].path = agent[a].path
    BY <1>f, SetPcFacts DEF AgentPublish, AgentReady
<1>3. \A b \in Agent : b # a => agent'[b] = agent[b]
    BY <1>f, SetPcFacts DEF AgentPublish, AgentReady
<1>4. /\ \A b \in Agent : agent[b].pc # "off" => agent'[b].pc # "off"
      /\ \A b \in Agent : agent[b].pc # "gone" => agent'[b].pc # "gone"
      /\ \A b \in Agent : agent'[b].pc = "gone" => agent[b].pc = "gone"
    BY <1>2, <1>3
<1>5. /\ TurnsInv' /\ NamesInv'
      /\ \A x : Pending(x) => Pending(x)'
    BY <1>f, <1>u, <1>1, <1>4, AgentSends
<1>6. PICK n \in Nat : /\ DOMAIN masterq' = DOMAIN masterq \cup {n}
                       /\ masterq'[n] = m
                       /\ \A i \in DOMAIN masterq : i \in Nat /\ i < n
                       /\ \A i \in DOMAIN masterq : masterq'[i] = masterq[i]
    BY <1>f, <1>1, AppendQueue DEF TypeOK, Send
<1>7. PathsInv'
    BY <1>f, <1>2, <1>3 DEF PathsInv
<1>8. /\ \A b \in Agent : ~IsRegistration(m, b)
      /\ \A b \in Agent : IsReady(m, b) => b = a /\ agent'[a].pc = "serving"
      /\ agent[a].path # None
      /\ \A i \in DOMAIN masterq : ~IsRegistration(masterq[i], a)
      /\ \A i \in DOMAIN masterq : ~IsReady(masterq[i], a)
    <2>1. \A b \in Agent : /\ ~IsRegistration(m, b)
                           /\ IsReady(m, b) => b = a /\ agent'[a].pc = "serving"
        BY <1>1 DEF IsRegistration, IsReady
    <2>2. agent[a].path # None
        BY <1>f, <1>2 DEF PathsInv
    <2>3. \A i \in DOMAIN masterq : ~IsRegistration(masterq[i], a)
        BY <1>f, <1>2 DEF RegistrationsInv
    <2>4. \A i \in DOMAIN masterq : ~IsReady(masterq[i], a)
        BY <1>f, <1>2 DEF ReadySentInv
    <2> QED
        BY <2>1, <2>2, <2>3, <2>4
<1>9. ReadySentInv'
    BY <1>f, <1>2, <1>3, <1>6, <1>8 DEF ReadySentInv
<1>10. RegistrationsInv'
    BY <1>f, <1>2, <1>3, <1>6, <1>8 DEF RegistrationsInv
<1>11. HostsInv' /\ StepFacts
    <2>1. \A b \in Agent : Registered(b) => Registered(b)'
        BY <1>2, <1>3, <1>6, <1>8 DEF Registered
    <2>2. AgentsGoOn
        BY <1>2, <1>3, <2>1 DEF AgentsGoOn
    <2>3. HostsKeepOrLose
        BY <1>u DEF HostsKeepOrLose, SameAgent
    <2>4. LossesHeard
        BY <1>4, <1>5 DEF LossesHeard
    <2> QED
        BY <1>f, <2>2, <2>3, <2>4, HostsFrame
<1> QED
    BY <1>5, <1>7, <1>9, <1>10, <1>11 DEF ServedInv, QueueInv

\* The bus daemon notices that an agent is gone.
LEMMA ExitServed ==
    ASSUME ServedInv, TypeInv', NEW a \in Agent, BusNoticesExit(a)
    PROVE  ServedInv' /\ StepFacts
<1>f. TypeOK /\ NamesInv /\ TurnsInv /\ PathsInv /\ RegistrationsInv /\ ReadySentInv /\ HostsInv
    BY DEF ServedInv, QueueInv, TypeInv
<1>u. mapping' = mapping /\ host' = host /\ globalHosts' = globalHosts
    BY DEF BusNoticesExit, masterVars
<1>1. PICK w \in BusName : Frees(w, a)
    BY DEF BusNoticesExit, Frees, NameFreed, UniqueLost
<1>2. agent[a].pc = "dead" /\ agent'[a].pc = "gone" /\ agent'[a].path = agent[a].path
    BY <1>f, SetPcFacts DEF BusNoticesExit
<1>3. \A b \in Agent : b # a => agent'[b] = agent[b]
    BY <1>f, SetPcFacts DEF BusNoticesExit
<1>4. TurnsInv'
    BY <1>f, <1>u, <1>1, TurnsExit
<1>5. /\ \A x : Pending(x)' <=> Pending(x) \/ x \in {NameFreed(w), UniqueLost(a)}
    BY <1>f, <1>1, PendingFrees
<1>6. NamesInv'
    <2>0. \A b \in Agent, v \in BusName : NameTaken(v, b) \notin {NameFreed(w), UniqueLost(a)}
        BY MessageKinds
    <2>1. \A b \in Agent, v \in BusName : busOwner'[v] = b => busOwner[v] = b /\ v # w
        BY <1>f, <1>1, ConstantsAssumption DEF TypeOK, Frees
    <2>2. \A b \in Agent, v \in BusName : Linked(b, v)' => Linked(b, v)
        BY <1>u, <1>5, <2>0, <2>1 DEF Linked
    <2>3. busOwner[w] = a
        BY <1>1 DEF Frees
    <2>4. \A b \in Agent, v \in BusName : busOwner'[v] = b => b # a
        BY <1>f, <2>1, <2>3 DEF NamesInv, Linked
    <2>5. \A b \in Agent, v \in BusName : Linked(b, v)' => agent'[b].pc # "off"
        BY <1>f, <1>2, <1>3, <2>2 DEF NamesInv
    <2>6. \A b \in Agent, v \in BusName : busOwner'[v] = b => agent'[b].pc # "gone"
        BY <1>f, <1>3, <2>1, <2>4 DEF NamesInv
    <2> QED
        BY <1>f, <2>2, <2>5, <2>6 DEF NamesInv
<1>7. PathsInv'
    BY <1>f, <1>2, <1>3 DEF PathsInv
<1>m. NameFreed(w) \in Message /\ UniqueLost(a) \in Message
    BY DEF Message, NameFreed, UniqueLost
<1>q. PICK n \in Nat :
         /\ DOMAIN masterq' = DOMAIN masterq \cup {n, n + 1}
         /\ masterq'[n] = NameFreed(w) /\ masterq'[n + 1] = UniqueLost(a)
         /\ \A i \in DOMAIN masterq : i \in Nat /\ i < n
         /\ \A i \in DOMAIN masterq : masterq'[i] = masterq[i]
    BY <1>f, <1>1, <1>m, AppendTwo DEF TypeOK, Frees
<1>k. \A b \in Agent : /\ ~IsRegistration(masterq'[n], b) /\ ~IsReady(masterq'[n], b)
                       /\ ~IsRegistration(masterq'[n + 1], b) /\ ~IsReady(masterq'[n + 1], b)
    BY <1>q DEF NameFreed, UniqueLost, IsRegistration, IsReady
<1>8. ReadySentInv'
    BY <1>f, <1>2, <1>3, <1>q, <1>k DEF ReadySentInv
<1>9. RegistrationsInv'
    <2>1. \A b \in Agent : \A i \in DOMAIN masterq' : IsRegistration(masterq'[i], b) =>
             i \in DOMAIN masterq /\ IsRegistration(masterq[i], b)
        BY <1>q, <1>k
    <2>2. \A b \in Agent : \A i \in DOMAIN masterq' : IsRegistration(masterq'[i], b) =>
             agent'[b].pc \in {"calling", "dead", "gone"} /\ agent'[b].path = None
        BY <1>f, <1>2, <1>3, <2>1 DEF RegistrationsInv
    <2>3. \A b \in Agent : \A i \in DOMAIN masterq', k \in DOMAIN masterq' :
             IsRegistration(masterq'[i], b) /\ IsRegistration(masterq'[k], b) => i = k
        BY <1>f, <2>1 DEF RegistrationsInv
    <2>4. \A b \in Agent : \A i \in DOMAIN masterq' :
             IsRegistration(masterq'[i], b) /\ agent'[b].pc = "gone" =>
                 \E j \in DOMAIN masterq' : i < j /\ masterq'[j] = UniqueLost(b)
        <3> SUFFICES ASSUME NEW b \in Agent, NEW i \in DOMAIN masterq',
                            IsRegistration(masterq'[i], b), agent'[b].pc = "gone"
                     PROVE  \E j \in DOMAIN masterq' : i < j /\ masterq'[j] = UniqueLost(b)
            OBVIOUS
        <3>1. i \in DOMAIN masterq /\ IsRegistration(masterq[i], b)
            BY <2>1
        <3>2. CASE b = a
            <4>1. n + 1 \in DOMAIN masterq' /\ i < n + 1
                BY <1>q, <3>1
            <4> QED
                BY <1>q, <3>2, <4>1
        <3>3. CASE b # a
            <4>1. PICK j \in DOMAIN masterq : i < j /\ masterq[j] = UniqueLost(b)
                BY <1>f, <1>3, <3>1, <3>3 DEF RegistrationsInv
            <4> QED
                BY <1>q, <4>1
        <3> QED
            BY <3>2, <3>3
    <2> QED
        BY <2>2, <2>3, <2>4 DEF RegistrationsInv
<1>10. HostsInv' /\ StepFacts
    <2>1. \A b \in Agent : Registered(b) => Registered(b)'
        BY <1>2, <1>3, <1>q, <1>k DEF Registered
    <2>2. AgentsGoOn
        BY <1>2, <1>3, <2>1 DEF AgentsGoOn
    <2>3. HostsKeepOrLose
        BY <1>u DEF HostsKeepOrLose, SameAgent
    <2>4. LossesHeard
        <3>1. Pending(UniqueLost(a))' /\ \A x : Pending(x) => Pending(x)'
            BY <1>5
        <3> QED
            BY <1>3, <3>1 DEF LossesHeard
    <2> QED
        BY <1>f, <2>2, <2>3, <2>4, HostsFrame
<1> QED
    BY <1>4, <1>6, <1>7, <1>8, <1>9, <1>10 DEF ServedInv, QueueInv

\* The agents as the messages of the queue need them, in a step of the master.
RepliesInOrder ==
    /\ \A a \in Agent : agent[a].pc \in {"calling", "dead", "gone"} /\ agent[a].path = None =>
          \/ agent'[a].pc \in {"calling", "dead", "gone"} /\ agent'[a].path = None
          \/ \A i \in DOMAIN masterq' : ~IsRegistration(masterq'[i], a)
    /\ \A a \in Agent : agent[a].pc \in {"serving", "dead", "gone"} /\ agent[a].path # None =>
          agent'[a].pc \in {"serving", "dead", "gone"} /\ agent'[a].path # None
    /\ \A a \in Agent : agent[a].pc \notin {"off", "named"} => agent'[a].pc \notin {"off", "named"}
    /\ \A a \in Agent : agent[a].pc = "named" => agent'[a].pc = "named"
    /\ \A a \in Agent : agent'[a].pc = "gone" => agent[a].pc = "gone"

\* The master takes a message from the queue.
LEMMA ReceiveServed ==
    ASSUME TypeOK, NamesInv, RegistrationsInv, ReadySentInv, NEW type, Receive(type),
           UNCHANGED busOwner, RepliesInOrder,
           \A a \in Agent, w \in BusName : mapping'[w] = a => Linked(a, w)
    PROVE  /\ NamesInv' /\ RegistrationsInv' /\ ReadySentInv'
           /\ \A a \in Agent : Registered(a) => Registered(a)'
<1>1. /\ 1 \in DOMAIN masterq /\ masterq[1] = Head(masterq)
      /\ DOMAIN masterq \subseteq Nat /\ DOMAIN masterq' \subseteq Nat
      /\ \A i \in DOMAIN masterq' : i + 1 \in DOMAIN masterq /\ masterq'[i] = masterq[i + 1]
      /\ \A i \in DOMAIN masterq : i # 1 =>
            i - 1 \in DOMAIN masterq' /\ masterq'[i - 1] = masterq[i]
    BY TailQueue DEF TypeOK, Receive
<1>2. RegistrationsInv' /\ ReadySentInv'
    BY <1>1, MessagesFrame DEF RepliesInOrder
<1>3. NamesInv'
    <2>1. \A a \in Agent, w \in BusName : Pending(NameTaken(w, a))' => Pending(NameTaken(w, a))
        BY PendingTail
    <2>2. \A a \in Agent, w \in BusName : Linked(a, w)' => Linked(a, w)
        BY <2>1 DEF Linked
    <2>3. \A a \in Agent, w \in BusName : Linked(a, w)' => agent'[a].pc # "off"
        <3>1. \A a \in Agent, w \in BusName : Linked(a, w) => agent[a].pc # "off"
            BY DEF NamesInv
        <3>2. \A a \in Agent : agent'[a].pc = "off" => agent[a].pc \in {"off", "named"}
            BY DEF RepliesInOrder
        <3>3. \A a \in Agent : agent[a].pc = "named" => agent'[a].pc # "off"
            BY DEF RepliesInOrder
        <3> QED
            BY <2>2, <3>1, <3>2, <3>3
    <2>4. \A a \in Agent, w \in BusName : busOwner'[w] = a => agent'[a].pc # "gone"
        BY DEF NamesInv, RepliesInOrder
    <2> QED
        BY <2>2, <2>3, <2>4 DEF NamesInv
<1>4. \A a \in Agent : Registered(a) => Registered(a)'
    BY <1>1 DEF Registered, RepliesInOrder
<1> QED
    BY <1>2, <1>3, <1>4

\* NULL is not a host object.
LEMMA NoneIsNoHost == None \notin Host
<1>1. Host \subseteq Nat
    BY ConstantsAssumption DEF Host
<1>2. None \notin Nat
    BY ConstantsAssumption
<1> QED
    BY <1>1, <1>2

\* The host found for a bus name is a listed one that has it; none is found when there is none.
LEMMA FindAgentHost ==
    ASSUME TypeOK, NEW b
    PROVE  /\ find_agent_host(b) # None => /\ find_agent_host(b) \in globalHosts
                                           /\ find_agent_host(b) \in Host
                                           /\ host[find_agent_host(b)].agent_bus_name = b
           /\ find_agent_host(b) = None => \A h \in globalHosts : host[h].agent_bus_name # b
<1> DEFINE S == {h \in globalHosts : host[h].agent_bus_name = b}
<1>1. S \in SUBSET Host /\ None \notin Host
    BY NoneIsNoHost DEF TypeOK
<1>2. find_agent_host(b) = First(S)
    BY DEF find_agent_host
<1>3. S # {} => First(S) \in S
    BY <1>1, FirstIsMember
<1>4. S = {} => First(S) = None
    BY DEF First
<1>5. First(S) # None => First(S) \in S
    BY <1>3, <1>4
<1>6. First(S) = None => S = {}
    BY <1>1, <1>3
<1> QED
    BY <1>1, <1>2, <1>5, <1>6

\* The one listed host of a bus name that vanished loses its agent.
LEMMA DisconnectFacts ==
    ASSUME TypeOK, OneHostPerAgent, NEW b, b # None, DisconnectAgent(b)
    PROVE  \A g \in globalHosts :
              IF host[g].agent_bus_name = b THEN NoAgent(host'[g]) ELSE host'[g] = host[g]
<1> DEFINE h == find_agent_host(b)
<1>1. /\ h # None => h \in globalHosts /\ h \in Host /\ host[h].agent_bus_name = b
      /\ h = None => \A g \in globalHosts : host[g].agent_bus_name # b
    BY FindAgentHost
<1>2. host' = IF h = None THEN host ELSE [host EXCEPT ![h] = agent_disconnected(host[h])]
    BY DEF DisconnectAgent
<1>3. \A g \in globalHosts : g \in Host /\ host[g] \in HostRec
    BY DEF TypeOK
<1>4. \A rec \in HostRec : NoAgent(agent_disconnected(rec))
    BY DEF HostRec, agent_disconnected, NoAgent
<1> HIDE DEF h
<1>5. CASE h = None
    BY <1>1, <1>2, <1>5
<1>6. CASE h # None
    <2>1. NoAgent(host'[h]) /\ \A g \in Host : g # h => host'[g] = host[g]
        BY <1>1, <1>2, <1>3, <1>4, <1>6 DEF TypeOK
    <2>2. \A g \in globalHosts : g # h => host[g].agent_bus_name # b
        BY <1>1, <1>6 DEF OneHostPerAgent
    <2> QED
        BY <1>1, <1>3, <1>6, <2>1, <2>2
<1> QED
    BY <1>5, <1>6

\* The master hears that a well-known name got or lost its owner.
LEMMA NameOwnerChangedServed ==
    ASSUME ServedInv, TypeInv', HandleNameOwnerChanged
    PROVE  ServedInv' /\ StepFacts
<1> DEFINE m == Head(masterq)
           w == m.name
<1>f. TypeOK /\ NamesInv /\ TurnsInv /\ PathsInv /\ RegistrationsInv /\ ReadySentInv /\ HostsInv
    BY DEF ServedInv, QueueInv, TypeInv
<1>u. /\ Receive("NameOwnerChanged")
      /\ busOwner' = busOwner /\ agent' = agent /\ globalHosts' = globalHosts
      /\ mapping' = [mapping EXCEPT ![w] = m.owner]
      /\ IF m.owner = None THEN DisconnectAgent(w) ELSE UNCHANGED host
    BY DEF HandleNameOwnerChanged
<1>1. m \in Message /\ m.type = "NameOwnerChanged"
    BY <1>f, <1>u, ReceiveType
<1>2. w \in BusName /\ m.owner \in Agent \cup {None} /\ m = NameTaken(w, m.owner)
    BY <1>1 DEF Message, NameTaken
<1>3. mapping'[w] = m.owner /\ \A v \in BusName : v # w => mapping'[v] = mapping[v]
    BY <1>f, <1>u, <1>2 DEF TypeOK
<1>4. TurnsInv' /\ (m.owner # None => mapping[w] = None)
    BY <1>f, TurnsHandle
<1>h. Pending(m)
    BY <1>f, <1>u, TailQueue DEF Pending, Receive, TypeOK
<1>n. None \notin Agent /\ None \notin BusName
    BY ConstantsAssumption
<1>q. \A x : Pending(x) => Pending(x)' \/ x = m
    BY <1>f, <1>u, PendingTail
<1> HIDE DEF m, w
<1>5. \A a \in Agent, v \in BusName : mapping'[v] = a => Linked(a, v)
    BY <1>2, <1>3, <1>h, <1>n DEF Linked
<1>6. RepliesInOrder
    BY <1>u DEF RepliesInOrder
<1>7. /\ NamesInv' /\ RegistrationsInv' /\ ReadySentInv'
      /\ \A a \in Agent : Registered(a) => Registered(a)'
    BY <1>f, <1>u, <1>5, <1>6, ReceiveServed
<1>8. PathsInv'
    BY <1>f, <1>u DEF PathsInv
<1>9. HostsInv' /\ StepFacts
    <2>1. AgentsGoOn
        BY <1>u, <1>7 DEF AgentsGoOn
    <2>2. \A h \in globalHosts : host[h].agent_bus_name = w => NoAgent(host'[h])
        <3>1. CASE m.owner = None
            BY <1>f, <1>u, <1>2, <1>n, <3>1, DisconnectFacts DEF HostsInv
        <3>2. CASE m.owner # None
            BY <1>f, <1>2, <1>4, <3>2 DEF HostsInv, NamedInv
        <3> QED
            BY <3>1, <3>2
    <2>3. \A h \in globalHosts : host[h].agent_bus_name # w => host'[h] = host[h]
        <3>1. CASE m.owner = None
            BY <1>f, <1>u, <1>2, <1>n, <3>1, DisconnectFacts DEF HostsInv
        <3>2. CASE m.owner # None
            BY <1>u, <3>2
        <3> QED
            BY <3>1, <3>2
    <2>4. HostsKeepOrLose
        BY <1>u, <1>3, <2>2, <2>3 DEF HostsKeepOrLose, SameAgent
    <2>5. LossesHeard
        <3>1. \A a \in Agent : UniqueLost(a) # m
            BY <1>1 DEF UniqueLost
        <3> QED
            BY <1>u, <1>q, <3>1 DEF LossesHeard
    <2> QED
        BY <1>f, <2>1, <2>4, <2>5, HostsFrame
<1> QED
    BY <1>4, <1>7, <1>8, <1>9 DEF ServedInv, QueueInv

\* The master hears that an agent is gone.
LEMMA UniqueNameLostServed ==
    ASSUME ServedInv, TypeInv', HandleUniqueNameLost
    PROVE  ServedInv' /\ StepFacts
<1> DEFINE m == Head(masterq)
<1>f. TypeOK /\ NamesInv /\ TurnsInv /\ PathsInv /\ RegistrationsInv /\ ReadySentInv /\ HostsInv
    BY DEF ServedInv, QueueInv, TypeInv
<1>u. /\ Receive("UniqueNameLost")
      /\ busOwner' = busOwner /\ agent' = agent /\ globalHosts' = globalHosts
      /\ mapping' = mapping /\ DisconnectAgent(m.name)
    BY DEF HandleUniqueNameLost
<1>1. m \in Message /\ m.type = "UniqueNameLost"
    BY <1>f, <1>u, ReceiveType
<1>2. m.name \in Agent /\ m = UniqueLost(m.name)
    BY <1>1 DEF Message, UniqueLost
<1>4. TurnsInv'
    BY <1>f, <1>u, TurnsTail
<1>n. None \notin Agent /\ None \notin BusName
    BY ConstantsAssumption
<1>q. \A x : Pending(x) => Pending(x)' \/ x = m
    BY <1>f, <1>u, PendingTail
<1> HIDE DEF m
<1>5. \A a \in Agent, v \in BusName : mapping'[v] = a => Linked(a, v)
    BY <1>u DEF Linked
<1>6. RepliesInOrder
    BY <1>u DEF RepliesInOrder
<1>7. /\ NamesInv' /\ RegistrationsInv' /\ ReadySentInv'
      /\ \A a \in Agent : Registered(a) => Registered(a)'
    BY <1>f, <1>u, <1>5, <1>6, ReceiveServed
<1>8. PathsInv'
    BY <1>f, <1>u DEF PathsInv
<1>9. HostsInv' /\ StepFacts
    <2>1. AgentsGoOn
        BY <1>u, <1>7 DEF AgentsGoOn
    <2>2. \A h \in globalHosts : IF host[h].agent_bus_name = m.name
                                 THEN NoAgent(host'[h]) ELSE host'[h] = host[h]
        BY <1>f, <1>u, <1>2, <1>n, DisconnectFacts DEF HostsInv
    <2>3. HostsKeepOrLose
        BY <1>u, <2>2 DEF HostsKeepOrLose, SameAgent
    <2>4. LossesHeard
        <3>1. \A a \in Agent : UniqueLost(a) = m => a = m.name
            BY <1>2 DEF UniqueLost
        <3>2. \A h \in globalHosts, a \in Agent : host'[h].agent_bus_name = a => a # m.name
            BY <1>n, <2>2 DEF NoAgent
        <3> QED
            BY <1>u, <1>q, <3>1, <3>2 DEF LossesHeard
    <2> QED
        BY <1>f, <2>1, <2>3, <2>4, HostsFrame
<1> QED
    BY <1>4, <1>7, <1>8, <1>9 DEF ServedInv, QueueInv

\* A sender's name stands for the sender.
LEMMA LookupFacts ==
    ASSUME TypeOK, NEW a \in Agent
    PROVE  /\ Behind(lookup_wellknown_bus_name(a), a)
           /\ \A c \in Agent : Behind(lookup_wellknown_bus_name(a), c) => c = a
<1> DEFINE b == lookup_wellknown_bus_name(a)
<1>1. b = a \/ (b \in BusName /\ mapping[b] = a)
    BY DEF lookup_wellknown_bus_name
<1>2. Agent \cap BusName = {}
    BY ConstantsAssumption
<1> HIDE DEF b
<1>3. Behind(b, a) /\ \A c \in Agent : Behind(b, c) => c = a
    BY <1>1, <1>2 DEF Behind
<1> QED
    BY <1>3 DEF b

\* What a reply does to the caller.
LEMMA ReplyFacts ==
    ASSUME TypeOK, NEW a \in Agent, NEW h \in Host \cup {None}, Reply(a, h)
    PROVE  /\ \A b \in Agent : b # a => agent'[b] = agent[b]
           /\ agent[a].pc # "calling" => agent'[a] = agent[a]
           /\ agent[a].pc = "calling" /\ h = None =>
                 agent'[a].pc = "dead" /\ agent'[a].path = agent[a].path
           /\ agent[a].pc = "calling" /\ h # None =>
                 agent'[a].pc = "replied" /\ agent'[a].path = h
<1>1. agent \in [Agent -> AgentRec]
    BY DEF TypeOK
<1>2. CASE agent[a].pc # "calling"
    BY <1>2 DEF Reply
<1>3. CASE agent[a].pc = "calling" /\ h = None
    <2>1. agent' = [agent EXCEPT ![a].pc = "dead"]
        BY <1>3 DEF Reply
    <2> QED
        BY <1>1, <1>3, <2>1 DEF AgentRec
<1>4. CASE agent[a].pc = "calling" /\ h # None
    <2>1. agent' = [agent EXCEPT ![a].pc = "replied", ![a].path = h]
        BY <1>4 DEF Reply
    <2> QED
        BY <1>1, <1>4, <2>1 DEF AgentRec
<1> QED
    BY <1>2, <1>3, <1>4

\* The registration at the head of the queue is the caller's only one.
LEMMA RegistrationTaken ==
    ASSUME ServedInv, NEW type \in {"createHost", "reconnect"}, Receive(type),
           NEW a \in Agent, a = Head(masterq).sender
    PROVE  /\ ~Registered(a)
           /\ agent[a].pc \in {"calling", "dead", "gone"} /\ agent[a].path = None
           /\ agent[a].pc = "gone" => Pending(UniqueLost(a))'
           /\ \A i \in DOMAIN masterq' : ~IsRegistration(masterq'[i], a)
<1>f. TypeOK /\ RegistrationsInv
    BY DEF ServedInv, QueueInv, TypeInv
<1>1. /\ 1 \in DOMAIN masterq /\ masterq[1] = Head(masterq)
      /\ DOMAIN masterq \subseteq Nat /\ DOMAIN masterq' \subseteq Nat
      /\ \A i \in DOMAIN masterq' : i + 1 \in DOMAIN masterq /\ masterq'[i] = masterq[i + 1]
      /\ \A i \in DOMAIN masterq : i # 1 =>
            i - 1 \in DOMAIN masterq' /\ masterq'[i - 1] = masterq[i]
    BY <1>f, TailQueue DEF TypeOK, Receive
<1>2. IsRegistration(masterq[1], a)
    BY <1>1 DEF Receive, IsRegistration
<1>3. /\ ~Registered(a)
      /\ agent[a].pc \in {"calling", "dead", "gone"} /\ agent[a].path = None
    BY <1>f, <1>1, <1>2 DEF RegistrationsInv, Registered
<1>4. ASSUME agent[a].pc = "gone" PROVE Pending(UniqueLost(a))'
    <2>1. PICK j \in DOMAIN masterq : 1 < j /\ masterq[j] = UniqueLost(a)
        BY <1>f, <1>1, <1>2, <1>4 DEF RegistrationsInv
    <2>2. j # 1
        BY <1>1, <2>1
    <2> QED
        BY <1>1, <2>1, <2>2 DEF Pending
<1>5. \A i \in DOMAIN masterq' : ~IsRegistration(masterq'[i], a)
    <2> SUFFICES ASSUME NEW i \in DOMAIN masterq', IsRegistration(masterq'[i], a)
                 PROVE  FALSE
        OBVIOUS
    <2>1. i + 1 = 1
        BY <1>f, <1>1, <1>2 DEF RegistrationsInv
    <2>2. DOMAIN masterq' = 1 .. Len(masterq') /\ Len(masterq') \in Nat
        BY <1>f, ReceiveType, LenProperties
    <2> QED
        BY <2>1, <2>2
<1> QED
    BY <1>3, <1>4, <1>5

\* The caller gets host h, or an error, and the queue goes on.
LEMMA ReplyServed ==
    ASSUME ServedInv, NEW type \in {"createHost", "reconnect"}, Receive(type),
           NEW a \in Agent, a = Head(masterq).sender, NEW h \in Host \cup {None},
           Reply(a, h), UNCHANGED <<busOwner, mapping>>
    PROVE  QueueInv' /\ AgentsGoOn
<1>f. TypeOK /\ NamesInv /\ TurnsInv /\ PathsInv /\ RegistrationsInv /\ ReadySentInv /\ HostsInv
    BY DEF ServedInv, QueueInv, TypeInv
<1>1. /\ ~Registered(a)
      /\ agent[a].pc \in {"calling", "dead", "gone"} /\ agent[a].path = None
      /\ \A i \in DOMAIN masterq' : ~IsRegistration(masterq'[i], a)
    BY RegistrationTaken
<1>2. /\ \A b \in Agent : b # a => agent'[b] = agent[b]
      /\ agent[a].pc # "calling" => agent'[a] = agent[a]
      /\ agent[a].pc = "calling" /\ h = None =>
            agent'[a].pc = "dead" /\ agent'[a].path = agent[a].path
      /\ agent[a].pc = "calling" /\ h # None =>
            agent'[a].pc = "replied" /\ agent'[a].path = h
    BY <1>f, ReplyFacts
<1>3. TurnsInv'
    BY <1>f, TurnsTail
<1>4. PathsInv'
    BY <1>f, <1>1, <1>2 DEF PathsInv
<1>5. RepliesInOrder
    BY <1>1, <1>2 DEF RepliesInOrder
<1>6. \A b \in Agent, v \in BusName : mapping'[v] = b => Linked(b, v)
    BY DEF Linked
<1>7. /\ NamesInv' /\ RegistrationsInv' /\ ReadySentInv'
      /\ \A b \in Agent : Registered(b) => Registered(b)'
    BY <1>f, <1>5, <1>6, ReceiveServed
<1>8. AgentsGoOn
    BY <1>1, <1>2, <1>7 DEF AgentsGoOn
<1> QED
    BY <1>3, <1>4, <1>7, <1>8 DEF QueueInv

\* An agent is refused.
LEMMA RefusedServed ==
    ASSUME ServedInv, TypeInv', NEW type \in {"createHost", "reconnect"}, Receive(type),
           RefuseCall(Head(masterq)), UNCHANGED <<busOwner, mapping>>
    PROVE  ServedInv' /\ StepFacts
<1> DEFINE m == Head(masterq)
<1>f. TypeOK /\ HostsInv
    BY DEF ServedInv, TypeInv
<1>u. Reply(m.sender, None) /\ host' = host /\ globalHosts' = globalHosts
    BY DEF RefuseCall
<1>1. m \in Message /\ m.type = type /\ m.sender \in Agent
    BY <1>f, ReceiveType, MessageFields
<1>2. QueueInv' /\ AgentsGoOn
    BY <1>1, <1>u, ReplyServed
<1>3. HostsInv' /\ StepFacts
    <2>1. HostsKeepOrLose
        BY <1>u DEF HostsKeepOrLose, SameAgent
    <2>2. \A a \in Agent : UniqueLost(a) # m
        BY <1>1 DEF UniqueLost
    <2>3. \A a \in Agent : Pending(UniqueLost(a)) => Pending(UniqueLost(a))'
        BY <1>f, <2>2, PendingTail
    <2>4. \A a \in Agent : agent'[a].pc = "gone" => agent[a].pc = "gone"
        BY <1>f, <1>u, <1>1, ReplyFacts
    <2>5. LossesHeard
        BY <2>3, <2>4 DEF LossesHeard
    <2> QED
        BY <1>f, <1>2, <2>1, <2>5, HostsFrame
<1> QED
    BY <1>2, <1>3 DEF ServedInv

\* An agent gets host h: a new one, or one whose agent it replaces.
LEMMA GivenServed ==
    ASSUME ServedInv, TypeInv', NEW type \in {"createHost", "reconnect"}, Receive(type),
           NEW a \in Agent, a = Head(masterq).sender,
           NEW h \in Host, Reply(a, h), UNCHANGED <<busOwner, mapping>>,
           globalHosts' = globalHosts \cup {h},
           host'[h].agent_bus_name = lookup_wellknown_bus_name(a), ~host'[h].ready,
           \A g \in globalHosts : g # h => host'[g] = host[g]
    PROVE  ServedInv' /\ StepFacts
<1> DEFINE b == lookup_wellknown_bus_name(a)
<1>f. TypeOK /\ HostsInv
    BY DEF ServedInv, TypeInv
<1>1. QueueInv' /\ AgentsGoOn
    BY ReplyServed
<1>2. /\ ~Registered(a)
      /\ agent[a].pc \in {"calling", "dead", "gone"} /\ agent[a].path = None
      /\ agent[a].pc = "gone" => Pending(UniqueLost(a))'
      /\ \A i \in DOMAIN masterq' : ~IsRegistration(masterq'[i], a)
    BY RegistrationTaken
<1>3. /\ \A c \in Agent : c # a => agent'[c] = agent[c]
      /\ agent[a].pc # "calling" => agent'[a] = agent[a]
      /\ agent[a].pc = "calling" => agent'[a].pc = "replied" /\ agent'[a].path = h
    <2>1. h # None
        BY NoneIsNoHost
    <2> QED
        BY <1>f, <2>1, ReplyFacts
<1>4. Registered(a)'
    BY <1>2, <1>3 DEF Registered
<1>5. Behind(b, a) /\ \A c \in Agent : Behind(b, c) => c = a
    BY <1>f, LookupFacts
<1>6. \A g \in globalHosts : host[g].agent_bus_name # b
    BY <1>f, <1>2, <1>5 DEF HostsInv, BehindInv
<1>7. \A g \in globalHosts, c \in Agent : Behind(host[g].agent_bus_name, c) => c # a
    BY <1>f, <1>2 DEF HostsInv, BehindInv
<1>8. \A c \in Agent : Pending(UniqueLost(c)) => Pending(UniqueLost(c))'
    <2>1. \A c \in Agent : UniqueLost(c) # Head(masterq)
        BY DEF UniqueLost, Receive
    <2> QED
        BY <1>f, <2>1, PendingTail
<1>n. None \notin Agent
    BY ConstantsAssumption
<1> HIDE DEF b
\* What is listed now is h or was listed and is as it was.
<1>9. \A g \in globalHosts' : \/ g = h /\ host'[g].agent_bus_name = b /\ ~host'[g].ready
                              \/ g # h /\ g \in globalHosts /\ host'[g] = host[g]
    BY DEF b

<1>11. NamedInv'
    BY <1>f, <1>5, <1>9, <1>n, ConstantsAssumption DEF HostsInv, NamedInv, Behind
<1>12. BehindInv'
    <2> SUFFICES ASSUME NEW g \in globalHosts', NEW c \in Agent,
                        Behind(host'[g].agent_bus_name, c)
                 PROVE  /\ Registered(c)'
                        /\ \/ agent'[c].path = g
                           \/ agent'[c].path = None /\ agent'[c].pc \in {"dead", "gone"}
        BY DEF BehindInv, Behind
    <2>1. CASE g = h
        BY <1>2, <1>3, <1>4, <1>5, <1>9, <2>1
    <2>2. CASE g # h
        BY <1>f, <1>1, <1>9, <2>2 DEF HostsInv, BehindInv, AgentsGoOn
    <2> QED
        BY <2>1, <2>2
<1>13. GoneInv'
    <2> SUFFICES ASSUME NEW g \in globalHosts', NEW c \in Agent,
                        host'[g].agent_bus_name = c, agent'[c].pc = "gone"
                 PROVE  Pending(UniqueLost(c))'
        BY DEF GoneInv
    <2>1. CASE g = h
        <3>1. c = a
            BY <1>5, <1>9, <2>1 DEF Behind
        <3> QED
            BY <1>2, <1>3, <3>1
    <2>2. CASE g # h
        <3>1. host[g].agent_bus_name = c /\ g \in globalHosts
            BY <1>9, <2>2
        <3>2. c # a
            BY <1>7, <3>1 DEF Behind
        <3> QED
            BY <1>f, <1>3, <1>8, <3>1, <3>2 DEF HostsInv, GoneInv
    <2> QED
        BY <2>1, <2>2
<1>14. ReadyInv'
    <2>1. \A g \in globalHosts' : host'[g].ready => host'[g].agent_bus_name # None
        BY <1>f, <1>9 DEF HostsInv, ReadyInv
    <2>2. \A g \in globalHosts', c \in Agent : host'[g].ready /\ Behind(host'[g].agent_bus_name, c)
             => agent'[c].path = g /\ agent'[c].pc \in {"serving", "dead", "gone"}
        BY <1>f, <1>1, <1>9 DEF HostsInv, ReadyInv, BehindInv, AgentsGoOn
    <2> QED
        BY <2>1, <2>2 DEF ReadyInv, Behind
<1>15. OneHostPerAgent'
    BY <1>f, <1>6, <1>9 DEF HostsInv, OneHostPerAgent
<1>16. NoSecondHost
    BY <1>2, <1>5, <1>9 DEF NoSecondHost, Behind
<1> QED
    BY <1>1, <1>11, <1>12, <1>13, <1>14, <1>15, <1>16 DEF ServedInv, HostsInv, StepFacts

\* createHost and reconnect under a name the master does not know.
LEMMA AddNewHostServed ==
    ASSUME ServedInv, TypeInv', NEW type \in {"createHost", "reconnect"}, Receive(type),
           NEW u, AddNewHost(Head(masterq), u), UNCHANGED <<busOwner, mapping>>
    PROVE  ServedInv' /\ StepFacts
<1> DEFINE m == Head(masterq)
<1>f. TypeOK
    BY DEF ServedInv, TypeInv
<1>1. m.sender \in Agent
    BY <1>f, ReceiveType, MessageFields
<1>2. next_id \in Host
    BY <1>f, ConstantsAssumption DEF TypeOK, AddNewHost, Host
<1>u. /\ host' = [host EXCEPT ![next_id] = NewHost(m, u)]
      /\ globalHosts' = globalHosts \cup {next_id}
      /\ Reply(m.sender, next_id)
    BY DEF AddNewHost
<1>3. /\ NewHost(m, u).agent_bus_name = lookup_wellknown_bus_name(m.sender)
      /\ ~NewHost(m, u).ready
    BY DEF NewHost, NoHost
<1>4. /\ host'[next_id] = NewHost(m, u)
      /\ \A g \in globalHosts : g # next_id => host'[g] = host[g]
    BY <1>f, <1>2, <1>u DEF TypeOK
<1> QED
    BY <1>1, <1>2, <1>3, <1>4, <1>u, GivenServed

\* reconnect of a host the master knows.
LEMMA ReconnectServed ==
    ASSUME ServedInv, TypeInv', NEW type \in {"createHost", "reconnect"}, Receive(type),
           NEW h \in globalHosts, ReconnectExisting(Head(masterq), h),
           UNCHANGED <<busOwner, mapping>>
    PROVE  ServedInv' /\ StepFacts
<1> DEFINE m == Head(masterq)
           takeover == /\ m.uuid # None
                       /\ host[h].uuid = m.uuid
                       /\ host[h].agent_bus_name # None
           rec == IF takeover THEN agent_disconnected(host[h]) ELSE host[h]
           b == lookup_wellknown_bus_name(m.sender)
<1>f. TypeOK /\ HostsInv
    BY DEF ServedInv, TypeInv
<1>1. m.sender \in Agent /\ h \in Host /\ host[h] \in HostRec
    BY <1>f, ReceiveType, MessageFields DEF TypeOK
<1>2. CASE rec.agent_bus_name # None
    <2>1. RefuseCall(m)
        BY <1>2 DEF ReconnectExisting
    <2> QED
        BY <2>1, RefusedServed
<1>3. CASE rec.agent_bus_name = None
    <2>1. /\ \E u : host' = [host EXCEPT ![h] = [rec EXCEPT !.uuid = u, !.agent_bus_name = b]]
          /\ Reply(m.sender, h)
          /\ UNCHANGED globalHosts
        BY <1>3, Zenon DEF ReconnectExisting
    <2>2. PICK u : host' = [host EXCEPT ![h] = [rec EXCEPT !.uuid = u, !.agent_bus_name = b]]
        BY <2>1
    <2>3. rec \in HostRec
        BY <1>1, HostRecOps
    <2>4. ~rec.ready
        <3>1. CASE takeover
            BY <1>1, <3>1 DEF agent_disconnected, HostRec
        <3>2. CASE ~takeover
            BY <1>f, <1>3, <3>2 DEF HostsInv, ReadyInv
        <3> QED
            BY <3>1, <3>2
    <2>5. globalHosts' = globalHosts \cup {h}
        BY <2>1
    <2> HIDE DEF rec, takeover
    <2>6. /\ [rec EXCEPT !.uuid = u, !.agent_bus_name = b].agent_bus_name = b
          /\ ~[rec EXCEPT !.uuid = u, !.agent_bus_name = b].ready
        <3> HIDE DEF b
        <3> QED
            BY <2>3, <2>4 DEF HostRec
    <2>7. /\ host'[h].agent_bus_name = b /\ ~host'[h].ready
          /\ \A g \in globalHosts : g # h => host'[g] = host[g]
        <3> HIDE DEF b
        <3> QED
            BY <1>f, <1>1, <2>2, <2>6 DEF TypeOK
    <2> QED
        BY <1>1, <2>1, <2>5, <2>7, GivenServed
<1> QED
    BY <1>2, <1>3

\* A host found by its name is listed.
LEMMA HostByName ==
    ASSUME TypeOK, NEW n
    PROVE  get_host_by_name(n) # None => get_host_by_name(n) \in globalHosts
<1> DEFINE S == {h \in globalHosts : host[h].name = n}
<1>1. S \in SUBSET Host
    BY DEF TypeOK
<1>2. First(S) = None \/ First(S) \in S
    BY <1>1, FirstType
<1> QED
    BY <1>2 DEF get_host_by_name

\* The master registers an agent or refuses it.
LEMMA RegistrationServed ==
    ASSUME ServedInv, TypeInv', HandleCreateHost \/ HandleReconnect
    PROVE  ServedInv' /\ StepFacts
<1> DEFINE m == Head(masterq)
<1>f. TypeOK
    BY DEF ServedInv, TypeInv
<1>1. CASE HandleCreateHost
    <2>1. /\ Receive("createHost") /\ UNCHANGED <<busOwner, mapping>>
          /\ RefuseCall(m) \/ \E u : AddNewHost(m, u)
        BY <1>1 DEF HandleCreateHost
    <2> QED
        BY <2>1, RefusedServed, AddNewHostServed
<1>2. CASE HandleReconnect
    <2>1. /\ Receive("reconnect") /\ UNCHANGED <<busOwner, mapping>>
          /\ \/ get_host_by_name(m.name) # None /\ ReconnectExisting(m, get_host_by_name(m.name))
             \/ \E u : AddNewHost(m, u)
        BY <1>2 DEF HandleReconnect
    <2>2. get_host_by_name(m.name) # None => get_host_by_name(m.name) \in globalHosts
        BY <1>f, HostByName
    <2> QED
        BY <2>1, <2>2, ReconnectServed, AddNewHostServed
<1> QED
    BY <1>1, <1>2

\* An agent's capabilities are recorded; a dead object's answer is fatal to it.
LEMMA PublishServed ==
    ASSUME ServedInv, TypeInv', HandlePublish
    PROVE  ServedInv' /\ StepFacts
<1> DEFINE m == Head(masterq)
           a == m.sender
           p == agent[a].path
<1>f. TypeOK /\ NamesInv /\ TurnsInv /\ PathsInv /\ RegistrationsInv /\ ReadySentInv /\ HostsInv
    BY DEF ServedInv, QueueInv, TypeInv
<1>u. /\ Receive("publish")
      /\ busOwner' = busOwner /\ globalHosts' = globalHosts /\ mapping' = mapping
      /\ host' = host \/ host' = [host EXCEPT ![p].capabilities = TRUE]
    BY DEF HandlePublish
<1>1. m \in Message /\ m.type = "publish" /\ a \in Agent
    BY <1>f, <1>u, ReceiveType, MessageFields
<1>2. /\ \A b \in Agent : b # a => agent'[b] = agent[b]
      /\ agent'[a].path = agent[a].path
      /\ \/ agent'[a].pc = agent[a].pc
         \/ agent[a].pc = "publishing" /\ agent'[a].pc \in {"published", "dead"}
    <2>1. \/ UNCHANGED agent
          \/ agent[a].pc = "publishing" /\ SetPc(a, "published")
          \/ agent[a].pc = "publishing" /\ SetPc(a, "dead")
        BY DEF HandlePublish, SetPc
    <2> QED
        BY <1>f, <1>1, <2>1, SetPcFacts
<1>q. \A x : Pending(x) => Pending(x)' \/ x = m
    BY <1>f, <1>u, PendingTail
<1>3. TurnsInv'
    BY <1>f, <1>u, TurnsTail
<1> HIDE DEF m, a
<1>4. PathsInv'
    BY <1>f, <1>2 DEF PathsInv
<1>5. RepliesInOrder
    BY <1>2 DEF RepliesInOrder
<1>6. \A b \in Agent, v \in BusName : mapping'[v] = b => Linked(b, v)
    BY <1>u DEF Linked
<1>7. /\ NamesInv' /\ RegistrationsInv' /\ ReadySentInv'
      /\ \A b \in Agent : Registered(b) => Registered(b)'
    BY <1>f, <1>u, <1>5, <1>6, ReceiveServed
<1>8. HostsInv' /\ StepFacts
    <2>1. AgentsGoOn
        BY <1>2, <1>7 DEF AgentsGoOn
    <2>2. \A h \in globalHosts : SameAgent(host'[h], host[h])
        <3>1. \A h \in globalHosts : h \in Host /\ host[h] \in HostRec
            BY <1>f DEF TypeOK
        <3>2. \A rec \in HostRec : SameAgent([rec EXCEPT !.capabilities = TRUE], rec)
            BY DEF SameAgent, HostRec
        <3>3. \A h \in Host : host'[h] = host[h] \/ host'[h] = [host[h] EXCEPT !.capabilities = TRUE]
            <4> HIDE DEF p
            <4> QED
                BY <1>f, <1>u DEF TypeOK
        <3> QED
            BY <3>1, <3>2, <3>3 DEF SameAgent
    <2>3. HostsKeepOrLose
        BY <1>u, <2>2 DEF HostsKeepOrLose
    <2>4. LossesHeard
        <3>1. \A b \in Agent : UniqueLost(b) # m
            BY <1>1 DEF UniqueLost
        <3>2. \A b \in Agent : agent'[b].pc = "gone" => agent[b].pc = "gone"
            BY <1>2
        <3> QED
            BY <1>q, <3>1, <3>2 DEF LossesHeard
    <2> QED
        BY <1>f, <2>1, <2>3, <2>4, HostsFrame
<1> QED
    BY <1>3, <1>4, <1>7, <1>8 DEF ServedInv, QueueInv

\* The host of the agent that announces itself becomes ready; the agent is the
\* one behind it, and this host is the one it registered.
LEMMA ReadyServed ==
    ASSUME ServedInv, TypeInv', HandleReady
    PROVE  ServedInv' /\ StepFacts
<1> DEFINE m == Head(masterq)
           a == m.sender
           b == lookup_wellknown_bus_name(a)
           h == find_agent_host(b)
<1>f. TypeOK /\ NamesInv /\ TurnsInv /\ PathsInv /\ RegistrationsInv /\ ReadySentInv /\ HostsInv
    BY DEF ServedInv, QueueInv, TypeInv
<1>u. /\ Receive("ready")
      /\ busOwner' = busOwner /\ globalHosts' = globalHosts /\ mapping' = mapping
      /\ agent' = agent
      /\ host' = IF h = None THEN host ELSE [host EXCEPT ![h] = agent_ready(host[h])]
    BY DEF HandleReady
<1>1. m \in Message /\ m.type = "ready" /\ a \in Agent
    BY <1>f, <1>u, ReceiveType, MessageFields
<1>2. 1 \in DOMAIN masterq /\ masterq[1] = m
    BY <1>f, <1>u, TailQueue DEF TypeOK, Receive
<1>q. \A x : Pending(x) => Pending(x)' \/ x = m
    BY <1>f, <1>u, PendingTail
<1>3. TurnsInv'
    BY <1>f, <1>u, TurnsTail
<1>4. agent[a].pc \in {"serving", "dead", "gone"} /\ agent[a].path # None
    <2>1. IsReady(masterq[1], a)
        BY <1>1, <1>2 DEF IsReady
    <2> QED
        BY <1>f, <1>1, <1>2, <2>1 DEF ReadySentInv
<1>5. Behind(b, a) /\ (\A c \in Agent : Behind(b, c) => c = a) /\ b # None
    BY <1>f, <1>1, LookupFacts, LookupNotNone
<1>6. h # None => h \in globalHosts /\ h \in Host /\ host[h].agent_bus_name = b
    BY <1>f, FindAgentHost
<1> HIDE DEF m, a, b, h
<1>7. h # None => agent[a].path = h
    BY <1>f, <1>1, <1>4, <1>5, <1>6 DEF HostsInv, BehindInv
<1>8. PathsInv'
    BY <1>f, <1>u DEF PathsInv
<1>9. RepliesInOrder
    BY <1>u DEF RepliesInOrder
<1>10. \A c \in Agent, v \in BusName : mapping'[v] = c => Linked(c, v)
    BY <1>u DEF Linked
<1>11. /\ NamesInv' /\ RegistrationsInv' /\ ReadySentInv'
       /\ \A c \in Agent : Registered(c) => Registered(c)'
    BY <1>f, <1>u, <1>9, <1>10, ReceiveServed
\* Bus names are as they were, and only h becomes ready.
<1>12. /\ \A g \in globalHosts : host'[g].agent_bus_name = host[g].agent_bus_name
       /\ \A g \in globalHosts : host'[g].ready => host[g].ready \/ g = h
    <2>1. \A g \in globalHosts : g \in Host /\ host[g] \in HostRec
        BY <1>f DEF TypeOK
    <2>2. \A rec \in HostRec : agent_ready(rec).agent_bus_name = rec.agent_bus_name
        BY DEF agent_ready, HostRec
    <2>3. \A g \in Host : host'[g] = host[g] \/ (g = h /\ host'[g] = agent_ready(host[g]))
        BY <1>f, <1>u, <1>6 DEF TypeOK
    <2> QED
        BY <2>1, <2>2, <2>3
<1>13. h \in globalHosts => h # None
    BY <1>f, NoneIsNoHost DEF TypeOK
<1>14. NamedInv' /\ OneHostPerAgent'
    BY <1>f, <1>u, <1>12 DEF HostsInv, NamedInv, OneHostPerAgent
<1>15. BehindInv'
    BY <1>f, <1>u, <1>11, <1>12 DEF HostsInv, BehindInv, Behind
<1>16. GoneInv'
    <2>1. \A c \in Agent : UniqueLost(c) # m
        BY <1>1 DEF UniqueLost
    <2> QED
        BY <1>f, <1>u, <1>q, <1>12, <2>1 DEF HostsInv, GoneInv
<1>17. ReadyInv'
    <2>1. \A g \in globalHosts, c \in Agent : g = h /\ Behind(host[g].agent_bus_name, c) =>
             agent[c].path = g /\ agent[c].pc \in {"serving", "dead", "gone"}
        BY <1>4, <1>5, <1>6, <1>7, <1>13
    <2>2. \A g \in globalHosts : g = h => host[g].agent_bus_name # None
        BY <1>5, <1>6, <1>13
    <2>3. \A g \in globalHosts, c \in Agent :
             host'[g].ready /\ Behind(host[g].agent_bus_name, c) =>
                agent[c].path = g /\ agent[c].pc \in {"serving", "dead", "gone"}
        BY <1>f, <1>12, <2>1 DEF HostsInv, ReadyInv
    <2>4. \A g \in globalHosts : host'[g].ready => host[g].agent_bus_name # None
        BY <1>f, <1>12, <2>2 DEF HostsInv, ReadyInv
    <2> QED
        BY <1>u, <1>12, <2>3, <2>4 DEF ReadyInv, Behind
<1>18. AgentsGoOn
    BY <1>u, <1>11 DEF AgentsGoOn
<1>19. NoSecondHost
    BY <1>u, <1>12 DEF NoSecondHost, Behind
<1> QED
    BY <1>3, <1>8, <1>11, <1>14, <1>15, <1>16, <1>17, <1>18, <1>19
       DEF ServedInv, QueueInv, HostsInv, StepFacts

\* Calls of clients send nothing to the master; hosts keep their agents or lose them.
LEMMA CallFrame ==
    ASSUME ServedInv, TypeInv', UNCHANGED <<masterq, busOwner, mapping>>,
           \A a \in Agent : agent'[a].pc = agent[a].pc /\ agent'[a].path = agent[a].path,
           globalHosts' \subseteq globalHosts,
           \A h \in globalHosts' : SameAgent(host'[h], host[h]) \/ NoAgent(host'[h])
    PROVE  ServedInv' /\ StepFacts
<1>f. TypeOK /\ NamesInv /\ TurnsInv /\ PathsInv /\ RegistrationsInv /\ ReadySentInv /\ HostsInv
    BY DEF ServedInv, QueueInv, TypeInv
<1>1. TurnsInv'
    BY <1>f, TurnsKept
<1>2. NamesInv'
    BY <1>f DEF NamesInv, Linked, Pending
<1>3. PathsInv'
    BY <1>f DEF PathsInv
<1>4. RegistrationsInv'
    BY <1>f DEF RegistrationsInv
<1>5. ReadySentInv'
    BY <1>f DEF ReadySentInv
<1>6. AgentsGoOn
    BY DEF AgentsGoOn, Registered
<1>7. HostsKeepOrLose
    BY DEF HostsKeepOrLose
<1>8. LossesHeard
    BY DEF LossesHeard, Pending
<1>9. HostsInv' /\ StepFacts
    BY <1>f, <1>6, <1>7, <1>8, HostsFrame
<1> QED
    BY <1>1, <1>2, <1>3, <1>4, <1>5, <1>9 DEF ServedInv, QueueInv

\* Host.shutdown and Host.reboot of any set of hosts.
LEMMA StopServed ==
    ASSUME ServedInv, TypeInv', NEW S, StopHosts(S)
    PROVE  ServedInv' /\ StepFacts
<1>f. TypeOK
    BY DEF ServedInv, TypeInv
<1>u. UNCHANGED <<masterq, busOwner, mapping, globalHosts>>
    BY DEF StopHosts
<1>1. \A a \in Agent : agent'[a].pc = agent[a].pc /\ agent'[a].path = agent[a].path
    BY <1>f DEF StopHosts, TypeOK, AgentRec
<1>2. \A h \in Host : host'[h] = host[h] \/ host'[h] = agent_disconnected(host[h])
    BY DEF StopHosts
<1>3. \A h \in Host : host[h] \in HostRec
    BY <1>f DEF TypeOK
<1>4. \A rec \in HostRec : NoAgent(agent_disconnected(rec))
    BY DEF HostRec, agent_disconnected, NoAgent
<1>5. \A h \in globalHosts : SameAgent(host'[h], host[h]) \/ NoAgent(host'[h])
    BY <1>f, <1>2, <1>3, <1>4 DEF SameAgent, TypeOK
<1> QED
    BY <1>u, <1>1, <1>5, CallFrame

\* Every call of a client.
LEMMA ClientStepServed ==
    ASSUME ServedInv, TypeInv', ClientNext
    PROVE  ServedInv' /\ StepFacts
<1>f. TypeOK
    BY DEF ServedInv, TypeInv
<1>t. \A h \in Host : host[h] \in HostRec
    BY <1>f DEF TypeOK
<1>g. globalHosts \subseteq Host
    BY <1>f DEF TypeOK
<1>1. ASSUME NEW h \in Host, HostShutdown(h)
      PROVE  ServedInv' /\ StepFacts
    BY <1>1, StopServed DEF HostShutdown
<1>2. CASE HostlistShutdown
    BY <1>2, StopServed DEF HostlistShutdown
<1>3. ASSUME NEW t \in Test, HostsetShutdown(t)
      PROVE  ServedInv' /\ StepFacts
    BY <1>3, StopServed DEF HostsetShutdown
<1>4. ASSUME NEW h \in Host, DeleteHost(h)
      PROVE  ServedInv' /\ StepFacts
    <2>1. /\ UNCHANGED <<masterq, busOwner, mapping, agent>>
          /\ globalHosts' = globalHosts \ {h}
          /\ \A g \in Host : g # h => host'[g] = host[g]
        BY <1>4, <1>f DEF DeleteHost, TypeOK
    <2>2. \A g \in globalHosts' : SameAgent(host'[g], host[g])
        BY <1>g, <2>1 DEF SameAgent
    <2> QED
        BY <2>1, <2>2, CallFrame
<1>5. ASSUME NEW n \in Name, RemoveHost(n)
      PROVE  ServedInv' /\ StepFacts
    <2> DEFINE h == get_host_by_name(n)
    <2>1. /\ UNCHANGED <<masterq, busOwner, mapping, agent>>
          /\ globalHosts' = globalHosts \ {h}
          /\ \A g \in Host : g # h => host'[g] = host[g]
        BY <1>5, <1>f DEF RemoveHost, TypeOK
    <2> HIDE DEF h
    <2>2. \A g \in globalHosts' : SameAgent(host'[g], host[g])
        BY <1>g, <2>1 DEF SameAgent
    <2> QED
        BY <2>1, <2>2, CallFrame
<1>6. ASSUME NEW t \in Test, NEW r \in Role, NEW h \in Host, AddHost(t, r, h)
      PROVE  ServedInv' /\ StepFacts
    <2>1. /\ UNCHANGED <<masterq, busOwner, mapping, agent, globalHosts>>
          /\ host' = [host EXCEPT ![h] = set_role(host[h], r, t)]
        BY <1>6 DEF AddHost
    <2>2. \A g \in Host : SameAgent(set_role(host[g], r, t), host[g])
        BY <1>t DEF set_role, SameAgent, HostRec
    <2>3. \A g \in globalHosts' : SameAgent(host'[g], host[g])
        BY <1>f, <1>g, <2>1, <2>2 DEF SameAgent, TypeOK
    <2> QED
        BY <2>1, <2>3, CallFrame
<1>7. ASSUME NEW t \in Test, DeleteTest(t)
      PROVE  ServedInv' /\ StepFacts
    <2> DEFINE released(h) ==
                  IF host[h].owner = t THEN host_release(host[h]) ELSE host[h]
    <2>1. /\ UNCHANGED <<masterq, busOwner, mapping, agent, globalHosts>>
          /\ host' = [h \in Host |->
                IF h \in HostsOf(t)
                THEN host_put([released(h) EXCEPT !.parent = None], h \notin globalHosts)
                ELSE released(h)]
        BY <1>7 DEF DeleteTest
    <2>2. \A h \in globalHosts : \/ host'[h] = [released(h) EXCEPT !.parent = None]
                                 \/ host'[h] = released(h)
        <3> HIDE DEF released
        <3> QED
            BY <1>g, <2>1 DEF host_put
    <2>3. \A h \in Host : released(h) \in HostRec /\ SameAgent(released(h), host[h])
        <3>1. \A rec \in HostRec : SameAgent(host_release(rec), rec)
            BY DEF host_release, SameAgent, HostRec
        <3> QED
            BY <1>t, <3>1, HostRecOps DEF SameAgent
    <2>4. \A rec \in HostRec : SameAgent([rec EXCEPT !.parent = None], rec)
        BY DEF SameAgent, HostRec
    <2>5. \A h \in globalHosts : SameAgent(host'[h], host[h])
        <3> HIDE DEF released
        <3> QED
            BY <1>g, <2>2, <2>3, <2>4 DEF SameAgent
    <2> QED
        BY <2>1, <2>5, CallFrame
<1> QED
    BY <1>1, <1>2, <1>3, <1>4, <1>5, <1>6, <1>7 DEF ClientNext

\* The invariant holds to begin with: the queue is empty and no host is listed.
LEMMA InitServed == Init => ServedInv
<1> SUFFICES ASSUME Init PROVE ServedInv
    OBVIOUS
<1>n. None \notin Agent
    BY ConstantsAssumption
<1>q. /\ DOMAIN masterq = {} /\ globalHosts = {}
      /\ \A a \in Agent : agent[a].pc = "off" /\ agent[a].path = None
      /\ \A w \in BusName : mapping[w] = None /\ busOwner[w] = None
    BY DEF Init
<1>1. TypeInv
    BY ConstantsAssumption
       DEF Init, TypeInv, TypeOK, RepliedHasPath, AgentRec, AgentPc, HostRec, NoHost, Host
<1>2. NamesInv
    BY <1>n, <1>q DEF NamesInv, Linked, Pending
<1>3. TurnsInv
    BY <1>q DEF TurnsInv, MappedIsOwned, TakenIsOwned, FreedBeforeTaken, FreedBetween
<1>4. PathsInv /\ RegistrationsInv /\ ReadySentInv
    BY <1>q DEF PathsInv, RegistrationsInv, ReadySentInv
<1>5. HostsInv
    BY <1>q DEF HostsInv, NamedInv, BehindInv, GoneInv, ReadyInv, OneHostPerAgent
<1> QED
    BY <1>1, <1>2, <1>3, <1>4, <1>5 DEF ServedInv, QueueInv

\* Every step keeps it.
LEMMA NextServed ==
    ASSUME ServedInv, [Next]_vars
    PROVE  ServedInv' /\ StepFacts
<1>1. CASE UNCHANGED vars
    <2>1. TypeInv'
        BY <1>1 DEF ServedInv, TypeInv, TypeOK, RepliedHasPath, vars
    <2>2. \A h \in globalHosts : SameAgent(host'[h], host[h])
        BY <1>1 DEF vars, SameAgent
    <2> QED
        BY <1>1, <2>1, <2>2, CallFrame DEF vars
<1>2. CASE Next
    <2>1. TypeInv'
        BY <1>2, AgentStepType, MasterStepType, ClientStepType DEF Next, ServedInv
    <2>2. CASE AgentNext
        BY <2>1, <2>2, StartServed, RegisterServed, QuietStepServed, AnnounceServed, ExitServed
           DEF AgentNext
    <2>3. CASE MasterNext
        BY <2>1, <2>3, NameOwnerChangedServed, UniqueNameLostServed, RegistrationServed,
           PublishServed, ReadyServed DEF MasterNext
    <2> QED
        BY <1>2, <2>1, <2>2, <2>3, ClientStepServed DEF Next
<1> QED
    BY <1>1, <1>2

\* What the master believes of names, agents and hosts agrees with what the bus
\* has said and is about to say, in every reachable state.
THEOREM ServedInvariant == Spec => []ServedInv
BY InitServed, NextServed, PTL DEF Spec

\* No agent is ever recorded for two listed hosts, through crashes, new
\* incarnations under the same bus name, and take-overs.
THEOREM AgentsHaveOneHost == Spec => []OneHostPerAgent
<1>1. ServedInv => OneHostPerAgent
    BY DEF ServedInv, HostsInv
<1> QED
    BY <1>1, ServedInvariant, PTL

\* A listed host that is ready is served by the process that registered it, or
\* the news of that process's death is on its way to the master.
THEOREM ReadyHostsAreServed == Spec => []ReadyHostIsServed
<1>1. ASSUME ServedInv
      PROVE  ReadyHostIsServed
    <2> SUFFICES ASSUME NEW h \in globalHosts, host[h].ready, ~LossPending(host[h].agent_bus_name)
                 PROVE  \E a \in Agent :
                           /\ \/ host[h].agent_bus_name = a
                              \/ /\ host[h].agent_bus_name \in BusName
                                 /\ busOwner[host[h].agent_bus_name] = a
                           /\ agent[a].path = h
                           /\ agent[a].pc \in {"serving", "dead"}
        BY DEF ReadyHostIsServed
    <2> DEFINE b == host[h].agent_bus_name
    <2>f. /\ TypeOK /\ NamesInv /\ MappedIsOwned /\ NamedInv /\ GoneInv /\ ReadyInv
        BY <1>1 DEF ServedInv, QueueInv, HostsInv, TurnsInv, TypeInv
    <2>1. b \in Agent \cup BusName
        BY <2>f DEF ReadyInv, TypeOK, HostRec
    <2>2. CASE b \in BusName
        <3>1. mapping[b] \in Agent
            BY <2>f, <2>2 DEF NamedInv, TypeOK
        <3>2. agent[mapping[b]].path = h /\ agent[mapping[b]].pc \in {"serving", "dead", "gone"}
            BY <2>f, <2>2, <3>1 DEF ReadyInv, Behind
        <3>3. busOwner[b] = mapping[b]
            <4>1. ~Pending(NameFreed(b))
                BY <2>2 DEF LossPending, NameFreed
            <4>2. mapping[b] # None
                BY <3>1, ConstantsAssumption
            <4> QED
                BY <2>f, <2>2, <4>1, <4>2 DEF MappedIsOwned
        <3>4. agent[mapping[b]].pc # "gone"
            BY <2>f, <2>2, <3>1, <3>3 DEF NamesInv
        <3> QED
            BY <2>2, <3>1, <3>2, <3>3, <3>4
    <2>3. CASE b \in Agent
        <3>1. b \notin BusName
            BY <2>3, ConstantsAssumption
        <3>2. ~Pending(UniqueLost(b))
            BY <3>1 DEF LossPending, UniqueLost
        <3>3. agent[b].path = h /\ agent[b].pc \in {"serving", "dead", "gone"}
            BY <2>f, <2>3 DEF ReadyInv, Behind
        <3>4. agent[b].pc # "gone"
            BY <2>f, <2>3, <3>2 DEF GoneInv
        <3> QED
            BY <2>3, <3>3, <3>4
    <2> QED
        BY <2>1, <2>2, <2>3
<1> QED
    BY <1>1, ServedInvariant, PTL

=============================================================================
