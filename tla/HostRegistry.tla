---------------------------- MODULE HostRegistry ----------------------------
(***************************************************************************)
(* The master's registry of hosts (server/host.c, server/dbus-host.c), the *)
(* agents that register with it (agent/main.c), the part of the message    *)
(* bus they rely on, and the tests that claim hosts.                       *)
(*                                                                         *)
(* The bus delivers what the agents and the bus daemon send to the master  *)
(* in one FIFO queue (masterq).  An agent may crash at any point; the bus  *)
(* notices later, and only then are the names of the agent released.       *)
(* Method calls of clients (Hostset.addHost, Container.delete, ...) are    *)
(* handled by the master in one step of its event loop, so each is one     *)
(* action here.                                                            *)
(***************************************************************************)
EXTENDS Naturals, Sequences, FiniteSets

CONSTANTS
    Agent,          \* incarnations of the agent program; also their unique bus names
    BusName,        \* the well-known bus names de.suse.Testbus.AgentN
    Machine,        \* systems an agent runs on; each has one state file
    Name,           \* host names
    Test,           \* test case containers, children of the global context
    Role,           \* roles a host is claimed in
    Uuid,           \* non-null uuids
    MaxHosts,       \* bound: host objects ever created
    MachineOf,      \* the machine an incarnation runs on
    HostnameOf,     \* the hostname configured on a machine
    Reconnecting,   \* the incarnations started with --reconnect
    EarlyAgents,    \* got their bus name before the master listened to the bus
    None            \* a NULL pointer, an absent string, the null uuid

ASSUME ConstantsAssumption ==
    /\ MaxHosts \in Nat
    /\ MachineOf \in [Agent -> Machine]
    /\ HostnameOf \in [Machine -> Name]
    /\ Reconnecting \subseteq Agent
    /\ EarlyAgents \subseteq Agent
    /\ Agent \cap BusName = {}
    /\ None \notin Agent \cup BusName \cup Name \cup Test \cup Role \cup Uuid
    /\ None \notin Nat

\* Host objects are numbered in the order of their creation (next_id++), and
\* global.hosts keeps that order, so the array is modelled by a set of numbers.
Host == 0 .. (MaxHosts - 1)

VARIABLES
    busOwner,       \* bus daemon: owner of each well-known name
    masterq,        \* messages on their way to the master
    agent,          \* the agents: program counter, host object path, stop signal
    stateFile,      \* the uuid saved on each machine
    mapping,        \* master: ni_dbus_name_mappings
    host,           \* master: the host objects
    next_id,        \* master: global.hosts.next_id
    globalHosts,    \* master: global.hosts
    testHosts,      \* master: the hosts array of each test
    tests           \* master: the tests that exist

masterVars == <<mapping, host, next_id, globalHosts, testHosts, tests>>
vars == <<busOwner, masterq, agent, stateFile, mapping, host, next_id,
          globalHosts, testHosts, tests>>

-----------------------------------------------------------------------------
(* Types *)

AgentPc == {"off", "named", "calling", "replied", "subscribed",
            "publishing", "published", "serving", "dead", "gone"}

\* A process that has not terminated.
Alive == AgentPc \ {"off", "dead", "gone"}

AgentRec == [pc : AgentPc, path : Host \cup {None}, stop : BOOLEAN]

HostRec == [name : Name \cup {None},
            agent_bus_name : Agent \cup BusName \cup {None},
            ready : BOOLEAN,
            generation : Nat,
            uuid : Uuid \cup {None},
            role : Role \cup {None},
            owner : Test \cup {None},
            parent : {"global", None},
            capabilities : BOOLEAN,
            registered : BOOLEAN]     \* dbus_object_path # NULL

Message == [type : {"NameOwnerChanged"}, name : BusName, owner : Agent \cup {None}]
      \cup [type : {"UniqueNameLost"}, name : Agent]
      \cup [type : {"createHost", "reconnect"}, sender : Agent, name : Name,
            uuid : Uuid \cup {None}]
      \cup [type : {"publish", "ready"}, sender : Agent]

TypeOK ==
    /\ busOwner \in [BusName -> Agent \cup {None}]
    /\ masterq \in Seq(Message)
    /\ agent \in [Agent -> AgentRec]
    /\ stateFile \in [Machine -> Uuid \cup {None}]
    /\ mapping \in [BusName -> Agent \cup {None}]
    /\ host \in [Host -> HostRec]
    /\ next_id \in 0 .. MaxHosts
    /\ globalHosts \in SUBSET Host
    /\ testHosts \in [Test -> Seq(Host)]
    /\ tests \in SUBSET Test

NoHost == [name |-> None, agent_bus_name |-> None, ready |-> FALSE,
           generation |-> 0, uuid |-> None, role |-> None, owner |-> None,
           parent |-> None, capabilities |-> FALSE, registered |-> FALSE]

Init ==
    /\ busOwner = [w \in BusName |-> None]
    /\ masterq = <<>>
    /\ agent = [a \in Agent |-> [pc |-> "off", path |-> None, stop |-> FALSE]]
    /\ stateFile = [m \in Machine |-> None]
    /\ mapping = [w \in BusName |-> None]
    /\ host = [h \in Host |-> NoHost]
    /\ next_id = 0
    /\ globalHosts = {}
    /\ testHosts = [t \in Test |-> <<>>]
    /\ tests = Test

-----------------------------------------------------------------------------
(* Helpers of the master *)

\* The hosts a test holds a reference on.
HostsOf(t) == {testHosts[t][i] : i \in DOMAIN testHosts[t]}

\* A host object is freed when no array refers to it.
Claimed(h) == \E t \in Test : h \in HostsOf(t)

\* First element of global.hosts with a property, or None.
First(S) == IF S = {} THEN None ELSE CHOOSE h \in S : \A g \in S : h <= g

lookup_wellknown_bus_name(a) ==
    IF \E w \in BusName : mapping[w] = a
    THEN CHOOSE w \in BusName : mapping[w] = a
    ELSE a

find_agent_host(b) == First({h \in globalHosts : host[h].agent_bus_name = b})

get_host_by_name(n) == First({h \in globalHosts : host[h].name = n})

\* ni_testbus_container_get_host_by_role: the test's own hosts, then those of
\* its parent, the global context, which lists the hosts of every test.
get_host_by_role(t, r) ==
    \E h \in HostsOf(t) \cup globalHosts : host[h].role = r

\* Mutant: the ready flag is not reset.
agent_disconnected_KeepsReady(rec) ==
    [rec EXCEPT !.capabilities = FALSE, !.agent_bus_name = None]

agent_disconnected(rec) ==
    [rec EXCEPT !.capabilities = FALSE, !.agent_bus_name = None, !.ready = FALSE]

agent_ready(rec) ==
    [rec EXCEPT !.ready = TRUE, !.generation = @ + 1]

\* ni_testbus_host_set_role with an owner; the caller checks it may succeed.
set_role(rec, r, t) == [rec EXCEPT !.role = r, !.owner = t]

\* Mutant: the role survives the release.
host_release_KeepsRole(rec) == [rec EXCEPT !.owner = None]

\* ni_testbus_host_release, after the owner was cleared by release_owned.
host_release(rec) == [rec EXCEPT !.role = None, !.owner = None]

\* ni_testbus_container_destroy of a host.  The ready flag survives it.
host_destroy(rec) ==
    [rec EXCEPT !.parent = None, !.capabilities = FALSE, !.agent_bus_name = None,
                !.role = None, !.name = None, !.registered = FALSE]

\* Dropping the reference of an array: the host is destroyed with the last one.
host_put(rec, last) ==
    IF last THEN host_destroy([rec EXCEPT !.owner = None]) ELSE rec

-----------------------------------------------------------------------------
(* The agents and the bus daemon *)

Send(m) == masterq' = Append(masterq, m)

SetPc(a, pc) == agent' = [agent EXCEPT ![a].pc = pc]

\* An agent connects to the bus and requests the first free name of the prefix.
\* One agent runs on a machine at a time.
AgentStart(a) ==
    /\ agent[a].pc = "off"
    /\ \A b \in Agent : MachineOf[b] = MachineOf[a] => agent[b].pc \notin Alive
    /\ \E w \in BusName :
          /\ busOwner[w] = None
          /\ busOwner' = [busOwner EXCEPT ![w] = a]
          /\ \/ Send([type |-> "NameOwnerChanged", name |-> w, owner |-> a])
             \/ a \in EarlyAgents /\ UNCHANGED masterq
    /\ SetPc(a, "named")
    /\ UNCHANGED <<stateFile, masterVars>>

\* ni_testbus_agent: createHost, or reconnect with the uuid of the state file.
AgentRegister(a) ==
    /\ agent[a].pc = "named"
    /\ SetPc(a, "calling")
    /\ LET m == MachineOf[a] IN
       IF a \in Reconnecting
       THEN Send([type |-> "reconnect", sender |-> a, name |-> HostnameOf[m],
                  uuid |-> stateFile[m]])
       ELSE Send([type |-> "createHost", sender |-> a, name |-> HostnameOf[m],
                  uuid |-> None])
    /\ UNCHANGED <<busOwner, stateFile, masterVars>>

\* The reply names the host object.  A reconnecting agent reads the uuid
\* property of the object and saves it; then the signal handlers are set up.
AgentSetup(a) ==
    /\ agent[a].pc = "replied"
    /\ SetPc(a, "subscribed")
    /\ stateFile' =
         IF a \in Reconnecting /\ host[agent[a].path].registered
         THEN [stateFile EXCEPT ![MachineOf[a]] = host[agent[a].path].uuid]
         ELSE stateFile
    /\ UNCHANGED <<busOwner, masterq, masterVars>>

\* Capabilities and environment are published by method calls on the host.
AgentPublish(a) ==
    /\ agent[a].pc = "subscribed"
    /\ SetPc(a, "publishing")
    /\ Send([type |-> "publish", sender |-> a])
    /\ UNCHANGED <<busOwner, stateFile, masterVars>>

AgentReady(a) ==
    /\ agent[a].pc = "published"
    /\ SetPc(a, "serving")
    /\ Send([type |-> "ready", sender |-> a])
    /\ UNCHANGED <<busOwner, stateFile, masterVars>>

\* The main loop receives shutdownRequested or rebootRequested and exits.
AgentStop(a) ==
    /\ agent[a].pc = "serving"
    /\ agent[a].stop
    /\ SetPc(a, "dead")
    /\ UNCHANGED <<busOwner, masterq, stateFile, masterVars>>

AgentCrash(a) ==
    /\ agent[a].pc \in Alive
    /\ SetPc(a, "dead")
    /\ UNCHANGED <<busOwner, masterq, stateFile, masterVars>>

\* The bus daemon notices that the connection is gone: it releases the
\* well-known name, then the unique name, and tells everybody.
BusNoticesExit(a) ==
    /\ agent[a].pc = "dead"
    /\ SetPc(a, "gone")
    /\ \E w \in BusName :
          /\ busOwner[w] = a
          /\ busOwner' = [busOwner EXCEPT ![w] = None]
          /\ masterq' = masterq \o
                <<[type |-> "NameOwnerChanged", name |-> w, owner |-> None],
                  [type |-> "UniqueNameLost", name |-> a]>>
    /\ UNCHANGED <<stateFile, masterVars>>

-----------------------------------------------------------------------------
(* The master handles the first message of its queue *)

Receive(type) ==
    /\ masterq # <<>>
    /\ Head(masterq).type = type
    /\ masterq' = Tail(masterq)

\* Mutant: a vanished bus name is ignored.
DisconnectAgent_Ignored(b) == UNCHANGED host

\* The host of a bus name that vanished loses its agent.
DisconnectAgent(b) ==
    LET h == find_agent_host(b) IN
    host' = IF h = None THEN host ELSE [host EXCEPT ![h] = agent_disconnected(@)]

\* Mutant: only the name mapping is updated.
HandleNameOwnerChanged_MappingOnly ==
    /\ Receive("NameOwnerChanged")
    /\ LET m == Head(masterq) IN mapping' = [mapping EXCEPT ![m.name] = m.owner]
    /\ UNCHANGED <<busOwner, agent, stateFile, host, next_id, globalHosts,
                   testHosts, tests>>

\* __ni_testbus_dbus_bus_signal_handler for a name in the Testbus namespace.
HandleNameOwnerChanged ==
    /\ Receive("NameOwnerChanged")
    /\ LET m == Head(masterq) IN
       /\ mapping' = [mapping EXCEPT ![m.name] = m.owner]
       /\ IF m.owner = None THEN DisconnectAgent(m.name) ELSE UNCHANGED host
    /\ UNCHANGED <<busOwner, agent, stateFile, next_id, globalHosts, testHosts, tests>>

HandleUniqueNameLost ==
    /\ Receive("UniqueNameLost")
    /\ DisconnectAgent(Head(masterq).name)
    /\ UNCHANGED <<busOwner, agent, stateFile, mapping, next_id, globalHosts,
                   testHosts, tests>>

\* The caller gets the reply if it still waits for it; an error is fatal to it.
Reply(a, h) ==
    agent' = IF agent[a].pc # "calling" THEN agent
             ELSE IF h = None THEN [agent EXCEPT ![a].pc = "dead"]
             ELSE [agent EXCEPT ![a].pc = "replied", ![a].path = h]

\* ni_uuid_generate returns a uuid nobody has seen.
FreshUuid ==
    Uuid \ ({host[h].uuid : h \in Host} \cup {stateFile[m] : m \in Machine})

\* ni_testbus_host_new, set_agent and ni_testbus_host_wrap.
NewHost(m, u) ==
    [NoHost EXCEPT !.name = m.name, !.uuid = u, !.parent = "global",
                   !.registered = TRUE,
                   !.agent_bus_name = lookup_wellknown_bus_name(m.sender)]

AddNewHost(m, u) ==
    /\ next_id < MaxHosts
    /\ host' = [host EXCEPT ![next_id] = NewHost(m, u)]
    /\ globalHosts' = globalHosts \cup {next_id}
    /\ next_id' = next_id + 1
    /\ Reply(m.sender, next_id)

RefuseCall(m) ==
    /\ Reply(m.sender, None)
    /\ UNCHANGED <<host, globalHosts, next_id>>

HandleCreateHost ==
    /\ Receive("createHost")
    /\ LET m == Head(masterq) IN
       IF get_host_by_name(m.name) # None
       THEN RefuseCall(m)
       ELSE \E u \in FreshUuid : AddNewHost(m, u)
    /\ UNCHANGED <<busOwner, stateFile, mapping, testHosts, tests>>

\* reconnect of an existing host: the holder of the host's uuid takes it over,
\* anybody may take over a host without an agent.
ReconnectExisting(m, h) ==
    LET takeover == /\ m.uuid # None
                    /\ host[h].uuid = m.uuid
                    /\ host[h].agent_bus_name # None
        rec == IF takeover THEN agent_disconnected(host[h]) ELSE host[h]
    IN  IF rec.agent_bus_name # None
        THEN RefuseCall(m)
        ELSE /\ \E u \in (IF m.uuid = None THEN FreshUuid ELSE {m.uuid}) :
                  host' = [host EXCEPT ![h] =
                     [rec EXCEPT !.uuid = u,
                        !.agent_bus_name = lookup_wellknown_bus_name(m.sender)]]
             /\ Reply(m.sender, h)
             /\ UNCHANGED <<globalHosts, next_id>>

HandleReconnect ==
    /\ Receive("reconnect")
    /\ LET m == Head(masterq)
           h == get_host_by_name(m.name) IN
       IF h # None
       THEN ReconnectExisting(m, h)
       ELSE \E u \in (IF m.uuid = None THEN FreshUuid ELSE {m.uuid}) :
               AddNewHost(m, u)
    /\ UNCHANGED <<busOwner, stateFile, mapping, testHosts, tests>>

\* Host.addCapability, on the object the agent was given.
HandlePublish ==
    /\ Receive("publish")
    /\ LET a == Head(masterq).sender
           h == agent[a].path IN
       IF host[h].registered
       THEN /\ host' = [host EXCEPT ![h].capabilities = TRUE]
            /\ agent' = IF agent[a].pc = "publishing"
                        THEN [agent EXCEPT ![a].pc = "published"] ELSE agent
       ELSE /\ agent' = IF agent[a].pc = "publishing"
                        THEN [agent EXCEPT ![a].pc = "dead"] ELSE agent
            /\ UNCHANGED host
    /\ UNCHANGED <<busOwner, stateFile, mapping, next_id, globalHosts, testHosts, tests>>

\* Mutant: the sender's unique name is not translated to its well-known name.
HandleReady_UniqueName ==
    /\ Receive("ready")
    /\ LET h == find_agent_host(Head(masterq).sender) IN
       host' = IF h = None THEN host ELSE [host EXCEPT ![h] = agent_ready(@)]
    /\ UNCHANGED <<busOwner, agent, stateFile, mapping, next_id, globalHosts,
                   testHosts, tests>>

\* __ni_testbus_host_agent_signal: the sender is looked up among global.hosts.
HandleReady ==
    /\ Receive("ready")
    /\ LET h == find_agent_host(lookup_wellknown_bus_name(Head(masterq).sender)) IN
       host' = IF h = None THEN host ELSE [host EXCEPT ![h] = agent_ready(@)]
    /\ UNCHANGED <<busOwner, agent, stateFile, mapping, next_id, globalHosts,
                   testHosts, tests>>

-----------------------------------------------------------------------------
(* Calls of clients *)

\* Mutant: the signals are sent, the hosts stay connected.
StopHosts_SignalOnly(S) ==
    /\ agent' = [a \in Agent |->
          IF /\ agent[a].path \in S
             /\ agent[a].pc \in {"subscribed", "publishing", "published", "serving"}
          THEN [agent[a] EXCEPT !.stop = TRUE] ELSE agent[a]]
    /\ UNCHANGED <<busOwner, masterq, stateFile, masterVars>>

\* Host.shutdown and Host.reboot of a set of hosts: the agents that listen to
\* the object get the signal, and the master simulates a disconnect.
StopHosts(S) ==
    /\ agent' = [a \in Agent |->
          IF /\ agent[a].path \in S
             /\ agent[a].pc \in {"subscribed", "publishing", "published", "serving"}
          THEN [agent[a] EXCEPT !.stop = TRUE] ELSE agent[a]]
    /\ host' = [h \in Host |->
          IF h \in S THEN agent_disconnected(host[h]) ELSE host[h]]
    /\ UNCHANGED <<busOwner, masterq, stateFile, mapping, next_id, globalHosts,
                   testHosts, tests>>

HostShutdown(h) ==
    /\ host[h].registered
    /\ StopHosts({h})

\* Hostlist.shutdown is delegated to every host of the global context.
HostlistShutdown ==
    /\ globalHosts # {}
    /\ StopHosts(globalHosts)

\* Hostset.shutdown visits the hosts of a test in the order they were added and
\* stops at the first whose object is gone.
HostsetShutdown(t) ==
    /\ t \in tests
    /\ testHosts[t] # <<>>
    /\ StopHosts({testHosts[t][i] : i \in
          {j \in DOMAIN testHosts[t] :
              \A k \in 1 .. j : host[testHosts[t][k]].registered}})

\* Hostset.addHost: a test claims a host in a role.
AddHost(t, r, h) ==
    /\ t \in tests
    /\ host[h].registered
    /\ ~get_host_by_role(t, r)
    /\ host[h].role = None
    /\ host' = [host EXCEPT ![h] = set_role(@, r, t)]
    /\ testHosts' = [testHosts EXCEPT ![t] = Append(@, h)]
    /\ UNCHANGED <<busOwner, masterq, agent, stateFile, mapping, next_id,
                   globalHosts, tests>>

\* Hostlist.removeHost: only global.hosts drops its reference.
RemoveHost(n) ==
    LET h == get_host_by_name(n) IN
    /\ h # None
    /\ globalHosts' = globalHosts \ {h}
    /\ host' = [host EXCEPT ![h] = host_put([@ EXCEPT !.parent = None], ~Claimed(h))]
    /\ UNCHANGED <<busOwner, masterq, agent, stateFile, mapping, next_id,
                   testHosts, tests>>

\* Container.delete of a host.  A test that claimed it keeps a dead object.
DeleteHost(h) ==
    /\ host[h].registered
    /\ host[h].parent # None
    /\ globalHosts' = globalHosts \ {h}
    /\ host' = [host EXCEPT ![h] = host_put(host_destroy(@), ~Claimed(h))]
    /\ UNCHANGED <<busOwner, masterq, agent, stateFile, mapping, next_id,
                   testHosts, tests>>

\* Container.delete of a test: release_owned gives its hosts back, and
\* ni_testbus_host_array_destroy drops its array.
DeleteTest(t) ==
    /\ t \in tests
    /\ tests' = tests \ {t}
    /\ testHosts' = [testHosts EXCEPT ![t] = <<>>]
    /\ host' = [h \in Host |->
          LET released == IF host[h].owner = t THEN host_release(host[h]) ELSE host[h]
          IN  IF h \in HostsOf(t)
              THEN host_put([released EXCEPT !.parent = None], h \notin globalHosts)
              ELSE released]
    /\ UNCHANGED <<busOwner, masterq, agent, stateFile, mapping, next_id, globalHosts>>

-----------------------------------------------------------------------------

AgentNext ==
    \E a \in Agent : \/ AgentStart(a) \/ AgentRegister(a) \/ AgentSetup(a)
                     \/ AgentPublish(a) \/ AgentReady(a) \/ AgentStop(a)
                     \/ AgentCrash(a) \/ BusNoticesExit(a)

MasterNext ==
    \/ HandleNameOwnerChanged \/ HandleUniqueNameLost \/ HandleCreateHost
    \/ HandleReconnect \/ HandlePublish \/ HandleReady

ClientNext ==
    \/ \E h \in Host : HostShutdown(h) \/ DeleteHost(h)
    \/ HostlistShutdown
    \/ \E t \in Test : HostsetShutdown(t) \/ DeleteTest(t)
    \/ \E t \in Test, r \in Role, h \in Host : AddHost(t, r, h)
    \/ \E n \in Name : RemoveHost(n)

Next == AgentNext \/ MasterNext \/ ClientNext

Spec == Init /\ [][Next]_vars

\* Started agents run on, the bus daemon notices dead connections, and the
\* master's event loop keeps dispatching.  Nobody has to call or to crash.
Fairness ==
    /\ WF_vars(MasterNext)
    /\ \A a \in Agent :
          /\ WF_vars(AgentRegister(a)) /\ WF_vars(AgentSetup(a))
          /\ WF_vars(AgentPublish(a)) /\ WF_vars(AgentReady(a))
          /\ WF_vars(AgentStop(a)) /\ WF_vars(BusNoticesExit(a))

FairSpec == Spec /\ Fairness

-----------------------------------------------------------------------------
(* Properties *)

Pending(m) == \E i \in DOMAIN masterq : masterq[i] = m

\* The bus has said, or is about to say, that bus name b was released.
LossPending(b) ==
    IF b \in BusName
    THEN Pending([type |-> "NameOwnerChanged", name |-> b, owner |-> None])
    ELSE Pending([type |-> "UniqueNameLost", name |-> b])

\* A host offered to clients as ready has an agent (Host.run relies on it).
ReadyHasAgent ==
    \A h \in Host : host[h].registered /\ host[h].ready => host[h].agent_bus_name # None

\* A listed host that is ready is served by a process that registered exactly
\* this host and announced itself; the bus may still have to report its death.
ReadyHostIsServed ==
    \A h \in globalHosts :
        LET b == host[h].agent_bus_name IN
        host[h].ready =>
            \/ LossPending(b)
            \/ \E a \in Agent :
                  /\ b = a \/ (b \in BusName /\ busOwner[b] = a)
                  /\ agent[a].path = h
                  /\ agent[a].pc \in {"serving", "dead"}

\* No bus name is recorded as the agent of two listed hosts.
OneHostPerAgent ==
    \A h, g \in globalHosts :
        h # g => \/ host[h].agent_bus_name = None
                 \/ host[h].agent_bus_name # host[g].agent_bus_name

\* A host has a role exactly while a test owns it, it is in the array of its
\* owner and of no other test, and the roles within a test differ.
ClaimsConsistent ==
    \A h \in Host : host[h].registered =>
        /\ (host[h].role # None) <=> (host[h].owner # None)
        /\ \A t \in Test : h \in HostsOf(t) <=> host[h].owner = t
        /\ \A g \in Host : /\ g # h /\ host[g].registered
                           /\ host[g].owner = host[h].owner
                           /\ host[h].owner # None
                          => host[g].role # host[h].role

\* Agent a is the one the master believes to be behind host h.
RegisteredFor(a, h) ==
    LET b == host[h].agent_bus_name IN
    b = a \/ (b \in BusName /\ busOwner[b] = a)

\* The master does not go on offering a listed host whose agent has died.
DeadAgentsNoticed ==
    \A h \in Host :
        []<>(h \in globalHosts /\ host[h].ready =>
               \E a \in Agent : agent[a].pc = "serving" /\ RegisteredFor(a, h))

\* A registered agent that reaches its main loop gets its host marked ready,
\* unless it dies or loses the host first.
RegistrationCompletes ==
    \A a \in Agent, h \in Host :
        (agent[a].pc = "replied" /\ agent[a].path = h)
            ~> \/ host[h].ready
               \/ agent[a].pc \in {"dead", "gone"}
               \/ ~(RegisteredFor(a, h) /\ h \in globalHosts)
=============================================================================
