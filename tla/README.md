# Testbus: a TLA+ verification project

Testbus runs tests on many machines. A *master* keeps the objects of the test
environment, an *agent* on every system under test registers as a host and runs
processes, and *clients* (the `testbus` command) claim hosts, run commands and
collect results. All of them talk over one D-Bus daemon; a *proxy* carries that
bus into virtual machines over a serial line.

The modules here are translated from the C code. `PROJECT.json` maps every
definition to the lines it models.

## Inventory

| Component | State | Operations | Talks to |
|---|---|---|---|
| Host registry (`server/host.c`, `server/dbus-host.c`, `server/main.c`) | host objects: name, agent bus name, ready, generation, uuid, role, owner, parent; the array of hosts; bus name mappings | createHost, reconnect, removeHost, addCapability, agent `ready` signal, NameOwnerChanged, addHost (claim), shutdown, reboot | agents, clients, bus daemon |
| Containers (`server/container.c`, `server/dbus-container.c`) | tree of hosts, tests, commands, processes, files; parent, owner, reference count | create, get/put, release_owned, destroy, delete, unregister | every other part of the master |
| Tests and commands (`server/test.c`, `server/command.c`) | children of containers, command arguments | createTest, createCommand, process_new | containers |
| Environment (`server/environ.c`) | name/value lists per container | set, get, merge along the tree | Host.run |
| Files (`server/dbus-fileset.c`, `testbus/file.c`, `agent/files.c`) | file contents, inode sequence (iseq), the agent's cache | createFile, append, retrieve, download, substitute, discard | Host.run, clients, agents |
| Process execution (`server/dbus-host.c`, `server/dbus-process.c`, `agent/command.c`, `dborb/process.c`, `testbus/calls.c`) | process objects, agent contexts, output buffers, wait queues of the client | run, processScheduled, fork, read, reap, upload, setExitInfo, wait, delete | client, master, agent |
| Event log (`dborb/monitor.c`, `agent/monitor.c`, `server/dbus-eventlog.c`) | events with sequence numbers, file monitors | poll, push, add, purge | agent, master |
| Proxy (`proxy/main.c`) | transports, endpoints, channels, write queues, credit | connect, accept, open, data, close | bus daemon, another proxy |
| Event loop (`dborb/socket.c`, `dborb/timer.c`) | sockets, timers | wait, dispatch, timers | everything |
| D-Bus object layer (`dborb/dbus-*.c`) | object tree, proxies, pending calls | call, dispatch, properties | everything |
| XML, schema, XPath, D-Bus values (`dborb/xml*.c`, `dborb/xpath.c`, `dborb/dbus-xml.c`, `dborb/dbus-common.c`, `dborb/dbus-message.c`) | documents, expressions, values | parse, format, evaluate, validate, convert | configuration, state file, extensions, messages |
| Agent state file (`agent/main.c`) | host name and uuid on disk | read, write | registration |

What is hard here: the bus orders the messages of one sender but not of two;
an agent dies at any point and its death is reported late, possibly after its
successor has registered; a client caches properties it later compares with;
exit signals overtake the reply that says what they mean; calls made while
signals are dispatched; deletion of an object while another program uses it.

What makes each part correct:

* registry: a ready host is served by a live agent that registered for exactly
  this host; no agent serves two hosts; claims (role, owner, array) agree; dead
  agents are noticed; every registration ends.
* reboot: a host reported as back was announced by a new agent; the wait ends.
* process execution: a client learns the status of its own process and finds
  all of its output that the files of the master can hold; who waits is told; the agent forgets what has ended;
  what is deleted is killed.
* containers: no object is used after it was destroyed, reference counts are
  exact, a deletion takes with it exactly what depends on the deleted object.
* files: a process finds contents no older than what it was scheduled with, and
  transfers are exact.
* object layer: proxies mirror what the server had when it answered, calls reach
  the most specific interface.
* event loop: events reach the socket they are about, children are reaped,
  messages are handled.
* XML, XPath, values: a text is read as it is meant, a document survives being
  written, sent and received, buffers are large enough.
* event log: what the monitored file receives is logged once and in order, it is on
  the master before a process is reported as ended, a purge takes only what was
  shown.
* proxy: bytes of a channel arrive in order and complete, one slow channel does
  not exceed its credit, a closed channel is closed on both sides.

## Modules

### HostRegistry

The master's hosts, the incarnations of the agent program, the bus daemon as far
as they rely on it, and the tests that claim hosts. `masterq` is the FIFO queue
of what agents and daemon send to the master. `AgentStart` .. `AgentReady` are
the steps of `ni_testbus_agent`; `BusNoticesExit` is the daemon, which releases
the well-known name and then the unique name of a dead connection; `Handle...`
are the handlers of the master; the calls of clients (`HostShutdown`,
`AddHost`, `RemoveHost`, `DeleteHost`, `DeleteTest`, ...) are handled in one
step of its loop. The array `global.hosts` is appended to with increasing
numbers, so a set of numbers keeps its order. Capabilities and the agent's
environment are reduced to one flag; the environment itself is not modelled.
Bounds: `MaxHosts` host objects, one `Agent` value per incarnation.

### HostReboot

`testbus reboot` composed with the registry: the refresh that caches the
generation, Host.reboot, and the polling loop with its timer. Each remote call is
a step of its own. `genAtRequest` and `holders` are history variables.

### ProcessExec

A client (run-command or wait-command), the master, one agent and the operating
system. `clientq[c]` and `agentq` hold signals and replies in the order the
master sent them. The agent's exit report is a sequence of calls (event log,
refresh, stdout, stderr, exit) during which it dispatches signals, so a process
can be deleted in the middle of it; while it handles processScheduled it
dispatches nothing. Output is counted in chunks, `Cap` of which fill a buffer.
The child's `setsid` is a step of its own because the agent kills the group.
A file on the master holds at most `FileMax` chunks (`NI_TESTBUS_TMPFILE_SIZE_MAX`):
`Kept` is what `Tmpfile.append` has taken when the first buffer is refused, and the
agent goes on with its report (`ReportUpload`, `AfterStep`).
Bounds: `MaxOut` chunks per process, each process object is run once.

### Proxy

Two instances of `dbus-proxy` joined by a line, the way a guest is attached to
the bus of the host. The guest's proxy accepts clients and opens a channel for
each; the host's proxy connects each channel to the daemon. `mux[s]` is the
multiplexing endpoint of a side, `ep[s][c]` the endpoint of a channel, `sock[s][c]`
the program at its other end and the two directions of the socket between them,
`line[s]` what side `s` has written to the line. A header counts as one unit.
`poll[s]` says where the loop is: `Prepare` is `io_transport_poll` of both
transports, `Poll` samples the descriptors, and the handlers then run in the
order of the descriptors, input before output before hangup. Endpoints have an
address, because a queued buffer keeps a pointer to the endpoint that gets its
credit back, which may have been freed and its memory used again. After the end
of the line an endpoint that is still open writes to freed memory: the model
allows a crash or the loss of the data.
Abstractions: a client is accepted in a round of its own; the loop's exit when
it has no descriptor left changes nothing and is left out; the guest's serial
line is blocking in the code, which only removes interleavings. Bounds:
`MaxChannel` connections, `MaxSend` bytes per program, `Closers` says who may
close, `ReadSize`, the two credits, `LineSize` and `SockSize` are the sizes of
the code (4096, 8192, 131072) or of the kernel, scaled down.

### Eventlog

The system log file with its writer and its rotation, the agent's file monitor,
its event log, the master's log of the host and one client. The system calls of
`ni_filemon_check_for_events` (fstat, read, stat, read of the rest, open, read)
are steps of their own, so the file can grow, be replaced or be truncated
between them. A byte is its number in the order of writing and an event carries
bytes, so order and completeness are statements about numbers. A timer's poll may
or may not flush: the flag it tests is uninitialised. What `seq_seen` holds when
there was no log is arbitrary as well. `epoch`, `received`, `skipped` and `due`
are history. Registration is one message here; HostRegistry has its steps, and
ProcessExec has the exit report. Eventlog.add cannot fail because the host object
exists; the encoding of events is left out. Bounds: `MaxBytes`, `MaxInodes`,
`MaxRuns`, and `MaxIncidents` for removals, truncations, crashes, releases and
purges together.

### Containers, ObjectTree and ClientCommands

`Containers` is the heap of the master: reference count, parent, owner, arrays
and D-Bus object of every host, test, command, process and file. The C functions
that tear objects down call each other recursively, so they are operators from
heap to heap with the names of the functions (`array_remove`, `process_destroy`,
`release_owned`, `garbage_collect`, ...); each method a client can call is one
action. A failing assertion or a use of freed memory while objects are torn down
sets `failed`. An unregistered D-Bus object goes to the trash with what is below
it, and is collected by the main loop before it waits (`Collect`) or by the
dispatcher at the next call. If that call is for an object in the trash, which
libdbus still knows, the dispatcher goes on with freed memory (`CallFreed`): that
sets `stray`, and the behaviour ends, because the code defines nothing after it.
The other properties hold of everything up to there, and `NoCallToFreed` is the
finding.
`ObjectTree` is the abstract specification: plain objects need other objects and
end with the first of them, a host ends when its last holder lets go.
`Containers` implements it under the mapping at its end (`TreeSpec`).
`ClientCommands` adds a client whose run-command and delete --name take several
calls, with other clients between any two of them.

### DBusProxies

The objects a server publishes and the proxies a client keeps of them: creation,
unregistering and change of properties at the server at any time; lookup,
refresh (GetManagedObjects, Properties.GetAll), method calls and the timeout at
the client. Classes, interfaces, their methods and the order of registration are
parameters. Most interfaces are for a class and bound to the objects of that class
and those below it; the interfaces of no class (the root's, Hostset, Testset,
CommandQueue, Environment, Fileset) are bound to a container by the table of its
features, `FeatureServices`, after all others (`bind_container_interfaces`).
A method that no interface of a proxy offers would go to its default interface: a
proxy inherits it from its parent, the root is created with none, and the two
functions that set one (`testbus/calls.c:102`, `:132`) are called by nobody, so
`default_interface` is none. libdbus is external: requests arrive in order, late replies are
dropped. Bound: `MaxCalls`.

### Files

From a client to the master in chunks (`UploadChunk`), from the master to the
agent in chunks (`Download`) under the sequence number the process was scheduled
with, through the agent's cache (`Attach`) into the instance of a process; and
files of the host copied to and from a client by the agent's Filesystem object.
Bounds: `Source`, `HostData`, `Chunk`, `SizeMax`, `Changes`.

### EventLoop

`ni_socket_wait` of the agent with the table of sockets, poll, the timer, the
queue of children and the connection. A synchronous call (`SyncCall`) reads what
is in the socket and dispatches it before it returns, in every phase of the
loop. Each process stands for its output socket as well. When fork fails the
process stays on the queue and is freed, as in the code; what the loop does when
it meets it is undefined and modelled as a stop.

### Xml, XmlRewrite, AgentState, XPath

`Xml` has the tree, the writer as an operator and the reader as a state machine
of one token per step. `XmlRewrite` reads texts made of known pieces, writes and
reads them again, and walks the result. `AgentState` writes the agent's state
file symbol by symbol, crashes anywhere and reads what is left. `XPath` parses
and evaluates expressions; `Selects`, `Applies` and `Computes` say what they mean
without the machinery of the code. Texts are sequences of symbols, one symbol
for a run of letters. The numeric entities of the reader (`dborb/xml-reader.c:735`)
are left out: no symbol stands for the character of a number.

### Variant, DBusXml, VariantBuffer

`Variant` has D-Bus values, with the width of the small integers, and what is
appended to and read from a message. `DBusXml` takes a document of a schema type
through registration of the method, validation, serialisation, message, the
dispatcher's check of the signature, and back; `Meaningful` and `Meant` are the
reference, and `Callable` says which types an argument can have. The checking and
the serialisation of arguments are offered to clients by the library; testbus itself
uses the functions for the properties a client prints, for the arguments an
extension is given and for what it returns. `VariantBuffer` is the memory of an array whose capacity is
worked out from its length.

### Proof modules

`HostRegistry_proofs`, `HostReboot_proofs`, `ProcessExec_proofs`, `Files_proofs`,
`Eventlog_proofs`, `DBusProxies_proofs` and `Proxy_proofs` EXTEND the module they are
named after, and `Library_proofs` EXTENDS `EventLoop` and `VariantBuffer`. They hold
theorems for every value of the constants (see [Proofs](#proofs)). They are read with their first section: the inductive
invariant, one named conjunct per idea.

### MC modules

`MCHostRegistry`, `MCHostClaims`, `MCHostReboot`, `MCProcessExec`, `MCEventlog`
and `MCProxy` give the constants their values and define the symmetry sets and,
for `MCProcessExec` and `MCProxy`, a bound on what is combined (`Bounded`).
`MCObjects` (Containers, ClientCommands, DBusProxies, Files), `MCLibrary` (the
modules of dborb) and `MCLive` (HostRegistry and Proxy, for their liveness) put
independent parts side by side: the variable `task` (`part` in `MCLive`), chosen
in the initial state, says which of them runs, and the others keep their initial
values. A property of one part holds trivially while another runs, so the run is
the union of the separate ones.

## Runs

| Run | Config | Checks | Shows |
|---|---|---|---|
| registry | `MCHostRegistry` with `MCHostRegistry.cfg` | `ReadyHasAgent`, `ReadyHostIsServed` | Two agents with the same host name register, crash, restart and reconnect while hosts are shut down: a ready host has a live agent behind it unless its loss is still to be handled. Three incarnations are the fewest with a restart on one machine and a rival with the same hostname; two host objects allow removal and creation again; one agent got its name before the master listened. |
| claims | `MCHostClaims` with `MCHostClaims.cfg` | `OneHostPerAgent`, `ClaimsConsistent` | Tests claim, release and delete hosts while agents come and go: role, owner and the hosts of a test agree, and no agent serves two hosts. Two hosts, two tests and two roles: the fewest for competing claims. |
| live | `MCLive` with `MCLive.cfg` | `DeadAgentsNoticed`, `RegistrationCompletes`, `DataArrives`, `CloseArrives` | Under fair scheduling the master notices every dead agent and every registration ends; what is sent over a channel that is used in both directions and closed by the daemon arrives, and the close is passed on. Two parts that share no state. Two incarnations of the agent on one machine: a restart. One channel, two bytes one way and one back, credit for one byte at a time. No symmetry, because liveness is checked. |
| reboot | `MCHostReboot` with `MCHostReboot.cfg` | `BackMeansNewAgent`, `WaitEnds` | A client that reboots a host and is told it is back finds an agent that registered after the request, and its wait ends whatever the agents do. One host, two incarnations of its agent; options with and without wait and timeout. |
| process | `MCProcessExec` with `MCProcessExec.cfg` | `OutputComplete`, `ResultIsTrue` | Two clients run processes and wait for them. One process that fills its output buffers and the files on the master: who is told the exit status finds all the output that fits into a file, and of more than that the full buffers that fit. Two processes without output: exit signals that arrive before the reply to run, during it or after it go to the right process. Either one process with four chunks of output, buffers of two and files of two: streams that are empty, that end in a partly filled buffer, that fill a file exactly, and that exceed it by a part of a buffer or a whole one. Or two processes without output. The processes are interchangeable. |
| process_live | `MCProcessExec` with `MCProcessLive.cfg` | `WaitReturns`, `ContextsFreed` | One process under fair scheduling, one of the clients with a timeout: who waits is told how the process ended, and the agent frees the context of every process that ended. Two chunks of output, which fill a buffer and a file. No symmetry, because liveness is checked. |
| eventlog | `MCEventlog` with `MCEventlog.cfg` | `LogIsSound`, `LoggedBeforeReport`, `PurgeTakesShown`, `WritesAreNoticed`, `ExitIsReported` | The system log is written, replaced and truncated under the monitor, the agent dies and restarts, a client purges and a test releases the host: events are complete, in order and numbered without gaps, and they are on the master before the end of a process is reported. Two bytes and two files: a file replaced while a byte is unread in it; two incidents in any combination (removal, truncation, crash, release, purge). The deadlock check is off because a dead agent need not come back. |
| proxy | `MCProxy` with `MCProxy.cfg` | `InOrder`, `CreditAccounted` | Two channels, or one whose programs may close, over a line that may end at any time: packets cut to pieces arrive whole and in order, and no credit is lost or made up. Two bytes per channel, a line of two units and reads of two: every packet is cut, one ends exactly at a read. Either two channels, or one whose programs may close while it has data on the way. The line may end at any time in both. |
| objects | `MCObjects` with `MCObjects.cfg` | `OwnershipSound`, `RunCleansUp`, `MirrorsReply`, `CallReachesMostSpecific`, `SeenIsNewEnough`, `TransfersAreExact`, `TreeSpec`, `LostOnlyToReply`, `LostOnlyToNewer` | What the master publishes: its heap of containers implements the tree of objects clients rely on, with exact reference counts through every teardown; proxies mirror what the server had when it answered; files arrive whole and no older than a process may expect. A call reaches the interface it should also where an object has interfaces of no class. The four parts share no state; which of them a behaviour is about is chosen in the initial state. Containers: one host, two tests (one of which may claim it), one command, process and name, two files, so that a command has a file besides the output of its process, a host is held twice, identifiers are used again, and another client deletes between any two calls of run-command. Proxies: a root of no class, a host and a process object, three calls, every order of registering the interfaces that have a class; those of none come last, because only their place in the table of features counts. All interfaces but that of processes offer the same method. Files: one file of two or three chunks against a limit of two, three processes that name it, so that one can take the instance of another, chunks of two bytes; a file of the host of up to two chunks that is rewritten once. |
| deleted (violated) | `MCObjects` with `MCDeleted.cfg` | `NoCallToFreed` | A client calls a file below a command that was just deleted: the call is still dispatched to the file's object, which is freed before the dispatcher reads it. As in objects, with one name, one value and one host. The deadlock check is off because a behaviour ends with the stray call. |
| library | `MCLibrary` with `MCLibrary.cfg` | `StateFileSound`, `ReadsTheText`, `DocumentIsKept`, `ExpressionsAsMeant`, `ArrivesAsMeant`, `BufferFits`, `EventsReachTheirSocket`, `WaitQueueSound`, `ChildrenAreReaped`, `MessagesAreHandled` | The parts of dborb below the protocol: the agent's state file through crashes, XML texts and XPath expressions against what they mean, documents sent as D-Bus values, the memory of arrays, and the event loop with processes that start and end in the middle of it. As in objects, one part at a time. State file: three starts, a crash after any symbol. Texts of up to four pieces out of eleven. About 2300 expressions of depth up to three on two documents, and every text of up to four tokens. Documents of every type of the schema with good and bad texts, dicts of up to three children, among them unions and flags, which cannot be arguments themselves. Arrays of up to nine elements with chunks of four. The loop: two processes, one of which cannot always be forked and one of which is deleted, a timer. The deadlock check is off because the tasks end. |
| proxy_credit (violated) | `MCProxy` with `MCProxyCredit.cfg` | `CreditSuffices` | A packet that was started with little credit left is charged as a whole when it is complete, and the proxy aborts. Five bytes: one in the socket, one in the write buffer, one queued, and a packet of two. |

## Fairness

`HostRegistry!Fairness`: the master's loop keeps dispatching, a started agent
runs on, and the bus daemon notices closed connections; nobody has to call, to
crash or to start. `HostReboot!FairReboot`: only the client and the clock.
`ProcessExec!FairSpec`: the loops of agent and clients go round, programs
terminate. The fairness of the agent is that of `ni_socket_wait`: each round
dispatches the bus connection and reaps children. `Proxy!FairSpec`: each proxy
goes round its loop, which calls every handler poll has reported, and `poll`
returns at the latest after its timeout; programs read what
is sent to them. `Eventlog!FairSpec`: agent and master run on and the timer fires;
the callback of an ended process is strongly fair, because each round of the main
loop reaps children as well as running timers, so polls of the timer cannot
keep it out forever. `EventLoop!LoopFairness`: the loop runs and time passes while
it sleeps; `NextTimeout`, the end of the timers of one round, is strongly fair,
because a timer's callback does not take as long as its period again and again.

## Proofs

Every theorem is about a component's specification with no fairness and for all
values of its constants that satisfy the named assumptions of its module (given
with each part below). The shape is always the same: the invariants of the runs
are not inductive, so the first section of a proof module states an inductive
invariant as a conjunction of named parts; one lemma per action (or per group of
actions that leave the same parts alone) shows that it is kept; the theorem for a
property is then a consequence. Each strengthened invariant was checked by TLC on
the component's instance before it was proved.

`HostRegistry_proofs` (`ConstantsAssumption`):

* `TypeCorrect`: `Spec => []TypeOK`, on top of lemmas about `First`,
  `lookup_wellknown_bus_name`, `Send` and `Receive`.
* `ReadyHostsHaveAgents`: `Spec => []ReadyHasAgent`. Inductive with `TypeOK`:
  a host becomes ready only in `HandleReady`, which found it by its agent bus
  name, and every operation that clears the name clears the flag, except
  destruction, which unregisters the host.
* `ClaimsAreConsistent`: `Spec => []ClaimsConsistent`. `ClaimsInv` adds that hosts
  beyond `next_id` are in no array, so that a new host starts unclaimed.
* `ServedInvariant`, `AgentsHaveOneHost` (`OneHostPerAgent`) and
  `ReadyHostsAreServed` (`ReadyHostIsServed`). Both depend on the order in which the
  bus delivers: what the master knows is the past, and what it will learn is in
  `masterq`. `QueueInv` says that names change hands with a notice in between
  (`FreedBetween`), that a registration is sent once and precedes the notice of its
  sender's death, and that whoever announces itself knows its host. `HostsInv` says
  what stands behind a host's bus name: an agent that registered for this host,
  or one that died before it got the answer; and a dead agent known by its unique
  name has its notice still queued. Without the queue neither property is
  inductive: a registration that arrives after its agent's death notice would
  claim a host for nobody.

`HostReboot_proofs` (`ConstantsAssumption`, `OptionsAssumption`):

* `RebootRefinesRegistry`: `RebootSpec => Spec`. Every step of the composition is a
  step of the registry or leaves its variables unchanged, so everything proved
  about the registry holds with a rebooting client.
* `BackIsNewAgent`: `RebootSpec => []BackMeansNewAgent`. `RebootInv` adds that since
  the request the host belongs to nobody it belonged to before, and that its
  generation grew only when somebody else announced it (`RequestInv`).

`ProcessExec_proofs` (`ExecAssumption`, `NoneAssumption`):

* `ExecInvariant`: `Spec => []ExecInv`. Four views of a process have to agree:
  the operating system's (`OsInv`: chain, filled buffer and pipe make up what was
  written), the agent's report in progress (`RepInv`), the master's object and file
  (`FileInv`, `ExitInv`) and each client's queue (`ClientInv`: a client that asked for
  a process gets the reply, the exit or both, in an order the wait queue of the
  client can take).
* `ResultsAreTrue` (`ResultIsTrue`) and `OutputIsComplete` (`OutputComplete`) follow:
  uploads precede the exit report, which precedes what the client reads. An upload
  can fail at the limit of a file without the report taking notice, so `FileInv`
  and `ExitInv` say of a file that it has what fits (`KeptOf`), and the theorem promises
  the whole output only of a stream within the limit.

`Files_proofs` (`FilesAssumption`):

* `FilesInvariant`: `FilesSpec => []FilesInv`, with `UploadInv` and `CopyInv` for the
  transfers and `AgentInv` (`QueueInv`, `MetaInv`, `FreshInv`, `JobInv`, `SeenInv`),
  `OrderInv` and `CacheInv` for the agent's cache.
* `TransfersAreAlwaysExact` (`TransfersAreExact`): what has arrived and what is left
  make up the source, or, for a source that changes, the part fetched since the
  last change does.
* `SeenIsAlwaysNewEnough` (`SeenIsNewEnough`): contents only grow, a process's
  structure has no data and nobody refers to it until it is attached
  (`FreshInv`), so what it is attached to is its own download or one that is at
  least as long.
* `LossOnlyToNewer` (`LostOnlyToNewer`, an action property): processes are
  started in the order they were scheduled, so the versions they were scheduled
  with only grow (`OrderInv`).

`Eventlog_proofs` (`EventlogAssumption`, `LogAssumption`):

* `EventlogInvariant`: `Spec => []LogInv`. The agent waits for the master
  before it sends again, so an event can only be first in the queue (`QueueInv`);
  sequence numbers of sent, stored and pending events follow each other
  (`NumberInv`); every file holds increasing bytes (`FilesInv`); what is logged,
  on the way or pending is older than what is still ahead of the monitor
  (`SentInv`, `AheadInv`); the monitor's size is what it has read (`MonitorInv`);
  and what was written when a child ended is found by the system calls of the
  poll that precedes its report (`DueInv`).
* `LogIsAlwaysSound` (`LogIsSound`), `AlwaysLoggedBeforeReport` (`LoggedBeforeReport`)
  and `PurgesTakeShown` (`PurgeTakesShown`, an action property) follow from it.

`Library_proofs`, the event loop (`EventLoopAssumption`):

* `LoopInvariant`: `LoopSpec => []LoopInv`. Between the preparation of `poll()` and
  the end of the walk the table of sockets is only appended to and cleared, never
  compacted (`StableInv`), whatever is dispatched inside; sockets occur once in
  the table (`SlotsInv`), so that the reference counts are sums; a message is in
  one place only, and synchronous calls move it but do not change the order
  (`MessagesInv`); a process that was not asked for yet has left no trace
  (`FreshInv`), so starting it cannot meet an old slot or an old place in the queue.
* `EventsAlwaysReachTheirSocket` (`EventsReachTheirSocket`) and `WaitQueueIsSound`
  (`WaitQueueSound`) follow from it.

`Proxy_proofs` (`ProxyAssumption`):

* `ProxyInvariant`: `Spec => []ProxyInv`. Both properties are about what the two
  proxies and the line hold together, so the invariant is stated on the stream to
  a side: what its proxy has read, what is on the line, and what the other proxy
  is writing. `FrameInv`: the stream and every queued buffer are made of whole
  packets; only the last may be cut off, once writing to the line has been shut
  down. `OpenInv`: a channel is opened once and before its first byte, so no byte
  meets an endpoint that does not exist yet. `ChannelInv`: of the first `d` bytes of
  a channel the program has some, the others are in its endpoint's buffers, in
  order (`Arrived`), and those after `d` are in the stream, then in the queue of
  the other side, in order and without a gap (`Flow`); this is claimed as long as
  the endpoint can write to its program, since what is queued to it later is
  discarded as a whole. `EndpointInv`: an endpoint is on the list while it has a
  descriptor, and the host's follow the guest's.
* `BytesArriveInOrder` (`InOrder`) follows from `ChannelInv` step by step: a byte is
  written to a program only from the front of the chain.
* `CreditIsAccounted` (`CreditAccounted`): the credit is a sum over all endpoints of
  the lengths of their queues. Lemmas on `Total` say how it changes with one
  summand, and that the walk `foreach_io_endpoint`, which may end early, and the
  purge of the garbage list give back exactly what they take off the queues.

`DBusProxies_proofs` (`ClassesAssumption`):

* `ProxiesInvariant`: `ProxiesSpec => []ProxiesInv`. An object is published with just
  the interfaces for its class and those above it (`Published`); the tree has no
  holes, as unregistering takes everything below (`ObjectInv`); a proxy knows
  nothing of its object but the path, or its class and all its interfaces
  (`Known`); a request in the queue with the number the client waits for is the
  one it sent, and while a refresh is out all proxies below are marked
  (`Awaits`); an answer to a refresh tells of a part of the tree without holes,
  each object with an entry for each of its interfaces (`Tells`).
* `RefreshMirrorsReply` (`MirrorsReply`) rests on `ManagedObject`: whatever the order of
  the entries, the class of the proxy moves along one chain of classes until the
  entry of the interface of its own class is read, which is why
  `ClassesAssumption` asks for such an interface (each class in schema/ that
  objects are published with has one; an object may also be of no class, and an
  interface for none); and on `Refreshed`: the purge takes what is
  below a stale proxy with it, and never something that was just reported,
  because the answer has no holes.
* `CallsReachMostSpecific` (`CallReachesMostSpecific`): the candidates for a method are
  for classes above that of the object, which are in a row (`SubclassFacts`), so
  of two one is always more specific (`MoreSpecific`) and the search never ends
  in an ambiguity. An interface of no class is replaced by nothing and replaces
  nothing, so where the object has several the first one bound is called; an
  object's interfaces are in the order of the registry and then of its table
  (`InOrder`), and the proxy's in the order of the reply, so the first is known.
* `ProxiesLostOnlyToReply` (`LostOnlyToReply`, an action property).

The walks over interfaces, entries and classes are recursive functions. That they
are defined, and what they compute, is proved by induction over a set of numbers
(`UpTo`, `Iteration`), from the fact that `<` is well-founded; paths and classes
above another are the least closed set (`FromFacts`, `FromLeast`, `FromChain`).

`Library_proofs`, the buffers (`ChunkAssumption`, `KeysAssumption`, `MaxLengthAssumption`):

* `BufferAlwaysFits`: `BufferSpec => []BufferFits`. Inductive together with the
  types (`BufferInv`). The argument is about `ARRAY_ALLOCATION`, which rounds a
  length up to whole chunks: it is monotone, so a deletion never makes the
  computed size exceed the buffer, and while `len + 1` stays below it the next
  length has the same allocation, so an append that does not grow the buffer has
  room (lemmas `AllocationBounds`, `AllocationMonotone`, `AllocationStable`,
  `GrowFits`).

What stays with TLC:

* Liveness under fairness (`live`, `process_live`, and the temporal properties of the other
  runs): the prover has no rule for ENABLED.
* `Containers`, `Xml`, `XPath`, `Variant`, `DBusXml` and `XmlRewrite` translate
  recursive C functions with RECURSIVE operators, about which the prover cannot
  reason, and `AgentState` and `ClientCommands` extend them. So the properties of
  these modules, with the refinement `TreeSpec` of `ObjectTree` by `Containers`,
  are only model-checked.
* Most properties of `DBusXml`, `XPath` and `XmlRewrite` say what such an operator
  computes for every tree or text. The induction over numbers that serves for the
  walks of `DBusProxies` does not reach them.

## Findings

* `CreditSuffices` (run proxy_credit, `proxy/main.c:616`): proxy_recv_demux limits each read by the credit the multiplexing endpoint has left, but a packet is put together from several reads and charged as a whole. When a program reads slowly and less credit is left than the next packet needs, the assertion src/proxy/main.c:616 "ni_assert(mbuf->credit <= source->rx_credit)" fails and the proxy aborts, although src/proxy/main.c:1487 says "This is important for the rx_credit" and src/proxy/main.c:1488 "calculation, as we want to avoid rx_credit going negative."
* `NoCallToFreed` (run deleted, `dborb/dbus-server.c:658`): Deleting a container unregisters its own object only (server/dbus-container.c:62): the objects of its files stay below it, registered with libdbus under their paths, and it waits for ni_dbus_objects_garbage_collect (src/dborb/dbus-object.c:135 "deferring deletion of active object"). The main loop collects before it waits (server/main.c:217), but all messages that came in at once are dispatched without going back to it (dborb/dbus-connection.c:919). So a call for such a file is dispatched, and the dispatcher, where it says "Clean out deceased objects" (src/dborb/dbus-server.c:657), frees the very object it was called for and reads it in the next lines.

Two disagreements were met while modelling `do_reboot`, too shallow for a
run: `opt_timeout` is -1 by default and tested as a truth value, so a plain
`reboot` is refused with "Cannot use --timeout without --wait"
(`client/main.c:1000`), and `--wait` without `--timeout` polls once and gives up
(`testbus/calls.c:776`). Both are in the model as the code has them.

More disagreements the model contains and no run is spent on:

* The generation a reboot is compared with is the one cached when the host was
  looked up (`testbus/calls.c:1604`). An agent that becomes ready between the
  lookup and the request makes the wait succeed at once. `BackMeansNewAgent`
  therefore assumes that the cached value was current.
* Deleting a test clears `context.parent` of the hosts it had claimed
  (`server/host.c:165`), although they stay children of the global context: they
  no longer inherit its environment and can no longer be deleted.
* A reconnecting agent reads the uuid property in a second call after reconnect
  has returned and saves what it reads (`testbus/calls.c:458`). If the host was
  shut down and taken over by an agent of another machine in between, it saves
  the other agent's uuid, and its next reconnect takes the host away from that
  running agent, although `server/dbus-host.c:235` allows reconnect only to a
  host that is "currently not active".
* A process that writes more than 1 MiB to a stream: `Tmpfile.append` refuses the
  buffer that does not fit (`server/dbus-fileset.c:169`), the agent logs it, gives up
  the rest of the stream (`agent/command.c:63`) and reports the exit. The client gets
  the exit status with the size of the cut file and nothing that says so.
  `OutputComplete` states what it does get.
* The file monitor names a truncate event (`dborb/monitor.c:203`) and never
  raises it: what is written to a truncated file below its old size is not
  logged. `LoggedBeforeReport` and `WritesAreNoticed` exclude truncated files.
* A client that shows events, and purges after a new agent has registered,
  purges events of the new agent by the numbers of the old one
  (`client/main.c:1914`); and it purges by an uninitialised number when there was
  no log to show. `PurgeTakesShown` excludes both.
* A packet on the proxy's line whose last byte is also the last byte of the read
  limit (4096, or the credit left) is complete and stays in the buffer until
  more input arrives (`proxy/main.c:1528`). `DataArrives` and `CloseArrives`
  exclude this case by `Stalled`.
* When the line ends, the walk over the endpoints stops at the first that is
  closed at once (`proxy/main.c:1575`); the others stay open and keep a pointer
  to the line's endpoint, which is freed.
* An endpoint that still has output when its read side is shut down is polled
  with `rfd`, which is -1 (`proxy/main.c:824`): the output is never written and
  the endpoint stays open, although `proxy/main.c:714` says it is to be marked
  "for future shutdown after draining all pending writes".
* `ni_process_kill` signals the process group of the child
  (`dborb/process.c:692`), which exists only once the child has called setsid. A
  process that is deleted right after it was started runs to its end, although
  `agent/command.c:275` says "if it's still running, kill it".
* A process whose file is cached and unchanged keeps a structure without
  contents (`agent/files.c:28`): its instance is not written. `SeenIsNewEnough`
  therefore allows a process to see nothing.
* `ni_testbus_file_drop_cache` removes the instance the cached structure names,
  which may belong to a process that is still running (`agent/files.c:31`).
  The comment above calls it making "sure the data we cached is still valid"
  (`:27`), but the structure that stays in the cache keeps the sequence number it
  had before it was downloaded again, because nothing brings `gfile->iseq` up to
  date. So of three processes scheduled with version 1, 2 and 2, the third finds
  the number 1 in the cache, drops what the second has just downloaded, and
  removes the instance of the second while it runs. The proof of
  `LostOnlyToNewer` met this: with two processes it cannot happen, so the run has
  three, and the property says what does hold, that the attaching process is
  newer than the cached number and at least as new as the one that loses.
* `upload-file --host` sends every chunk with offset 0 (`testbus/calls.c:1067`), so
  of a file of several chunks the host keeps the last one. No property is
  claimed for it.
* `download-file` from a host whose file shrinks after its size was asked for never
  ends (`testbus/calls.c:1001`): an empty chunk does not end the loop.
* `delete --name` finds a file of that name again and again, because a file
  cannot be deleted and the loop does not look at the failure
  (`client/main.c:616`).
* A state file that was cut off is fatal at every later start
  (`agent/main.c:355`); and the capabilities that are read from the file are
  never written to it.
* `fork` failing leaves a freed process on the wait queue
  (`dborb/process.c:643`). `ChildrenAreReaped` excludes the queue that holds one.
* `__ni_dbus_object_pick_more_specific` tests the same condition twice
  (`dborb/dbus-object.c:330`, `:334`): when the more specific interface was
  registered first the lookup of a service for a method or a signal gives up
  instead of keeping it. The calls of a proxy have a search of their own, which
  `CallReachesMostSpecific` is about.
* The XPath operators `<=` and `>=` cannot be reached, because `<` and `>` are tried
  first (`dborb/xpath.c:1510`).
* `xml_escape_quote` returns its argument (`dborb/xml-writer.c:319`): an attribute
  that contains a quote does not read back. No such attribute is written today.
* An argument that is an object path or a flag can be declared in a schema and is
  never accepted: an object path is parsed as a string and sent as one
  (`dborb/dbus-common.c`), a flag is sent as a byte while its signature is empty, and
  the dispatcher compares signatures (`dborb/dbus-server.c:697`). A method with an
  argument that is void, a union or an array of these is left out when it is
  registered (`dborb/dbus-xml.c:204`). `Callable` excludes them, and `ArrivesAsMeant` says
  that nothing else is refused there. Within a dict, unions and flags arrive.
* A dict entry the reader cannot decode ends the dict without an error
  (`dborb/dbus-message.c:378`). The values of a schema's documents do not get there: what
  the reader cannot decode has no signature and is not sent. `ArrivesAsMeant` says
  so of all documents of the run, also of those that are not `Meaningful`, which is
  limited to the arrays the code implements: strings, bytes and dicts.
* Bytes above 127 in a text that is written index a table before its start, because
  `char` is signed (`dborb/xml-writer.c:295`, `:306`). No symbol of `Xml` is such a byte.
* `xml_node_get_next` goes on to the siblings of a top that has no children
  (`dborb/xml.c:591`). The model and the run walk from the root of a document,
  which has no siblings.
* A constant subscript that is true, as in `a[1 = 1]`, makes the XPath evaluator return
  its own argument, which the caller then frees (`dborb/xpath.c:1054` with `:744`).
  `predicate_evaluate` has what the memory held, and no expression of the run has
  such a subscript.
* Numbers too large for their type are cut (`dborb/dbus-xml.c:667` has a FIXME); they
  are not meaningful in the sense of `ArrivesAsMeant`.

## Not modelled

Logging, configuration, md5 and string helpers: pure functions without protocol
state. Schema files and introspection: read once at start-up; the types they
declare are parameters of DBusXml and DBusProxies. Environments: a merge along
the parents at the moment of Host.run. Monitor objects of the master: nothing
creates them. Terminals and standard input of processes; the parts of the proxy
that `PROJECT.json` names; asynchronous method replies and name watches of dborb,
which testbus uses only in the ways HostRegistry has. `PROJECT.json` lists every
component with its status.

## Plan

Modelling has reached what the repository holds of protocol and of algorithms
with state, and every property of a module without RECURSIVE operators that is
not about liveness is proved. What remains:

1. `Containers` with its walks up and down the tree as least closed sets and
   recursive functions, as in `DBusProxies`, so that `OwnershipSound` and the
   refinement of `ObjectTree` can be proved.
2. Environments, should their merge become more than a function of one call.
