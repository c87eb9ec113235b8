------------------------------- MODULE Proxy -------------------------------
(***************************************************************************)
(* Two instances of dbus-proxy (proxy/main.c) joined by a line: the one in *)
(* a guest accepts connections of D-Bus clients and multiplexes them onto  *)
(* a serial line, the one on the host connects each channel to the D-Bus   *)
(* daemon.  Once a channel is open both instances do the same, so a side   *)
(* is a parameter of most definitions.                                     *)
(*                                                                         *)
(* A packet is a header, counted as one unit, and its payload; the line is *)
(* a stream of units and may deliver packets in pieces.  Each proxy goes   *)
(* round a loop (do_proxy): it prepares its endpoints, polls their         *)
(* descriptors, and calls the handlers of those that poll has reported, in *)
(* the order of the descriptors.  The preparation, the poll, and what a    *)
(* handler does about input, output and hangup are actions.                *)
(***************************************************************************)
EXTENDS Integers, Sequences, FiniteSets

CONSTANTS
    MaxChannel,         \* bound: connections accepted from clients
    ReadSize,           \* units one call of read asks for at most (4096)
    SimplexCredit,      \* DEFAULT_CREDIT_SIMPLEX
    MultiplexCredit,    \* DEFAULT_CREDIT_MULTIPLEX
    LineSize,           \* units the line holds in each direction
    SockSize,           \* bytes the socket of a program holds
    MaxSend,            \* bound, per side: bytes a program sends over a connection
    Closers,            \* bound: what may close, of "line" and the programs of a side
    None

ASSUME ProxyAssumption ==
    /\ MaxChannel \in Nat
    /\ ReadSize \in Nat \ {0}
    /\ SimplexCredit \in Nat \ {0}
    /\ MultiplexCredit \in Nat \ {0}
    /\ LineSize \in Nat \ {0}
    /\ SockSize \in Nat \ {0}
    /\ MaxSend \in [{"guest", "host"} -> Nat]
    /\ Closers \subseteq {"line", "guest", "host"}
    /\ None \notin Nat

Side == {"guest", "host"}
Other(s) == IF s = "guest" THEN "host" ELSE "guest"

\* Channel identifiers are counted up, so the order of ep_list is their order.
Channel == 1 .. MaxChannel
Mux == 0

VARIABLES
    mux,                \* per side: the multiplexing endpoint
    ep,                 \* per side: the endpoints of the channels
    next_channel_id,    \* of the guest's downstream transport
    line,               \* per side: what was written to the line and not yet read
    lineOpen,
    sock,               \* per side: the programs at the other end of the endpoints
    poll,               \* per side: where the loop is
    aborted             \* the sides that ended in a failed assertion or a crash

vars == <<mux, ep, next_channel_id, line, lineOpen, sock, poll, aborted>>

-----------------------------------------------------------------------------
(* Types *)

MaxBytes == IF MaxSend["guest"] > MaxSend["host"] THEN MaxSend["guest"] ELSE MaxSend["host"]

\* A unit is a header or a byte of the payload, which remembers its place in
\* what the program of its channel sent.
Byte == [cmd : {"BYTE"}, channel : Channel, count : 1 .. MaxBytes]
Unit == [cmd : {"OPEN", "CLOSE", "DATA"}, channel : Channel, count : 0 .. MaxBytes] \cup Byte
Header(cmd, c, n) == [cmd |-> cmd, channel |-> c, count |-> n]
Bytes(c, m, n) == [i \in 1 .. n - m |-> Header("BYTE", c, m + i)]

\* A buffer queued to the line; source is the address of the endpoint that gets
\* its credit back, or None.
Mbuf == [source : Channel \cup {None}, credit : Nat, data : Seq(Unit)]

\* open and wr stand for rfd >= 0 and wfd >= 0.
MuxRec == [open : BOOLEAN, wr : BOOLEAN, freed : BOOLEAN, rx_credit : Nat,
           rbuf : Seq(Unit), wbuf : Seq(Unit), wqueue : Seq(Mbuf)]

\* rd and wr stand for rfd >= 0 and wfd >= 0.  The mbufs in wqueue all come from
\* the multiplexing endpoint.  addr is where the structure lies in memory.
EpRec == [st : {"none", "open", "garbage", "freed"}, addr : Channel \cup {None},
          rd : BOOLEAN, wr : BOOLEAN, shutdown_write : BOOLEAN, rx_credit : Nat,
          wbuf : Seq(Byte), wqueue : Seq(Seq(Byte))]

SockRec == [st : {"none", "open", "closed"}, sent : 0 .. MaxBytes,
            taken : 0 .. MaxBytes, got : Seq(Byte), unread : 0 .. SockSize]

\* What poll is asked for, or has reported: input, room for output, a hangup.
Event == {"in", "out", "hup"} \X (Channel \cup {Mux})

PollRec == [at : {"prepare", "poll", "handle"}, events : SUBSET Event]

ProxyTypeOK ==
    /\ mux \in [Side -> MuxRec]
    /\ ep \in [Side -> [Channel -> EpRec]]
    /\ next_channel_id \in 1 .. (MaxChannel + 1)
    /\ line \in [Side -> Seq(Unit)] /\ \A s \in Side : Len(line[s]) <= LineSize
    /\ lineOpen \in BOOLEAN
    /\ sock \in [Side -> [Channel -> SockRec]]
    /\ poll \in [Side -> PollRec]
    /\ aborted \in SUBSET Side

NoEndpoint == [st |-> "none", addr |-> None, rd |-> FALSE, wr |-> FALSE,
               shutdown_write |-> FALSE, rx_credit |-> 0, wbuf |-> <<>>, wqueue |-> <<>>]

Init ==
    /\ mux = [s \in Side |-> [open |-> TRUE, wr |-> TRUE, freed |-> FALSE,
                              rx_credit |-> MultiplexCredit, rbuf |-> <<>>, wbuf |-> <<>>,
                              wqueue |-> <<>>]]
    /\ ep = [s \in Side |-> [c \in Channel |-> NoEndpoint]]
    /\ next_channel_id = 1
    /\ line = [s \in Side |-> <<>>]
    /\ lineOpen = TRUE
    /\ sock = [s \in Side |-> [c \in Channel |->
          [st |-> "none", sent |-> 0, taken |-> 0, got |-> <<>>, unread |-> 0]]]
    /\ poll = [s \in Side |-> [at |-> "prepare", events |-> {}]]
    /\ aborted = {}

-----------------------------------------------------------------------------
(* Endpoints.  A proxy is a record [mux, ep] here.                          *)

Proxy(s) == [mux |-> mux[s], ep |-> ep[s]]

Becomes(s, p) ==
    /\ mux' = [mux EXCEPT ![s] = p.mux]
    /\ ep' = [ep EXCEPT ![s] = p.ep]

Least(m, n) == IF m < n THEN m ELSE n

\* The sum of natural numbers f[x].
Total(f) == Cardinality(UNION {{x} \X (1 .. f[x]) : x \in DOMAIN f})

TotalLength(q) == Total([i \in DOMAIN q |-> Len(q[i])])

HasPending(e) == e.wbuf # <<>> \/ e.wqueue # <<>>

\* p with the endpoint e for channel c, and k more credit for the multiplexing one.
With(p, c, e, k) ==
    [mux |-> [p.mux EXCEPT !.rx_credit = @ + k], ep |-> [p.ep EXCEPT ![c] = e]]

\* Mutant: pullup does not give the credit back.
Pullup_KeepsCredit(p, c) ==
    LET e == p.ep[c] IN
    IF e.wbuf # <<>> \/ e.wqueue = <<>> THEN p
    ELSE With(p, c, [e EXCEPT !.wbuf = Head(e.wqueue), !.wqueue = Tail(@)], 0)

\* io_endpoint_pullup of a channel; the multiplexing endpoint gets the credit of
\* the buffer back.
Pullup(p, c) ==
    LET e == p.ep[c] IN
    IF e.wbuf # <<>> \/ e.wqueue = <<>> THEN p
    ELSE With(p, c, [e EXCEPT !.wbuf = Head(e.wqueue), !.wqueue = Tail(@)],
              Len(Head(e.wqueue)))

\* io_endpoint_write_queue_discard: their credit is given back as well.
Discarded(e) == [e EXCEPT !.wbuf = <<>>, !.wqueue = <<>>]

\* An endpoint without descriptors goes to the garbage list.
Settled(e) == IF e.rd \/ e.wr THEN e ELSE [e EXCEPT !.st = "garbage"]

ShutdownRead(p, c) == With(p, c, Settled([p.ep[c] EXCEPT !.rd = FALSE]), 0)

ShutdownWrite(p, c) ==
    LET e == p.ep[c] IN
    IF e.wr THEN With(p, c, Settled([Discarded(e) EXCEPT !.wr = FALSE]), TotalLength(e.wqueue))
    ELSE p

halfclose(p, c) ==
    LET q == Pullup(p, c)
        r == ShutdownRead(With(q, c, [q.ep[c] EXCEPT !.shutdown_write = TRUE], 0), c)
    IN  IF HasPending(p.ep[c]) THEN r ELSE ShutdownWrite(r, c)

\* Mutant: the endpoint the buffer came from gets nothing back.
CreditBack_Lost(p, src, n) == p

\* io_mbuf_take_buffer adds the credit to whatever lies at the source's address.
CreditBack(p, src, n) ==
    [p EXCEPT !.ep = [c \in Channel |->
        IF src # None /\ p.ep[c].addr = src /\ p.ep[c].st \in {"open", "garbage"}
        THEN [p.ep[c] EXCEPT !.rx_credit = @ + n] ELSE p.ep[c]]]

\* The multiplexing endpoint is shut down for writing, its buffers discarded.
ShutdownMuxWrite(p) ==
    LET q == p.mux.wqueue
        from(c) == {i \in DOMAIN q : q[i].source # None /\ q[i].source = p.ep[c].addr}
        back(c) == Total([i \in from(c) |-> q[i].credit])
    IN  [mux |-> [p.mux EXCEPT !.wr = FALSE, !.wbuf = <<>>, !.wqueue = <<>>],
         ep |-> [c \in Channel |->
                   IF p.ep[c].st \in {"open", "garbage"}
                   THEN [p.ep[c] EXCEPT !.rx_credit = @ + back(c)] ELSE p.ep[c]]]

\* Mutant: a buffer is put at the front of the queue.
QueueToLine_Front(p, m) == [p EXCEPT !.mux.wqueue = <<m>> \o @]

\* io_endpoint_queue_write of the multiplexing endpoint.
QueueToLine(p, m) == [p EXCEPT !.mux.wqueue = Append(@, m)]

Command(cmd, c) ==
    [source |-> None, credit |-> 0,
     data |-> <<Header(cmd, c, 0)>>]

\* Where malloc may put a new endpoint: at a new address, or where one was freed.
FreeAddress(s, c) ==
    {c} \cup {a \in Channel :
              /\ \E d \in Channel : ep[s][d].addr = a
              /\ \A d \in Channel : ep[s][d].addr = a => ep[s][d].st = "freed"}

EndpointAt(a) ==
    [NoEndpoint EXCEPT !.st = "open", !.addr = a, !.rd = TRUE, !.wr = TRUE,
                       !.rx_credit = SimplexCredit]

Running(s) == s \notin aborted

\* The order of the handlers.  The guest's upstream transport is the line, the
\* host's are the connections to the daemon; upstream comes first.
Place(s, x) == IF s = "host" /\ x = Mux THEN MaxChannel + 1 ELSE x
Before(s, e, f) ==
    \/ Place(s, e[2]) < Place(s, f[2])
    \/ e[2] = f[2] /\ <<e[1], f[1]>> \in {<<"in", "out">>, <<"in", "hup">>, <<"out", "hup">>}

\* The next thing that poll has reported is handled.
Handle(s, what, x) ==
    LET rest == poll[s].events \ {<<what, x>>} IN
    /\ Running(s)
    /\ poll[s].at = "handle"
    /\ <<what, x>> \in poll[s].events
    /\ \A e \in rest : Before(s, <<what, x>>, e)
    /\ poll' = [poll EXCEPT ![s] = [at |-> IF rest = {} THEN "prepare" ELSE "handle",
                                    events |-> rest]]

\* foreach_io_endpoint over ep_list; after[c] is what the body makes of p when it
\* works on the endpoint of c, which may give credit back to the line.  An endpoint
\* that it moves to the garbage list loses its next pointer, so the walk ends there.
foreach_io_endpoint(p, after) ==
    LET unlinked(c) == p.ep[c].st = "open" /\ after[c].ep[c].st # "open"
        visited == {c \in Channel : /\ p.ep[c].st = "open"
                                    /\ \A d \in 1 .. c - 1 : ~unlinked(d)}
        credit == [c \in visited |-> after[c].mux.rx_credit - p.mux.rx_credit]
    IN  [mux |-> [p.mux EXCEPT !.rx_credit = @ + Total(credit)],
         ep |-> [c \in Channel |-> IF c \in visited THEN after[c].ep[c] ELSE p.ep[c]]]

-----------------------------------------------------------------------------
(* The programs that use the bus: clients in the guest, the daemon.         *)

ProgramSends(s, c) ==
    /\ sock[s][c].st = "open"
    /\ \E n \in 1 .. (MaxSend[s] - sock[s][c].sent) :
          sock' = [sock EXCEPT ![s][c].sent = @ + n]
    /\ UNCHANGED <<mux, ep, next_channel_id, line, lineOpen, poll, aborted>>

ProgramCloses(s, c) ==
    /\ s \in Closers
    /\ sock[s][c].st = "open"
    /\ sock' = [sock EXCEPT ![s][c].st = "closed"]
    /\ UNCHANGED <<mux, ep, next_channel_id, line, lineOpen, poll, aborted>>

\* The program reads what its socket holds.
ProgramReads(s, c) ==
    /\ sock[s][c].unread > 0
    /\ sock' = [sock EXCEPT ![s][c].unread = 0]
    /\ UNCHANGED <<mux, ep, next_channel_id, line, lineOpen, poll, aborted>>

\* The guest stops, or its proxy.
LineCloses ==
    /\ "line" \in Closers
    /\ lineOpen
    /\ lineOpen' = FALSE
    /\ UNCHANGED <<mux, ep, next_channel_id, line, sock, poll, aborted>>

-----------------------------------------------------------------------------
(* The loop: before poll *)

\* io_endpoint_poll_prepare of a channel: fetch the next buffer, or finish a
\* write shutdown.
PrepareChannel(p, c) ==
    IF ~p.ep[c].wr THEN p
    ELSE IF HasPending(p.ep[c]) THEN Pullup(p, c)
    ELSE IF p.ep[c].shutdown_write THEN ShutdownWrite(p, c)
    ELSE p

\* io_endpoint_free of the endpoints on the garbage list.
PurgeChannels(p) ==
    LET garbage == {c \in Channel : p.ep[c].st = "garbage"}
        credit == [c \in garbage |-> TotalLength(p.ep[c].wqueue)]
    IN  [mux |-> [p.mux EXCEPT !.rx_credit = @ + Total(credit)],
         ep |-> [c \in Channel |->
                   IF c \in garbage
                   THEN [Discarded(p.ep[c]) EXCEPT !.st = "freed"]
                   ELSE p.ep[c]]]

PrepareChannels(p) ==
    PurgeChannels(foreach_io_endpoint(p, [c \in Channel |-> PrepareChannel(p, c)]))

\* The same for the multiplexing endpoint, whose buffers come from channels.
PrepareMux(p) ==
    IF p.mux.wr /\ p.mux.wbuf = <<>> /\ p.mux.wqueue # <<>>
    THEN LET m == Head(p.mux.wqueue) IN
         CreditBack([mux |-> [p.mux EXCEPT !.wbuf = m.data, !.wqueue = Tail(@)],
                     ep |-> p.ep], m.source, m.credit)
    ELSE IF ~p.mux.open /\ ~p.mux.wr
    THEN [ShutdownMuxWrite(p) EXCEPT !.mux.freed = TRUE]
    ELSE p

\* io_endpoint_poll: what poll is asked for.  For an endpoint that only writes
\* poll is given rfd, which is closed, so it never reports anything.
WithHangup(events) == events \cup {<<"hup", e[2]>> : e \in events}

PollChannels(p) ==
    LET polled == {c \in Channel : p.ep[c].st = "open" /\ p.ep[c].rd} IN
    WithHangup({<<"in", c>> : c \in {c \in polled : p.ep[c].rx_credit > 0}}
               \cup {<<"out", c>> : c \in {c \in polled : p.ep[c].wr /\ p.ep[c].wbuf # <<>>}})

PollMux(p) ==
    LET polled == {m \in {Mux} : p.mux.open} IN
    WithHangup({<<"in", m>> : m \in {m \in polled : p.mux.rx_credit > 0}}
               \cup {<<"out", m>> : m \in {m \in polled : p.mux.wr /\ p.mux.wbuf # <<>>}})

\* io_transport_poll of the upstream transport, then of the downstream one.
Prepare(s) ==
    /\ Running(s)
    /\ poll[s].at = "prepare"
    /\ \E p \in {IF s = "guest" THEN PrepareMux(Proxy(s)) ELSE PrepareChannels(Proxy(s))} :
       \E q \in {IF s = "guest" THEN PrepareChannels(p) ELSE PrepareMux(p)} :
          /\ Becomes(s, q)
          /\ poll' = [poll EXCEPT ![s] =
                [at |-> "poll",
                 events |-> IF s = "guest" THEN PollMux(p) \cup PollChannels(q)
                            ELSE PollChannels(p) \cup PollMux(q)]]
    /\ UNCHANGED <<next_channel_id, line, lineOpen, sock, aborted>>

\* What the kernel has to report.
Happens(s, e) ==
    LET x == e[2] IN
    IF x = Mux
    THEN \/ ~lineOpen
         \/ e[1] = "in" /\ line[Other(s)] # <<>>
         \/ e[1] = "out" /\ Len(line[s]) < LineSize
    ELSE \/ sock[s][x].st = "closed"
         \/ e[1] = "in" /\ sock[s][x].sent > sock[s][x].taken
         \/ e[1] = "out" /\ sock[s][x].unread < SockSize

\* poll returns when there is something to report, or after its timeout of 100
\* seconds.
Poll(s) ==
    LET reported == {e \in poll[s].events : Happens(s, e)} IN
    /\ Running(s)
    /\ poll[s].at = "poll"
    /\ poll' = [poll EXCEPT ![s] = [at |-> IF reported = {} THEN "prepare" ELSE "handle",
                                    events |-> reported]]
    /\ UNCHANGED <<mux, ep, next_channel_id, line, lineOpen, sock, aborted>>

-----------------------------------------------------------------------------
(* The loop: descriptors of channels *)

\* proxy_downstream_accept: the guest opens a channel.  It does so in a round of
\* its own.
Accept(c) ==
    /\ Running("guest")
    /\ poll["guest"].at = "poll"
    /\ c = next_channel_id
    /\ mux["guest"].open
    /\ \E a \in FreeAddress("guest", c) :
          Becomes("guest", QueueToLine(With(Proxy("guest"), c, EndpointAt(a), 0),
                                       Command("OPEN", c)))
    /\ next_channel_id' = c + 1
    /\ sock' = [sock EXCEPT !["guest"][c].st = "open"]
    /\ poll' = [poll EXCEPT !["guest"] = [at |-> "prepare", events |-> {}]]
    /\ UNCHANGED <<line, lineOpen, aborted>>

\* How much a read asks for.  The ioctl FIONREAD is called through fcntl and fails.
recv_bufsiz(rx_credit) == Least(ReadSize, rx_credit)

\* An endpoint still open when its sink, the multiplexing endpoint, was freed
\* queues to freed memory: the process crashes or the data is lost.
Queue(s, p, m) ==
    \/ /\ ~mux[s].freed
       /\ Becomes(s, QueueToLine(p, m))
       /\ UNCHANGED aborted
    \/ /\ mux[s].freed
       /\ Becomes(s, p)
       /\ aborted' \in {aborted, aborted \cup {s}}

\* proxy_recv_mux has read data.
RecvMux(s, c) ==
    LET e == ep[s][c]
        k == sock[s][c]
        n == Least(recv_bufsiz(e.rx_credit), k.sent - k.taken)
    IN  /\ Handle(s, "in", c)
        /\ e.rd
        /\ n > 0
        /\ Queue(s, With(Proxy(s), c, [e EXCEPT !.rx_credit = @ - n], 0),
                 [source |-> e.addr, credit |-> n,
                  data |-> <<Header("DATA", c, n)>> \o Bytes(c, k.taken, k.taken + n)])
        /\ sock' = [sock EXCEPT ![s][c].taken = @ + n]
        /\ UNCHANGED <<next_channel_id, line, lineOpen>>

\* Mutant: the other side is not told.
RecvEof_NoClose(s, c) ==
    /\ Handle(s, "in", c)
    /\ ep[s][c].rd
    /\ sock[s][c].sent = sock[s][c].taken
    /\ Becomes(s, ShutdownRead(Proxy(s), c))
    /\ UNCHANGED <<next_channel_id, line, lineOpen, sock, aborted>>

\* proxy_recv_mux has read 0 bytes.
RecvEof(s, c) ==
    /\ Handle(s, "in", c)
    /\ ep[s][c].rd
    /\ sock[s][c].sent = sock[s][c].taken
    /\ Queue(s, ShutdownRead(Proxy(s), c), Command("CLOSE", c))
    /\ UNCHANGED <<next_channel_id, line, lineOpen, sock>>

\* io_endpoint_doio writes what fits.
Write(s, c) ==
    LET e == ep[s][c]
        k == sock[s][c]
        n == Least(Len(e.wbuf), SockSize - k.unread)
    IN  /\ Handle(s, "out", c)
        /\ e.wr
        /\ k.st = "open"
        /\ sock' = [sock EXCEPT ![s][c] = [k EXCEPT !.got = @ \o SubSeq(e.wbuf, 1, n),
                                                    !.unread = @ + n]]
        /\ Becomes(s, With(Proxy(s), c, [e EXCEPT !.wbuf = SubSeq(@, n + 1, Len(@))], 0))
        /\ UNCHANGED <<next_channel_id, line, lineOpen, aborted>>

\* The write ends in EPIPE, or poll has reported a hangup.
ShutdownChannel(s, c) ==
    /\ \/ Handle(s, "out", c) /\ sock[s][c].st = "closed"
       \/ Handle(s, "hup", c)
    /\ ep[s][c].wr
    /\ Becomes(s, ShutdownWrite(Proxy(s), c))
    /\ UNCHANGED <<next_channel_id, line, lineOpen, sock, aborted>>

\* The descriptor was shut down earlier in this round.
SkipChannel(s, c) ==
    /\ \/ Handle(s, "in", c) /\ ~ep[s][c].rd
       \/ Handle(s, "out", c) /\ ~ep[s][c].wr
       \/ Handle(s, "hup", c) /\ ~ep[s][c].wr
    /\ UNCHANGED <<mux, ep, next_channel_id, line, lineOpen, sock, aborted>>

-----------------------------------------------------------------------------
(* The loop: the line *)

\* What fits is written.
WriteLine(s) ==
    LET n == Least(Len(mux[s].wbuf), LineSize - Len(line[s])) IN
    /\ Handle(s, "out", Mux)
    /\ mux[s].wr /\ lineOpen
    /\ line' = [line EXCEPT ![s] = @ \o SubSeq(mux[s].wbuf, 1, n)]
    /\ mux' = [mux EXCEPT ![s].wbuf = SubSeq(@, n + 1, Len(@))]
    /\ UNCHANGED <<ep, next_channel_id, lineOpen, sock, aborted>>

\* The write fails, or poll has reported a hangup.  Writing is shut down if that
\* was not done before.
ShutdownLine(s) ==
    /\ \/ Handle(s, "out", Mux) /\ ~lineOpen
       \/ Handle(s, "hup", Mux)
    /\ Becomes(s, IF mux[s].wr THEN ShutdownMuxWrite(Proxy(s)) ELSE Proxy(s))
    /\ UNCHANGED <<next_channel_id, line, lineOpen, sock, aborted>>

\* The cases of proxy_demux_packet.  p is the proxy with rbuf emptied.
OpenChannel(s, p, c) ==
    /\ \E a \in FreeAddress(s, c) : Becomes(s, With(p, c, EndpointAt(a), 0))
    /\ sock' = [sock EXCEPT ![s][c].st = "open"]
    /\ UNCHANGED aborted

CloseChannel(s, p, c) ==
    /\ Becomes(s, halfclose(p, c))
    /\ UNCHANGED <<sock, aborted>>

\* The payload is charged to the multiplexing endpoint, which must have credit.
DataForChannel(s, p, c, data) ==
    IF Len(data) > p.mux.rx_credit
    THEN /\ aborted' = aborted \cup {s}
         /\ UNCHANGED <<mux, ep, sock>>
    ELSE /\ Becomes(s, With(p, c, [p.ep[c] EXCEPT !.wqueue = Append(@, data)], -Len(data)))
         /\ UNCHANGED <<sock, aborted>>

\* The packet starts with its header.
demux_packet(s, p, packet) ==
    LET c == Head(packet).channel
        cmd == Head(packet).cmd
    IN  CASE cmd = "OPEN" -> OpenChannel(s, p, c)
          [] cmd # "OPEN" /\ p.ep[c].st # "open" ->
                Becomes(s, p) /\ UNCHANGED <<sock, aborted>>
          [] cmd = "CLOSE" /\ p.ep[c].st = "open" -> CloseChannel(s, p, c)
          [] cmd = "DATA" /\ p.ep[c].st = "open" -> DataForChannel(s, p, c, Tail(packet))

\* The size of the packet that starts with the given units.
PacketSize(units) == 1 + Head(units).count

FullPacket(rbuf) == rbuf # <<>> /\ Len(rbuf) = PacketSize(rbuf)

\* proxy_recv_demux: read on to the end of the current packet, at most rcount
\* units.  A packet that ends exactly there stays in rbuf until poll reports
\* more input.
RecvDemux(s) ==
    LET o == Other(s)
        p == Proxy(s)
        rcount == recv_bufsiz(mux[s].rx_credit)
        size == PacketSize(mux[s].rbuf \o line[o])
        n == Least(Least(rcount, Len(line[o])), size - Len(mux[s].rbuf))
        rbuf == mux[s].rbuf \o SubSeq(line[o], 1, n)
    IN  /\ Handle(s, "in", Mux)
        /\ line[o] # <<>>
        /\ line' = [line EXCEPT ![o] = SubSeq(@, n + 1, Len(@))]
        /\ IF Len(rbuf) = size /\ n < rcount
           THEN demux_packet(s, [p EXCEPT !.mux.rbuf = <<>>], rbuf)
           ELSE /\ Becomes(s, [p EXCEPT !.mux.rbuf = rbuf])
                /\ UNCHANGED <<sock, aborted>>
        /\ UNCHANGED <<next_channel_id, lineOpen>>

\* A packet left over from the last read is handled when the line closes.
RecvLeftover(s) ==
    /\ Handle(s, "in", Mux)
    /\ ~lineOpen /\ line[Other(s)] = <<>>
    /\ FullPacket(mux[s].rbuf)
    /\ demux_packet(s, [Proxy(s) EXCEPT !.mux.rbuf = <<>>], mux[s].rbuf)
    /\ UNCHANGED <<next_channel_id, line, lineOpen>>

\* The end of the line: close the endpoints of all channels, and this one.  The
\* walk ends with the first endpoint that has nothing to write.
LineEof(s) ==
    /\ Handle(s, "in", Mux)
    /\ ~lineOpen /\ line[Other(s)] = <<>>
    /\ ~FullPacket(mux[s].rbuf)
    /\ \E p \in {Proxy(s)} :
          Becomes(s, [foreach_io_endpoint(p, [c \in Channel |-> halfclose(p, c)])
                         EXCEPT !.mux.open = FALSE])
    /\ UNCHANGED <<next_channel_id, line, lineOpen, sock, aborted>>

-----------------------------------------------------------------------------

ChannelStep(s, c) ==
    \/ RecvMux(s, c) \/ RecvEof(s, c) \/ Write(s, c)
    \/ ShutdownChannel(s, c) \/ SkipChannel(s, c)

LineStep(s) ==
    \/ RecvDemux(s) \/ RecvLeftover(s) \/ LineEof(s)
    \/ WriteLine(s) \/ ShutdownLine(s)

Loop(s) == Prepare(s) \/ Poll(s) \/ LineStep(s) \/ \E c \in Channel : ChannelStep(s, c)

Next ==
    \/ \E c \in Channel : Accept(c)
    \/ \E s \in Side, c \in Channel :
          ProgramSends(s, c) \/ ProgramReads(s, c) \/ ProgramCloses(s, c)
    \/ \E s \in Side : Loop(s)
    \/ LineCloses

Spec == Init /\ [][Next]_vars

\* Both proxies go round their loops, and the programs read what is written to
\* them.  Nobody has to connect, to send or to close.
Fairness ==
    \A s \in Side :
        /\ WF_vars(Loop(s))
        /\ \A c \in Channel : WF_vars(ProgramReads(s, c))

FairSpec == Spec /\ Fairness

-----------------------------------------------------------------------------
(* Properties *)

\* What a program receives is what the program at the other end of its channel
\* sent, byte for byte from the start, whatever is discarded on the way.
InOrder ==
    \A s \in Side, c \in Channel :
        LET got == sock[s][c].got IN
        /\ got = Bytes(c, 0, Len(got))
        /\ Len(got) <= sock[Other(s)][c].taken

\* The credit of a multiplexing endpoint and that of the buffers it has queued
\* to channels add up to the default: none is lost, none is made up.
CreditAccounted ==
    \A s \in Side : mux[s].open /\ Running(s) =>
        mux[s].rx_credit + Total([c \in Channel |-> TotalLength(ep[s][c].wqueue)])
            = MultiplexCredit

\* A full packet waits in rbuf because it ended where the last read ended.
Stalled(s) == FullPacket(mux[s].rbuf)

Undisturbed(c) ==
    /\ lineOpen /\ aborted = {}
    /\ \A s \in Side : sock[s][c].st = "open" /\ ~Stalled(s)

\* While nobody closes the channel or the line, what was sent arrives, unless a
\* packet ends exactly at the size of a read.
DataArrives ==
    \A s \in Side, c \in Channel :
        Undisturbed(c) /\ sock[s][c].sent > Len(sock[Other(s)][c].got)
            ~> \/ ~Undisturbed(c)
               \/ sock[s][c].sent = Len(sock[Other(s)][c].got)

\* When the program at one end has closed, the endpoint at the other end stops
\* listening to its program.
CloseArrives ==
    \A s \in Side, c \in Channel :
        sock[s][c].st = "closed" ~>
            \/ ~ep[Other(s)][c].rd
            \/ ~lineOpen \/ aborted # {} \/ Stalled("guest") \/ Stalled("host")

\* "assert(mbuf->credit <= source->rx_credit)": no proxy runs into it.
CreditSuffices ==
    lineOpen => aborted = {}
=============================================================================
