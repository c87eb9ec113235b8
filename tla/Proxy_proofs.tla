---------------------------- MODULE Proxy_proofs ----------------------------
(***************************************************************************)
(* Proofs about the two proxies: what a program receives is what was sent  *)
(* to it, byte for byte, and no credit of the line is lost or made up; for *)
(* any number of channels, any sizes and any credit.                       *)
(***************************************************************************)
EXTENDS Proxy, TLAPS, SequenceTheorems, FiniteSetTheorems, FunctionTheorems

-----------------------------------------------------------------------------
(* The inductive invariant: what is on its way to the proxy of side s       *)

\* The units that were read by the proxy of side s, are on the line to it, or
\* are being written to the line.
Stream(s) == mux[s].rbuf \o line[Other(s)] \o mux[Other(s)].wbuf

IsByte(u, c) == u.cmd = "BYTE" /\ u.channel = c
IsOpen(u, c) == u.cmd = "OPEN" /\ u.channel = c

\* Every byte follows the header it belongs to, and the bytes that follow a
\* header are of one channel and in a row.  A packet may be cut off at the end
\* when it is not whole.
Framed(U, whole) ==
    /\ \A i \in DOMAIN U : U[i].cmd = "BYTE" =>
          \E h \in DOMAIN U : h < i /\ U[h].cmd = "DATA" /\ i <= h + U[h].count
    /\ \A h \in DOMAIN U : U[h].cmd # "BYTE" =>
          /\ U[h].cmd # "DATA" => U[h].count = 0
          /\ whole => h + U[h].count <= Len(U)
          /\ \A j \in DOMAIN U : h < j /\ j <= h + U[h].count =>
                /\ IsByte(U[j], U[h].channel)
                /\ U[j].count = U[h + 1].count + (j - (h + 1))

\* A buffer for the line is one packet.
Packet(d) ==
    /\ d # <<>>
    /\ d[1].cmd # "BYTE"
    /\ Len(d) = PacketSize(d)
    /\ d[1].cmd # "DATA" => d[1].count = 0
    /\ \A j \in DOMAIN d : j # 1 =>
          IsByte(d[j], d[1].channel) /\ d[j].count = d[2].count + (j - 2)

\* The places of the bytes of channel c in a sequence of units, and in a queue
\* of buffers.
In(U, c) == {n \in Nat : \E i \in DOMAIN U : IsByte(U[i], c) /\ U[i].count = n}
Queued(w, c) == {n \in Nat : \E k \in DOMAIN w : n \in In(w[k].data, c)}

Increasing(U, c) ==
    \A i, j \in DOMAIN U : i < j /\ IsByte(U[i], c) /\ IsByte(U[j], c) => U[i].count < U[j].count
IncreasingQueue(w, c) ==
    \A k, l \in DOMAIN w : k < l =>
        \A x \in In(w[k].data, c), y \in In(w[l].data, c) : x < y

\* Of the first t bytes of channel c, those after the first d are on their way,
\* in order and without gaps.  When writing to the line has been shut down only
\* the beginning of them arrives.
Flow(U, w, live, c, d, t) ==
    /\ d <= t
    /\ Increasing(U, c)
    /\ \A x \in In(U, c) : d < x /\ x <= t /\ \A y \in d + 1 .. x : y \in In(U, c)
    /\ live =>
          /\ IncreasingQueue(w, c)
          /\ \A x \in In(U, c), y \in Queued(w, c) : x < y
          /\ \A x \in Queued(w, c) : d < x /\ x <= t
          /\ \A x \in d + 1 .. t : x \in In(U, c) \/ x \in Queued(w, c)

\* The buffer b holds bytes of channel c, those that follow number n.
Row(b, c, n) == \A i \in DOMAIN b : b[i] = Header("BYTE", c, n + i)

\* The buffers in q hold the bytes of channel c after number m, up to number n;
\* pos[k] is the number that buffer k follows.
Places(pos, q, c, m, n) ==
    /\ pos[1] = m /\ pos[Len(q) + 1] = n
    /\ \A k \in 1 .. Len(q) + 1 : pos[k] \in Nat /\ pos[k] <= n
    /\ \A k \in 1 .. Len(q) : Row(q[k], c, pos[k]) /\ pos[k + 1] = pos[k] + Len(q[k])

\* Of the first d bytes of channel c the program got the first g, those in b are
\* being written to it, and the others are queued to it, all in this order.
Chain(b, q, c, g, d) == Row(b, c, g) /\ \E pos : Places(pos, q, c, g + Len(b), d)

Arrived(e, got, c, d) == Chain(e.wbuf, e.wqueue, c, Len(got), d)

\* The endpoint may still write to its program.
Live(e) == e.wr \/ e.st = "none"

\* Nothing that is on its way is missing or out of place.
ChannelInv(s) ==
    Running(s) => \A c \in Channel : Live(ep[s][c]) =>
        \E d \in Nat :
            /\ Arrived(ep[s][c], sock[s][c].got, c, d)
            /\ Flow(Stream(s), mux[Other(s)].wqueue, mux[Other(s)].wr, c, d,
                    sock[Other(s)][c].taken)

\* Buffers are packets, and packets follow each other.
FrameInv(s) ==
    /\ \A k \in DOMAIN mux[s].wqueue : Packet(mux[s].wqueue[k].data)
    /\ mux[s].freed => ~mux[s].wr
    /\ Running(s) =>
          /\ Framed(Stream(s), mux[Other(s)].wr)
          /\ mux[s].rbuf # <<>> => Len(mux[s].rbuf) <= PacketSize(mux[s].rbuf)

\* The command that opens channel c is in a stream, or in a queue.
InOpen(U, c) == \E i \in DOMAIN U : IsOpen(U[i], c)
QueueOpen(w, c) == \E k \in DOMAIN w : IsOpen(w[k].data[1], c)

\* Channel c is opened once, and before its first byte.
OpenedOnce(U, w, c) ==
    /\ \A i, j \in DOMAIN U : IsOpen(U[i], c) /\ IsOpen(U[j], c) => i = j
    /\ \A k, l \in DOMAIN w : IsOpen(w[k].data[1], c) /\ IsOpen(w[l].data[1], c) => k = l
    /\ ~(InOpen(U, c) /\ QueueOpen(w, c))

OpenedFirst(U, w, live, c) ==
    /\ \A j \in DOMAIN U : IsByte(U[j], c) => \E i \in DOMAIN U : i < j /\ IsOpen(U[i], c)
    /\ live => \A l \in DOMAIN w : In(w[l].data, c) # {} =>
          InOpen(U, c) \/ \E k \in DOMAIN w : k < l /\ IsOpen(w[k].data[1], c)

\* While the endpoint is new, the command to open it precedes its bytes, and is
\* on its way if it is due.
Opening(U, w, live, c, new, due) ==
    /\ InOpen(U, c) \/ QueueOpen(w, c) => new /\ due
    /\ OpenedOnce(U, w, c)
    /\ new => OpenedFirst(U, w, live, c)
    /\ new /\ due /\ live => InOpen(U, c) \/ QueueOpen(w, c)

OpenInv(s) ==
    Running(s) => \A c \in Channel :
        Opening(Stream(s), mux[Other(s)].wqueue, mux[Other(s)].wr, c,
                ep[s][c].st = "none", s = "host" /\ c < next_channel_id)

\* An endpoint is on the list while it has a descriptor.  The host opens its
\* endpoint when the guest did.
EndpointInv(s) == \A c \in Channel :
    /\ ep[s][c].st = "open" <=> ep[s][c].rd \/ ep[s][c].wr
    /\ ep[s][c].st = "none" =>
          /\ ep[s][c].wbuf = <<>> /\ ep[s][c].wqueue = <<>>
          /\ sock[s][c].got = <<>> /\ sock[s][c].taken = 0
    /\ s = "guest" => (ep[s][c].st = "none" <=> next_channel_id <= c)
    /\ ep[s][c].st # "none" => c < next_channel_id

ProxyInv ==
    /\ ProxyTypeOK
    /\ InOrder
    /\ CreditAccounted
    /\ \A s \in Side : FrameInv(s) /\ EndpointInv(s) /\ OpenInv(s) /\ ChannelInv(s)

-----------------------------------------------------------------------------
(* Sequences                                                                *)

\* U is p followed by V.
Splits(U, p, V) ==
    /\ Len(U) = Len(p) + Len(V)
    /\ \A i \in DOMAIN p : i \in DOMAIN U /\ U[i] = p[i]
    /\ \A j \in DOMAIN V : Len(p) + j \in DOMAIN U /\ U[Len(p) + j] = V[j]
    /\ \A i \in DOMAIN U : i \in DOMAIN p \/ (i > Len(p) /\ i - Len(p) \in DOMAIN V)

\* What every sequence has.
LEMMA SeqFacts ==
    ASSUME NEW S, NEW q \in Seq(S)
    PROVE  /\ Len(q) \in Nat /\ DOMAIN q = 1 .. Len(q)
           /\ \A i \in DOMAIN q : q[i] \in S
           /\ q = <<>> <=> Len(q) = 0
    BY LenProperties, ElementOfSeq, EmptySeq

\* A concatenation splits into its parts.
LEMMA ConcatSplits ==
    ASSUME NEW S, NEW p \in Seq(S), NEW V \in Seq(S)
    PROVE  p \o V \in Seq(S) /\ Splits(p \o V, p, V)
<1>1. PICK U : U = p \o V
    OBVIOUS
<1>2. /\ U \in Seq(S) /\ Len(U) = Len(p) + Len(V)
      /\ \A i \in 1 .. Len(p) + Len(V) : U[i] = IF i <= Len(p) THEN p[i] ELSE V[i - Len(p)]
    BY <1>1, ConcatProperties
<1>3. PICK m \in Nat, n \in Nat : m = Len(p) /\ n = Len(V)
    BY LenProperties
<1>4. DOMAIN p = 1 .. m /\ DOMAIN V = 1 .. n /\ DOMAIN U = 1 .. m + n /\ Len(U) = m + n
    BY <1>2, <1>3, LenProperties
<1>5. \A i \in 1 .. m : i \in 1 .. m + n /\ i <= m
    OBVIOUS
<1>6. \A j \in 1 .. n : m + j \in 1 .. m + n /\ ~(m + j <= m) /\ m + j - m = j
    OBVIOUS
<1>7. \A i \in 1 .. m + n : i \in 1 .. m \/ (i > m /\ i - m \in 1 .. n)
    OBVIOUS
<1>8. Splits(U, p, V)
    <2>1. \A i \in 1 .. m : U[i] = p[i]
        BY <1>2, <1>3, <1>5
    <2>2. \A j \in 1 .. n : U[m + j] = V[j]
        <3>1. TAKE j \in 1 .. n
        <3>2. m + j \in 1 .. m + n /\ ~(m + j <= m) /\ m + j - m = j
            BY <1>6, <3>1
        <3>3. PICK k : k = m + j
            OBVIOUS
        <3>4. U[k] = V[k - m]
            BY <1>2, <1>3, <3>2, <3>3
        <3> QED
            BY <3>2, <3>3, <3>4
    <2> QED
        BY <1>3, <1>4, <1>5, <1>6, <1>7, <2>1, <2>2 DEF Splits
<1> QED
    BY <1>1, <1>2, <1>8

\* A sequence splits into the first n elements and the others.
LEMMA CutSplits ==
    ASSUME NEW S, NEW U \in Seq(S), NEW n \in 0 .. Len(U)
    PROVE  /\ SubSeq(U, 1, n) \in Seq(S) /\ Len(SubSeq(U, 1, n)) = n
           /\ SubSeq(U, n + 1, Len(U)) \in Seq(S)
           /\ Splits(U, SubSeq(U, 1, n), SubSeq(U, n + 1, Len(U)))
           /\ SubSeq(U, 1, n) \o SubSeq(U, n + 1, Len(U)) = U
<1>1. PICK l \in Nat : l = Len(U) /\ n \in Nat /\ n <= l
    BY LenProperties
<1>2. PICK p, V : p = SubSeq(U, 1, n) /\ V = SubSeq(U, n + 1, l)
    OBVIOUS
<1>3. DOMAIN U = 1 .. l /\ \A i \in 1 .. l : U[i] \in S
    BY <1>1, SeqFacts
<1>4. \A i \in 1 .. n : i \in 1 .. l
    BY <1>1
<1>5. \A i \in n + 1 .. l : i \in 1 .. l
    BY <1>1
<1>6. p \in Seq(S) /\ Len(p) = n /\ \A i \in 1 .. n : p[i] = U[i]
    <2>1. \A i \in 1 .. n : U[i] \in S
        BY <1>3, <1>4
    <2>2. Len(p) = n /\ \A i \in 1 .. n : p[i] = U[i]
        BY <1>1, <1>2, <1>4, SubSeqProperties
    <2> QED
        BY <1>1, <1>2, <1>3, <1>4, <2>2, SubSeqProperties
<1>7. V \in Seq(S) /\ Len(V) = l - n /\ \A i \in 1 .. l - n : V[i] = U[n + i]
    BY <1>1, <1>2, <1>3, <1>5, SubSeqProperties
<1>8. PICK m \in Nat : m = l - n /\ l = n + m
    <2>1. l - n \in Nat /\ l = n + (l - n)
        BY <1>1
    <2> QED
        BY <2>1
<1>9. DOMAIN p = 1 .. n /\ DOMAIN V = 1 .. m
    BY <1>6, <1>7, <1>8, SeqFacts
<1>10. Splits(U, p, V)
    <2>1. \A j \in 1 .. m : n + j \in 1 .. l
        BY <1>1, <1>8
    <2>2. \A i \in 1 .. l : i \in 1 .. n \/ (i > n /\ i - n \in 1 .. m)
        BY <1>1, <1>8
    <2> QED
        BY <1>1, <1>3, <1>4, <1>6, <1>7, <1>8, <1>9, <2>1, <2>2 DEF Splits
<1>11. p \o V = U
    <2>1. PICK W : W = p \o V
        OBVIOUS
    <2>2. W \in Seq(S) /\ Splits(W, p, V)
        BY <1>6, <1>7, <2>1, ConcatSplits
    <2>3. Len(W) = l /\ DOMAIN W = 1 .. l
        BY <1>1, <1>6, <1>7, <1>8, <2>2, SeqFacts DEF Splits
    <2>4. \A i \in 1 .. l : W[i] = U[i]
        <3>1. TAKE i \in 1 .. l
        <3>2. CASE i \in 1 .. n
            BY <1>6, <1>9, <2>2, <3>2 DEF Splits
        <3>3. CASE i \notin 1 .. n
            <4>1. PICK j \in 1 .. m : i = n + j
                BY <1>1, <1>8, <3>3
            <4> QED
                BY <1>6, <1>7, <1>8, <1>9, <2>2, <4>1 DEF Splits
        <3> QED
            BY <3>2, <3>3
    <2> QED
        BY <1>1, <1>3, <2>1, <2>2, <2>3, <2>4, SeqEqual
<1> QED
    BY <1>1, <1>2, <1>6, <1>7, <1>10, <1>11

\* A queue with a buffer at its end.
LEMMA AppendFacts ==
    ASSUME NEW S, NEW q \in Seq(S), NEW e \in S
    PROVE  /\ Append(q, e) \in Seq(S) /\ Len(Append(q, e)) = Len(q) + 1
           /\ DOMAIN Append(q, e) = 1 .. Len(q) + 1
           /\ \A i \in DOMAIN q : i \in DOMAIN Append(q, e) /\ Append(q, e)[i] = q[i]
           /\ Append(q, e)[Len(q) + 1] = e
           /\ \A i \in DOMAIN Append(q, e) : i \in DOMAIN q \/ i = Len(q) + 1
<1>1. PICK r : r = Append(q, e)
    OBVIOUS
<1>2. /\ r \in Seq(S) /\ Len(r) = Len(q) + 1 /\ r[Len(q) + 1] = e
      /\ \A i \in 1 .. Len(q) : r[i] = q[i]
    BY <1>1, AppendProperties
<1>3. PICK n \in Nat : n = Len(q)
    BY LenProperties
<1>4. DOMAIN r = 1 .. n + 1 /\ DOMAIN q = 1 .. n
    BY <1>2, <1>3, SeqFacts
<1>5. \A i \in 1 .. n + 1 : i \in 1 .. n \/ i = n + 1
    OBVIOUS
<1>6. \A i \in 1 .. n : i \in 1 .. n + 1
    OBVIOUS
<1> QED
    BY <1>1, <1>2, <1>3, <1>4, <1>5, <1>6

\* A queue without its first buffer.
LEMMA TailFacts ==
    ASSUME NEW S, NEW q \in Seq(S), q # <<>>
    PROVE  /\ Head(q) \in S /\ Head(q) = q[1] /\ 1 \in DOMAIN q
           /\ Tail(q) \in Seq(S) /\ Len(q) = Len(Tail(q)) + 1
           /\ \A i \in DOMAIN Tail(q) : i + 1 \in DOMAIN q /\ Tail(q)[i] = q[i + 1]
           /\ \A i \in DOMAIN q : i = 1 \/ (i - 1 \in DOMAIN Tail(q) /\ q[i] = Tail(q)[i - 1])
<1>1. PICK n \in Nat : n + 1 = Len(q) /\ DOMAIN q = 1 .. n + 1
    BY SeqFacts
<1>2. PICK t \in Seq(S) : t = Tail(q)
    BY HeadTailProperties
<1>3. Len(t) = n /\ DOMAIN t = 1 .. n /\ \A i \in 1 .. n : t[i] = q[i + 1]
    BY <1>1, <1>2, HeadTailProperties, SeqFacts
<1>4. Head(q) \in S /\ Head(q) = q[1]
    BY HeadTailProperties
<1>5. \A i \in 1 .. n : i + 1 \in 1 .. n + 1
    OBVIOUS
<1>6. \A i \in 1 .. n + 1 : i = 1 \/ (i - 1 \in 1 .. n /\ i = (i - 1) + 1)
    OBVIOUS
<1>7. 1 \in 1 .. n + 1
    OBVIOUS
<1> QED
    BY <1>1, <1>2, <1>3, <1>4, <1>5, <1>6, <1>7
-----------------------------------------------------------------------------
(* Packets                                                                  *)

\* The parts of a unit.
LEMMA UnitFacts ==
    /\ MaxBytes \in Nat
    /\ \A u \in Unit : /\ u.cmd \in {"OPEN", "CLOSE", "DATA", "BYTE"}
                       /\ u.channel \in Channel /\ u.count \in Nat /\ u.count \in 0 .. MaxBytes
                       /\ u.cmd = "BYTE" => u \in Byte
    /\ \A u \in Byte : u \in Unit /\ u.cmd = "BYTE" /\ u.count \in 1 .. MaxBytes
                       /\ u.channel \in Channel /\ u = Header("BYTE", u.channel, u.count)
<1>1. MaxBytes \in Nat
    BY ProxyAssumption DEF MaxBytes
<1>2. \A n \in 0 .. MaxBytes : n \in Nat
    BY <1>1
<1>3. \A n \in 1 .. MaxBytes : n \in Nat /\ n \in 0 .. MaxBytes
    BY <1>1
<1> QED
    BY <1>1, <1>2, <1>3 DEF Unit, Byte, Header

\* The units of a stream.
LEMMA StreamUnits ==
    ASSUME NEW U \in Seq(Unit)
    PROVE  /\ Len(U) \in Nat /\ DOMAIN U = 1 .. Len(U)
           /\ U = <<>> <=> Len(U) = 0
           /\ \A i \in DOMAIN U : /\ U[i] \in Unit /\ U[i].channel \in Channel /\ U[i].count \in Nat
                                  /\ U[i].cmd \in {"OPEN", "CLOSE", "DATA", "BYTE"}
    BY SeqFacts, UnitFacts

\* A packet is a header and the bytes it announces.
LEMMA PacketFacts ==
    ASSUME NEW d \in Seq(Unit), Packet(d)
    PROVE  /\ 1 \in DOMAIN d /\ DOMAIN d = 1 .. Len(d) /\ Len(d) \in Nat /\ Len(d) >= 1
           /\ Len(d) = 1 + d[1].count
           /\ \A j \in DOMAIN d : d[j].cmd # "BYTE" => j = 1
           /\ \A j \in DOMAIN d : j # 1 => d[1].cmd = "DATA"
<1>1. PICK n \in Nat : n = Len(d) /\ n >= 1 /\ DOMAIN d = 1 .. n
    BY StreamUnits DEF Packet
<1>2. 1 \in 1 .. n
    BY <1>1
<1>3. Head(d) = d[1]
    OBVIOUS
<1>4. PICK k \in Nat : k = d[1].count /\ n = 1 + k
    BY <1>1, <1>2, <1>3, StreamUnits DEF Packet, PacketSize
<1>5. \A j \in 1 .. n : j # 1 => k # 0
    BY <1>4
<1> QED
    BY <1>1, <1>2, <1>4, <1>5 DEF Packet, IsByte

\* A packet may follow whole packets.
LEMMA FramedAppend ==
    ASSUME NEW U \in Seq(Unit), NEW d \in Seq(Unit), NEW W \in Seq(Unit),
           Splits(W, U, d), Framed(U, TRUE), Packet(d)
    PROVE  Framed(W, TRUE)
<1>1. PICK m \in Nat, n \in Nat : /\ m = Len(U) /\ n = Len(d) /\ n >= 1
                                  /\ DOMAIN U = 1 .. m /\ DOMAIN d = 1 .. n
                                  /\ Len(W) = m + n /\ DOMAIN W = 1 .. m + n
    BY StreamUnits, PacketFacts DEF Splits
<1>2. \A i \in 1 .. m : i \in 1 .. m + n /\ W[i] = U[i]
    BY <1>1 DEF Splits
<1>3. \A j \in 1 .. n : m + j \in 1 .. m + n /\ W[m + j] = d[j]
    BY <1>1 DEF Splits
<1>4. 1 \in 1 .. n /\ n = 1 + d[1].count /\ d[1].count \in Nat
    BY <1>1, PacketFacts, StreamUnits
<1>9. (m + 1) + d[1].count = m + n
    BY <1>1, <1>4, SMTT(40)
<1>5. ASSUME NEW i \in DOMAIN W, W[i].cmd = "BYTE"
      PROVE  \E h \in DOMAIN W : h < i /\ W[h].cmd = "DATA" /\ i <= h + W[h].count
    <2>1. CASE i \in 1 .. m
        <3>1. PICK h \in 1 .. m : h < i /\ U[h].cmd = "DATA" /\ i <= h + U[h].count
            BY <1>1, <1>2, <1>5, <2>1 DEF Framed
        <3> QED
            BY <1>1, <1>2, <3>1
    <2>2. CASE i \notin 1 .. m
        <3>1. PICK j \in 1 .. n : i = m + j
            <4>1. i \in 1 .. m + n /\ i > m
                BY <1>1, <2>2
            <4>2. i - m \in 1 .. n /\ i = m + (i - m)
                BY <4>1
            <4> QED
                BY <4>2
        <3>2. d[j].cmd = "BYTE"
            BY <1>3, <1>5, <3>1
        <3>3. j # 1 /\ d[1].cmd = "DATA"
            BY <1>1, <3>2, PacketFacts DEF Packet
        <3>4. W[m + 1] = d[1] /\ m + 1 \in DOMAIN W
            BY <1>1, <1>3, <1>4
        <3>5. m + 1 < i /\ i <= m + 1 + d[1].count
            BY <1>1, <1>4, <3>1, <3>3, SMTT(40)
        <3> QED
            BY <3>3, <3>4, <3>5
    <2> QED
        BY <2>1, <2>2
<1>6. ASSUME NEW h \in DOMAIN W, W[h].cmd # "BYTE"
      PROVE  /\ W[h].cmd # "DATA" => W[h].count = 0
             /\ h + W[h].count <= Len(W)
             /\ \A j \in DOMAIN W : h < j /\ j <= h + W[h].count =>
                   IsByte(W[j], W[h].channel) /\ W[j].count = W[h + 1].count + (j - (h + 1))
    <2>1. CASE h \in 1 .. m
        <3>1. /\ U[h].cmd # "BYTE" /\ U[h].count \in Nat
              /\ U[h].cmd # "DATA" => U[h].count = 0
              /\ h + U[h].count <= m
              /\ \A j \in 1 .. m : h < j /\ j <= h + U[h].count =>
                   IsByte(U[j], U[h].channel) /\ U[j].count = U[h + 1].count + (j - (h + 1))
            BY <1>1, <1>2, <1>6, <2>1, StreamUnits DEF Framed
        <3>2. W[h] = U[h] /\ h + U[h].count <= m + n
            BY <1>2, <2>1, <3>1
        <3>3. ASSUME NEW j \in DOMAIN W, h < j, j <= h + U[h].count
              PROVE  IsByte(W[j], U[h].channel) /\ W[j].count = W[h + 1].count + (j - (h + 1))
            <4>1. j \in 1 .. m /\ h + 1 \in 1 .. m
                BY <1>1, <2>1, <3>1, <3>3
            <4> QED
                BY <1>2, <3>1, <3>3, <4>1
        <3> QED
            BY <1>1, <3>1, <3>2, <3>3
    <2>2. CASE h \notin 1 .. m
        <3>1. PICK k \in 1 .. n : h = m + k
            <4>1. h \in 1 .. m + n /\ h > m
                BY <1>1, <2>2
            <4>2. h - m \in 1 .. n /\ h = m + (h - m)
                BY <4>1
            <4> QED
                BY <4>2
        <3>2. k = 1 /\ W[h] = d[1] /\ h = m + 1
            BY <1>1, <1>3, <1>6, <3>1, PacketFacts
        <3>3. W[h].cmd # "DATA" => W[h].count = 0
            BY <3>2 DEF Packet
        <3>4. h + d[1].count = m + n
            BY <1>9, <3>2
        <3>5. ASSUME NEW j \in DOMAIN W, h < j
              PROVE  IsByte(W[j], d[1].channel) /\ W[j].count = W[h + 1].count + (j - (h + 1))
            <4>1. PICK i \in 1 .. n : j = m + i /\ i # 1 /\ 2 \in 1 .. n
                <5>1. j \in 1 .. m + n /\ m + 1 < j
                    BY <1>1, <3>2, <3>5
                <5>2. j - m \in 1 .. n /\ j = m + (j - m) /\ j - m # 1 /\ 2 \in 1 .. n
                    BY <5>1
                <5> QED
                    BY <5>2
            <4>2. W[j] = d[i] /\ W[m + 2] = d[2]
                BY <1>3, <4>1
            <4>3. IsByte(d[i], d[1].channel) /\ d[i].count = d[2].count + (i - 2)
                BY <1>1, <4>1 DEF Packet
            <4>4. i - 2 = j - (h + 1) /\ h + 1 = m + 2
                BY <3>2, <4>1
            <4> QED
                BY <4>2, <4>3, <4>4
        <3> QED
            BY <1>1, <3>2, <3>3, <3>4, <3>5
    <2> QED
        BY <2>1, <2>2
<1> QED
    BY <1>5, <1>6 DEF Framed

\* The beginning of a stream of packets is one, if the last may be cut off.
LEMMA FramedPrefix ==
    ASSUME NEW U \in Seq(Unit), NEW p \in Seq(Unit), NEW V \in Seq(Unit), NEW whole,
           Splits(U, p, V), Framed(U, whole)
    PROVE  Framed(p, FALSE)
<1>1. PICK m \in Nat, n \in Nat : /\ m = Len(p) /\ n = Len(V) /\ DOMAIN p = 1 .. m
                                  /\ Len(U) = m + n /\ DOMAIN U = 1 .. m + n
    BY StreamUnits DEF Splits
<1>2. \A i \in 1 .. m : i \in 1 .. m + n /\ U[i] = p[i]
    BY <1>1 DEF Splits
<1>3. ASSUME NEW i \in DOMAIN p, p[i].cmd = "BYTE"
      PROVE  \E h \in DOMAIN p : h < i /\ p[h].cmd = "DATA" /\ i <= h + p[h].count
    <2>1. PICK h \in 1 .. m + n : h < i /\ U[h].cmd = "DATA" /\ i <= h + U[h].count
        BY <1>1, <1>2, <1>3 DEF Framed
    <2>2. h \in 1 .. m
        BY <1>1, <1>3, <2>1
    <2> QED
        BY <1>1, <1>2, <2>1, <2>2
<1>4. ASSUME NEW h \in DOMAIN p, p[h].cmd # "BYTE"
      PROVE  /\ p[h].cmd # "DATA" => p[h].count = 0
             /\ \A j \in DOMAIN p : h < j /\ j <= h + p[h].count =>
                   IsByte(p[j], p[h].channel) /\ p[j].count = p[h + 1].count + (j - (h + 1))
    <2>1. /\ U[h].cmd # "DATA" => U[h].count = 0
          /\ \A j \in 1 .. m + n : h < j /\ j <= h + U[h].count =>
                   IsByte(U[j], U[h].channel) /\ U[j].count = U[h + 1].count + (j - (h + 1))
        BY <1>1, <1>2, <1>4 DEF Framed
    <2>2. \A j \in 1 .. m : h < j => h + 1 \in 1 .. m
        BY <1>1, <1>4
    <2> QED
        BY <1>1, <1>2, <1>4, <2>1, <2>2
<1> QED
    BY <1>3, <1>4 DEF Framed

\* What follows a packet in a stream of packets is one.
LEMMA FramedRest ==
    ASSUME NEW U \in Seq(Unit), NEW p \in Seq(Unit), NEW V \in Seq(Unit), NEW whole \in BOOLEAN,
           Splits(U, p, V), Framed(U, whole), Packet(p)
    PROVE  Framed(V, whole)
<1>1. PICK m \in Nat, n \in Nat : /\ m = Len(p) /\ n = Len(V) /\ DOMAIN p = 1 .. m
                                  /\ DOMAIN V = 1 .. n
                                  /\ Len(U) = m + n /\ DOMAIN U = 1 .. m + n
    BY StreamUnits DEF Splits
<1>2. \A j \in 1 .. n : m + j \in 1 .. m + n /\ U[m + j] = V[j]
    BY <1>1 DEF Splits
<1>3. \A i \in 1 .. m : U[i] = p[i]
    BY <1>1 DEF Splits
<1>4. m = 1 + p[1].count /\ p[1].count \in Nat
    BY <1>1, PacketFacts, StreamUnits
<1>5. ASSUME NEW i \in DOMAIN V, V[i].cmd = "BYTE"
      PROVE  \E h \in DOMAIN V : h < i /\ V[h].cmd = "DATA" /\ i <= h + V[h].count
    <2>1. PICK h \in 1 .. m + n : h < m + i /\ U[h].cmd = "DATA" /\ m + i <= h + U[h].count
        BY <1>1, <1>2, <1>5 DEF Framed
    <2>2. h \notin 1 .. m
        <3>1. ASSUME h \in 1 .. m PROVE FALSE
            <4>1. p[h].cmd = "DATA"
                BY <1>3, <2>1, <3>1
            <4>2. h = 1
                BY <1>1, <3>1, <4>1, PacketFacts
            <4>3. m + i <= 1 + p[1].count
                BY <1>3, <2>1, <3>1, <4>2
            <4> QED
                BY <1>1, <1>4, <1>5, <4>3
        <3> QED
            BY <3>1
    <2>3. PICK k \in 1 .. n : h = m + k
        <3>1. h - m \in 1 .. n /\ h = m + (h - m)
            BY <2>1, <2>2
        <3> QED
            BY <3>1
    <2>4. V[k].count \in Nat /\ U[h] = V[k]
        BY <1>1, <1>2, <2>3, StreamUnits
    <2>5. k < i /\ i <= k + V[k].count
        BY <1>1, <1>5, <2>1, <2>3, <2>4
    <2> QED
        BY <1>1, <2>1, <2>4, <2>5
<1>6. ASSUME NEW h \in DOMAIN V, V[h].cmd # "BYTE"
      PROVE  /\ V[h].cmd # "DATA" => V[h].count = 0
             /\ whole => h + V[h].count <= Len(V)
             /\ \A j \in DOMAIN V : h < j /\ j <= h + V[h].count =>
                   IsByte(V[j], V[h].channel) /\ V[j].count = V[h + 1].count + (j - (h + 1))
    <2>1. PICK g \in 1 .. m + n : g = m + h /\ U[g] = V[h] /\ h \in Nat
        BY <1>1, <1>2, <1>6
    <2>2. PICK k \in Nat : k = V[h].count
        BY <1>6, StreamUnits
    <2>a. U[g].cmd # "BYTE" /\ U[g].count = k /\ U[g].channel = V[h].channel
        BY <1>6, <2>1, <2>2
    <2>3. /\ V[h].cmd # "DATA" => k = 0
          /\ whole => g + k <= m + n
          /\ \A j \in 1 .. m + n : g < j /\ j <= g + k =>
                   IsByte(U[j], V[h].channel) /\ U[j].count = U[g + 1].count + (j - (g + 1))
        BY <1>1, <2>1, <2>a DEF Framed
    <2>4. whole => h + k <= n
        BY <2>1, <2>3
    <2>5. ASSUME NEW j \in 1 .. n, h < j, j <= h + k
          PROVE  IsByte(V[j], V[h].channel) /\ V[j].count = V[h + 1].count + (j - (h + 1))
        <3>1. h + 1 \in 1 .. n
            BY <1>1, <2>1, <2>5
        <3>2. PICK i \in 1 .. m + n : i = m + j /\ U[i] = V[j]
            BY <1>2
        <3>3. g + 1 = m + (h + 1)
            BY <2>1
        <3>4. U[g + 1] = V[h + 1]
            BY <1>2, <3>1, <3>3
        <3>5. g < i /\ i <= g + k /\ i - (g + 1) = j - (h + 1)
            <4>1. j \in Nat /\ h \in Nat /\ g = m + h /\ i = m + j
                BY <2>1, <3>2
            <4> QED
                BY <2>5, <4>1, SMTT(40)
        <3> QED
            BY <2>3, <3>2, <3>4, <3>5
    <2> QED
        BY <1>1, <2>2, <2>3, <2>4, <2>5
<1> QED
    BY <1>5, <1>6 DEF Framed

\* A stream of packets starts with a header, and what the header announces is a
\* packet.
LEMMA FirstPacket ==
    ASSUME NEW U \in Seq(Unit), NEW whole, U # <<>>, Framed(U, whole)
    PROVE  /\ U[1].cmd # "BYTE"
           /\ \A p \in Seq(Unit), V \in Seq(Unit) :
                 Splits(U, p, V) /\ Len(p) = 1 + U[1].count => Packet(p)
<1>1. PICK l \in Nat : l = Len(U) /\ DOMAIN U = 1 .. l /\ 1 \in 1 .. l
    BY StreamUnits
<1>2. U[1].cmd # "BYTE"
    <2>1. \A h \in 1 .. l : ~(h < 1)
        OBVIOUS
    <2> QED
        BY <1>1, <2>1 DEF Framed
<1>3. ASSUME NEW p \in Seq(Unit), NEW V \in Seq(Unit), Splits(U, p, V), Len(p) = 1 + U[1].count
      PROVE  Packet(p)
    <2>1. PICK m \in Nat : m = Len(p) /\ DOMAIN p = 1 .. m /\ m >= 1 /\ 1 \in 1 .. m
        BY <1>1, <1>3, StreamUnits
    <2>2. \A i \in 1 .. m : i \in 1 .. l /\ U[i] = p[i]
        BY <1>1, <1>3, <2>1 DEF Splits
    <2>3. p[1] = U[1] /\ Head(p) = p[1]
        BY <2>1, <2>2
    <2>4. p # <<>> /\ Len(p) = PacketSize(p)
        BY <1>3, <2>1, <2>3, StreamUnits DEF PacketSize
    <2>5. p[1].cmd # "DATA" => p[1].count = 0
        BY <1>1, <1>2, <2>3 DEF Framed
    <2>6. ASSUME NEW j \in 1 .. m, j # 1
          PROVE  IsByte(p[j], p[1].channel) /\ p[j].count = p[2].count + (j - 2)
        <3>1. 1 < j /\ j <= 1 + U[1].count /\ 2 \in 1 .. m /\ 1 + 1 = 2
            BY <1>3, <2>1, <2>6
        <3>2. IsByte(U[j], U[1].channel) /\ U[j].count = U[2].count + (j - 2)
            BY <1>1, <1>2, <2>2, <2>6, <3>1, ZenonT(60) DEF Framed
        <3> QED
            BY <2>2, <2>3, <2>6, <3>1, <3>2
    <2> QED
        BY <1>2, <2>1, <2>3, <2>4, <2>5, <2>6 DEF Packet
<1> QED
    BY <1>2, <1>3
-----------------------------------------------------------------------------
(* The bytes of a channel on their way                                      *)

\* The bytes of a stream are those of its parts.
LEMMA InSplits ==
    ASSUME NEW U \in Seq(Unit), NEW p \in Seq(Unit), NEW V \in Seq(Unit), NEW c, Splits(U, p, V)
    PROVE  \A x : x \in In(U, c) <=> x \in In(p, c) \/ x \in In(V, c)
<1>1. \A i \in DOMAIN p : i \in DOMAIN U /\ U[i] = p[i]
    BY DEF Splits
<1>2. \A j \in DOMAIN V : Len(p) + j \in DOMAIN U /\ U[Len(p) + j] = V[j]
    BY DEF Splits
<1>3. \A i \in DOMAIN U : \/ i \in DOMAIN p /\ U[i] = p[i]
                          \/ \E j \in DOMAIN V : U[i] = V[j]
    <2>1. TAKE i \in DOMAIN U
    <2>2. CASE i \in DOMAIN p
        BY <1>1, <2>2
    <2>3. CASE i \notin DOMAIN p
        <3>1. i - Len(p) \in DOMAIN V
            BY <2>3 DEF Splits
        <3>2. i = Len(p) + (i - Len(p))
            BY StreamUnits DEF Splits
        <3>3. PICK j \in DOMAIN V : i = Len(p) + j
            BY <3>1, <3>2
        <3> QED
            BY <1>2, <3>3
    <2> QED
        BY <2>2, <2>3
<1> QED
    BY <1>1, <1>2, <1>3 DEF In

\* The packet d has n bytes, and the first is number f.
Holds(d, f, n) == Len(d) = 1 + n /\ (n > 0 => d[2].count = f)

\* The bytes of a packet are in a row.
LEMMA InPacket ==
    ASSUME NEW d \in Seq(Unit), Packet(d), NEW c, NEW f \in Nat, NEW n \in Nat, Holds(d, f, n)
    PROVE  /\ d[1].channel # c => \A x : x \notin In(d, c)
           /\ d[1].channel = c => \A x : x \in In(d, c) <=> x \in f .. f + n - 1
           /\ \A j \in DOMAIN d : d[j].cmd = "BYTE" <=> j # 1
           /\ \A j \in DOMAIN d : j # 1 => d[j].channel = d[1].channel /\ d[j].count = f + (j - 2)
<1>1. DOMAIN d = 1 .. n + 1
    BY StreamUnits DEF Holds
<1>2. \A j \in 1 .. n + 1 : d[j].cmd = "BYTE" <=> j # 1
    BY <1>1 DEF Packet, IsByte
<1>3. \A j \in 1 .. n + 1 : j # 1 => n > 0
    OBVIOUS
<1>4. \A j \in 1 .. n + 1 : j # 1 => d[j].channel = d[1].channel /\ d[j].count = f + (j - 2)
    BY <1>1, <1>3 DEF Packet, IsByte, Holds
<1>5. d[1].channel # c => \A x : x \notin In(d, c)
    BY <1>1, <1>2, <1>4 DEF In, IsByte
<1>6. ASSUME d[1].channel = c
      PROVE  \A x : x \in In(d, c) <=> x \in f .. f + n - 1
    <2>1. ASSUME NEW x \in In(d, c) PROVE x \in f .. f + n - 1
        <3>1. PICK j \in 1 .. n + 1 : j # 1 /\ d[j].count = x
            BY <1>1, <1>2, <2>1 DEF In, IsByte
        <3>2. x = f + (j - 2)
            BY <1>4, <3>1
        <3> QED
            BY <3>1, <3>2
    <2>2. ASSUME NEW x \in f .. f + n - 1 PROVE x \in In(d, c)
        <3>1. PICK j \in 1 .. n + 1 : j # 1 /\ f + (j - 2) = x
            <4>1. x - f + 2 \in 1 .. n + 1 /\ x - f + 2 # 1 /\ f + ((x - f + 2) - 2) = x
                BY <2>2
            <4> QED
                BY <4>1
        <3>2. d[j].count = x /\ IsByte(d[j], c)
            BY <1>2, <1>4, <1>6, <3>1 DEF IsByte
        <3>3. x \in Nat
            BY <2>2
        <3> QED
            BY <1>1, <3>1, <3>2, <3>3 DEF In
    <2> QED
        BY <2>1, <2>2
<1> QED
    BY <1>1, <1>2, <1>4, <1>5, <1>6

\* A buffer has a stream of units.
LEMMA MbufData ==
    ASSUME NEW w \in Seq(Mbuf)
    PROVE  \A k \in DOMAIN w : w[k].data \in Seq(Unit)
<1>1. \A m \in Mbuf : m.data \in Seq(Unit)
    BY DEF Mbuf
<1> QED
    BY <1>1, SeqFacts

\* A program sends the bytes after the first t.
LEMMA FlowEnqueue ==
    ASSUME NEW U \in Seq(Unit), NEW w \in Seq(Mbuf), NEW m \in Mbuf, NEW live \in BOOLEAN,
           NEW c, NEW d \in Nat, NEW t \in Nat, NEW t2 \in Nat,
           Flow(U, w, live, c, d, t), t <= t2,
           \A x : x \in In(m.data, c) <=> x \in t + 1 .. t2
    PROVE  Flow(U, Append(w, m), live, c, d, t2)
<1>1. PICK v : v = Append(w, m)
    OBVIOUS
<1>2. /\ \A k \in DOMAIN w : k \in DOMAIN v /\ v[k] = w[k]
      /\ v[Len(w) + 1] = m /\ Len(w) + 1 \in DOMAIN v
      /\ \A k \in DOMAIN v : k \in DOMAIN w \/ k = Len(w) + 1
    BY <1>1, AppendFacts, SeqFacts
<1>3. PICK l \in Nat : l = Len(w) /\ DOMAIN w = 1 .. l
    BY SeqFacts
<1>4. \A x : x \in Queued(v, c) <=> x \in Queued(w, c) \/ x \in In(m.data, c)
    <2>1. \A x : x \in In(m.data, c) => x \in Nat
        BY DEF In
    <2> QED
        BY <1>2, <2>1 DEF Queued
<1>5. \A x : x \in In(U, c) => x \in Nat /\ d < x /\ x <= t /\ \A y \in d + 1 .. x : y \in In(U, c)
    BY DEF Flow, In
<1>6. d <= t2 /\ Increasing(U, c)
    BY DEF Flow
<1>7. \A x \in In(U, c) : d < x /\ x <= t2 /\ \A y \in d + 1 .. x : y \in In(U, c)
    BY <1>5
<1>8. ASSUME live
      PROVE  /\ IncreasingQueue(v, c)
             /\ \A x \in In(U, c), y \in Queued(v, c) : x < y
             /\ \A x \in Queued(v, c) : d < x /\ x <= t2
             /\ \A x \in d + 1 .. t2 : x \in In(U, c) \/ x \in Queued(v, c)
    <2>1. /\ IncreasingQueue(w, c)
          /\ \A x \in In(U, c), y \in Queued(w, c) : x < y
          /\ \A x \in Queued(w, c) : x \in Nat /\ d < x /\ x <= t
          /\ \A x \in d + 1 .. t : x \in In(U, c) \/ x \in Queued(w, c)
        BY <1>8 DEF Flow, Queued
    <2>2. \A x \in In(m.data, c) : x \in Nat /\ t < x /\ x <= t2
        OBVIOUS
    <2>3. d <= t
        BY DEF Flow
    <2>4. ASSUME NEW k \in DOMAIN v, NEW j \in DOMAIN v, k < j,
                 NEW x \in In(v[k].data, c), NEW y \in In(v[j].data, c)
          PROVE  x < y
        <3>1. k \in DOMAIN w
            BY <1>2, <1>3, <2>4
        <3>2. v[k] = w[k]
            BY <1>2, <3>1
        <3>3. x \in Queued(w, c)
            BY <2>4, <3>1, <3>2 DEF Queued, In
        <3>4. CASE j \in DOMAIN w
            BY <1>2, <2>1, <2>4, <3>1, <3>2, <3>4 DEF IncreasingQueue
        <3>5. CASE j = Len(w) + 1
            <4>1. y \in In(m.data, c)
                BY <1>2, <2>4, <3>5
            <4> QED
                BY <2>1, <2>2, <3>3, <4>1
        <3> QED
            BY <1>2, <3>4, <3>5
    <2>5. IncreasingQueue(v, c)
        BY <2>4 DEF IncreasingQueue
    <2>6. \A x \in In(U, c), y \in Queued(v, c) : x < y
        BY <1>4, <1>5, <2>1, <2>2
    <2>7. \A x \in Queued(v, c) : d < x /\ x <= t2
        BY <1>4, <2>1, <2>2, <2>3
    <2>8. \A x \in d + 1 .. t2 : x \in In(U, c) \/ x \in Queued(v, c)
        <3>1. \A x \in d + 1 .. t2 : x \in d + 1 .. t \/ x \in t + 1 .. t2
            BY <2>3
        <3> QED
            BY <1>4, <2>1, <3>1
    <2> QED
        BY <2>5, <2>6, <2>7, <2>8
<1> QED
    BY <1>1, <1>6, <1>7, <1>8 DEF Flow

\* The first buffer of the queue is written to the line.
LEMMA FlowToLine ==
    ASSUME NEW U \in Seq(Unit), NEW W \in Seq(Unit), NEW w \in Seq(Mbuf), w # <<>>,
           NEW c, NEW d \in Nat, NEW t \in Nat,
           Packet(Head(w).data), Splits(W, U, Head(w).data), Flow(U, w, TRUE, c, d, t)
    PROVE  Flow(W, Tail(w), TRUE, c, d, t)
<1>1. PICK v \in Seq(Mbuf), p \in Seq(Unit) : v = Tail(w) /\ p = Head(w).data
    <2>1. Head(w).data \in Seq(Unit)
        BY TailFacts, MbufData
    <2> QED
        BY <2>1, TailFacts
<1>2. /\ 1 \in DOMAIN w /\ w[1].data = p
      /\ \A k \in DOMAIN v : k + 1 \in DOMAIN w /\ v[k] = w[k + 1]
      /\ \A k \in DOMAIN w : k = 1 \/ (k - 1 \in DOMAIN v /\ w[k] = v[k - 1])
    BY <1>1, TailFacts
<1>3. /\ Packet(p) /\ Splits(W, U, p) /\ d <= t /\ Increasing(U, c)
      /\ \A x \in In(U, c) : d < x /\ x <= t /\ \A y \in d + 1 .. x : y \in In(U, c)
      /\ IncreasingQueue(w, c)
      /\ \A x \in In(U, c), y \in Queued(w, c) : x < y
      /\ \A x \in Queued(w, c) : d < x /\ x <= t
      /\ \A x \in d + 1 .. t : x \in In(U, c) \/ x \in Queued(w, c)
    BY <1>1 DEF Flow
<1>4. \A x : x \in In(W, c) <=> x \in In(U, c) \/ x \in In(p, c)
    BY <1>3, InSplits
<1>5. \A x : x \in Queued(w, c) <=> x \in In(p, c) \/ x \in Queued(v, c)
    <2>1. \A x : x \in Queued(v, c) => x \in Queued(w, c)
        BY <1>2 DEF Queued
    <2>2. \A x : x \in In(p, c) => x \in Queued(w, c)
        BY <1>2 DEF Queued, In
    <2>3. \A x : x \in Queued(w, c) => x \in In(p, c) \/ x \in Queued(v, c)
        BY <1>2 DEF Queued
    <2> QED
        BY <2>1, <2>2, <2>3
<1>6. \A x \in In(p, c), y \in Queued(v, c) : x < y
    <2>1. TAKE x \in In(p, c), y \in Queued(v, c)
    <2>2. PICK k \in DOMAIN v : y \in In(v[k].data, c)
        BY <2>1 DEF Queued
    <2>3. k \in Nat /\ k >= 1 /\ k + 1 \in DOMAIN w /\ v[k] = w[k + 1]
        BY <1>2, SeqFacts
    <2> QED
        BY <1>2, <1>3, <2>1, <2>2, <2>3, SMTT(40) DEF IncreasingQueue
<1>7. \A x : x \in In(U, c) \/ x \in In(p, c) \/ x \in Queued(v, c) => x \in Nat
    BY DEF In, Queued
<1>8. Increasing(W, c)
    <2>1. PICK n \in Nat, f \in Nat : Len(p) = 1 + n /\ (n > 0 => p[2].count = f)
        <3>1. PICK n \in Nat : Len(p) = 1 + n /\ DOMAIN p = 1 .. 1 + n
            <4>1. Len(p) - 1 \in Nat /\ Len(p) = 1 + (Len(p) - 1) /\ DOMAIN p = 1 .. Len(p)
                BY <1>3, PacketFacts
            <4> QED
                BY <4>1
        <3>2. CASE n > 0
            <4>1. 2 \in 1 .. 1 + n
                BY <3>2
            <4>2. p[2].count \in Nat
                BY <3>1, <4>1, StreamUnits
            <4> QED
                BY <3>1, <4>2
        <3>3. CASE ~(n > 0)
            BY <3>1, <3>3
        <3> QED
            BY <3>2, <3>3
    <2>a. \A j \in DOMAIN p : j # 1 => p[j].count = f + (j - 2)
        <3>1. DOMAIN p = 1 .. 1 + n
            BY <1>1, <2>1, StreamUnits
        <3>2. \A j \in 1 .. 1 + n : j # 1 => n > 0
            BY <2>1
        <3> QED
            BY <1>3, <2>1, <3>1, <3>2 DEF Packet
    <2>2. SUFFICES ASSUME NEW i \in DOMAIN W, NEW j \in DOMAIN W, i < j,
                          IsByte(W[i], c), IsByte(W[j], c)
                   PROVE  W[i].count < W[j].count
        BY DEF Increasing
    <2>3. PICK m \in Nat, q \in Nat : /\ m = Len(U) /\ q = Len(p) /\ DOMAIN U = 1 .. m
                                     /\ DOMAIN p = 1 .. q /\ DOMAIN W = 1 .. m + q
        BY <1>3, StreamUnits DEF Splits
    <2>4. \A k \in 1 .. m : W[k] = U[k]
        BY <1>3, <2>3 DEF Splits
    <2>5. \A k \in 1 .. q : W[m + k] = p[k]
        BY <1>3, <2>3 DEF Splits
    <2>6. \A k \in 1 .. m + q : k \in 1 .. m \/ \E h \in 1 .. q : k = m + h
        <3>1. TAKE k \in 1 .. m + q
        <3>2. CASE k > m
            <4>1. k - m \in 1 .. q /\ k = m + (k - m)
                BY <3>2
            <4> QED
                BY <4>1
        <3>3. CASE ~(k > m)
            BY <3>3
        <3> QED
            BY <3>2, <3>3
    <2>7. CASE j \in 1 .. m
        <3>1. i \in 1 .. m
            BY <2>2, <2>3, <2>7
        <3> QED
            BY <1>3, <2>2, <2>3, <2>4, <2>7, <3>1 DEF Increasing
    <2>8. CASE j \notin 1 .. m
        <3>1. PICK h \in 1 .. q : j = m + h
            BY <2>3, <2>6, <2>8
        <3>2. p[h] = W[j]
            BY <2>5, <3>1
        <3>3. W[j].count \in In(p, c)
            <4>1. p[h].count \in Nat
                BY <2>3, <3>1, StreamUnits
            <4> QED
                BY <2>2, <2>3, <3>1, <3>2, <4>1 DEF In
        <3>4. CASE i \in 1 .. m
            <4>1. W[i].count \in In(U, c)
                <5>1. U[i].count \in Nat
                    BY <2>3, <3>4, StreamUnits
                <5> QED
                    BY <2>2, <2>3, <2>4, <3>4, <5>1 DEF In
            <4> QED
                BY <1>3, <1>5, <3>3, <4>1
        <3>5. CASE i \notin 1 .. m
            <4>1. PICK g \in 1 .. q : i = m + g
                BY <2>3, <2>6, <3>5
            <4>2. p[g] = W[i]
                BY <2>5, <4>1
            <4>3. g # 1 /\ h # 1
                BY <1>3, <2>2, <2>3, <3>2, <4>2 DEF Packet, IsByte
            <4>4. p[g].count = f + (g - 2) /\ p[h].count = f + (h - 2)
                BY <2>3, <2>a, <4>3
            <4>5. g < h
                BY <2>2, <2>3, <3>1, <4>1
            <4>6. f + (g - 2) < f + (h - 2)
                BY <2>1, <2>3, <4>5
            <4> QED
                BY <3>2, <4>2, <4>4, <4>6
        <3> QED
            BY <3>4, <3>5
    <2> QED
        BY <2>7, <2>8
<1>9. \A x \in In(W, c) : d < x /\ x <= t /\ \A y \in d + 1 .. x : y \in In(W, c)
    <2>1. TAKE x \in In(W, c)
    <2>2. CASE x \in In(U, c)
        BY <1>3, <1>4, <2>2
    <2>3. CASE x \in In(p, c)
        <3>1. d < x /\ x <= t /\ x \in Nat
            BY <1>3, <1>5, <1>7, <2>3
        <3>2. ASSUME NEW y \in d + 1 .. x PROVE y \in In(W, c)
            <4>1. y \in d + 1 .. t /\ ~(x < y)
                BY <3>1
            <4>2. y \in In(U, c) \/ y \in In(p, c) \/ y \in Queued(v, c)
                BY <1>3, <1>5, <4>1
            <4> QED
                BY <1>4, <1>6, <2>3, <4>1, <4>2
        <3> QED
            BY <3>1, <3>2
    <2> QED
        BY <1>4, <2>2, <2>3
<1>10. IncreasingQueue(v, c)
    <2>1. SUFFICES ASSUME NEW k \in DOMAIN v, NEW l \in DOMAIN v, k < l
                   PROVE  \A x \in In(v[k].data, c), y \in In(v[l].data, c) : x < y
        BY DEF IncreasingQueue
    <2>2. k \in Nat /\ l \in Nat /\ k + 1 < l + 1
        BY <2>1, SeqFacts
    <2>3. k + 1 \in DOMAIN w /\ v[k] = w[k + 1] /\ l + 1 \in DOMAIN w /\ v[l] = w[l + 1]
        BY <1>2, <2>1
    <2> QED
        BY <1>3, <2>2, <2>3 DEF IncreasingQueue
<1>11. \A x \in In(W, c), y \in Queued(v, c) : x < y
    BY <1>3, <1>4, <1>5, <1>6
<1>12. \A x \in Queued(v, c) : d < x /\ x <= t
    BY <1>3, <1>5
<1>13. \A x \in d + 1 .. t : x \in In(W, c) \/ x \in Queued(v, c)
    BY <1>3, <1>4, <1>5
<1> QED
    BY <1>1, <1>3, <1>8, <1>9, <1>10, <1>11, <1>12, <1>13 DEF Flow
\* Writing to the line is shut down: what follows p is lost.
LEMMA FlowCut ==
    ASSUME NEW U \in Seq(Unit), NEW p \in Seq(Unit), NEW V \in Seq(Unit), Splits(U, p, V),
           NEW w, NEW live, NEW c, NEW d \in Nat, NEW t \in Nat,
           Flow(U, w, live, c, d, t)
    PROVE  \A v : Flow(p, v, FALSE, c, d, t)
<1>1. \A i \in DOMAIN p : i \in DOMAIN U /\ U[i] = p[i]
    BY DEF Splits
<1>2. PICK m \in Nat, n \in Nat : DOMAIN p = 1 .. m /\ DOMAIN U = 1 .. n
    BY StreamUnits
<1>3. /\ d <= t /\ Increasing(U, c)
      /\ \A x \in In(U, c) : d < x /\ x <= t /\ \A y \in d + 1 .. x : y \in In(U, c)
    BY DEF Flow
<1>4. Increasing(p, c)
    BY <1>1, <1>3 DEF Increasing
<1>5. \A x \in In(p, c) : x \in In(U, c) /\ x \in Nat
    BY <1>1 DEF In
<1>6. ASSUME NEW x \in In(p, c), NEW y \in d + 1 .. x
      PROVE  y \in In(p, c)
    <2>1. PICK i \in DOMAIN p : IsByte(p[i], c) /\ p[i].count = x
        BY <1>6 DEF In
    <2>2. y \in In(U, c)
        BY <1>3, <1>5, <1>6
    <2>3. PICK j \in DOMAIN U : IsByte(U[j], c) /\ U[j].count = y /\ y \in Nat
        BY <2>2 DEF In
    <2>4. CASE j \in DOMAIN p
        BY <1>1, <2>3, <2>4 DEF In
    <2>5. CASE j \notin DOMAIN p
        <3>1. i < j
            BY <1>2, <2>1, <2>3, <2>5
        <3>2. x < y
            BY <1>1, <1>3, <2>1, <2>3, <3>1 DEF Increasing
        <3> QED
            BY <1>5, <1>6, <2>3, <3>2
    <2> QED
        BY <2>4, <2>5
<1> QED
    BY <1>3, <1>4, <1>5, <1>6 DEF Flow

\* A packet without bytes of the channel is taken from the stream.
LEMMA FlowSkip ==
    ASSUME NEW U \in Seq(Unit), NEW p \in Seq(Unit), NEW V \in Seq(Unit), Splits(U, p, V),
           NEW w, NEW live, NEW c, NEW d \in Nat, NEW t \in Nat,
           Flow(U, w, live, c, d, t), \A x : x \notin In(p, c)
    PROVE  Flow(V, w, live, c, d, t)
<1>1. \A x : x \in In(V, c) <=> x \in In(U, c)
    BY InSplits
<1>2. Increasing(V, c)
    <2>1. \A j \in DOMAIN V : Len(p) + j \in DOMAIN U /\ U[Len(p) + j] = V[j]
        BY DEF Splits
    <2>2. PICK m \in Nat : m = Len(p) /\ \A j \in DOMAIN V : j \in Nat
        BY StreamUnits
    <2>3. \A i, j \in DOMAIN V : i < j => m + i < m + j
        BY <2>2
    <2> QED
        BY <2>1, <2>2, <2>3 DEF Increasing, Flow
<1> QED
    BY <1>1, <1>2 DEF Flow

\* Packet p has n bytes.
OfSize(p, n) == Len(p) = 1 + n

\* Its bytes are those after d.
Continues(p, d) == \A j \in DOMAIN p : j # 1 => p[j].count = d + (j - 1)

\* The first packet of the stream, with bytes of the channel, is taken.
LEMMA FlowTake ==
    ASSUME NEW U \in Seq(Unit), NEW p \in Seq(Unit), NEW V \in Seq(Unit), Splits(U, p, V),
           NEW w, NEW live, NEW c, NEW d \in Nat, NEW t \in Nat,
           Flow(U, w, live, c, d, t),
           Packet(p), p[1].channel = c, NEW n \in Nat, OfSize(p, n)
    PROVE  /\ Continues(p, d)
           /\ d + n <= t
           /\ Flow(V, w, live, c, d + n, t)
<1>1. Len(p) = 1 + n /\ DOMAIN p = 1 .. n + 1
    BY StreamUnits DEF OfSize
<1>2. /\ d <= t /\ Increasing(U, c)
      /\ \A x \in In(U, c) : x \in Nat /\ d < x /\ x <= t /\ \A y \in d + 1 .. x : y \in In(U, c)
    BY DEF Flow, In
<1>3. CASE n = 0
    <2>1. \A x : x \notin In(p, c)
        <3>1. \A j \in 1 .. 1 : j = 1
            OBVIOUS
        <3> QED
            BY <1>1, <1>3, <3>1 DEF Packet, In, IsByte
    <2>2. Flow(V, w, live, c, d, t)
        BY <2>1, FlowSkip
    <2>3. d + n = d /\ \A j \in 1 .. n + 1 : j = 1
        BY <1>3
    <2>4. Continues(p, d)
        BY <1>1, <2>3 DEF Continues
    <2> QED
        BY <1>2, <2>2, <2>3, <2>4
<1>4. CASE n > 0
    <2>1. PICK f \in Nat : f = p[2].count
        <3>1. 2 \in 1 .. n + 1
            BY <1>4
        <3> QED
            BY <1>1, <3>1, StreamUnits
    <2>2. /\ \A x : x \in In(p, c) <=> x \in f .. f + n - 1
          /\ \A j \in DOMAIN p : p[j].cmd = "BYTE" <=> j # 1
          /\ \A j \in DOMAIN p : j # 1 => p[j].channel = c /\ p[j].count = f + (j - 2)
        <3>1. Holds(p, f, n)
            BY <1>1, <2>1 DEF Holds
        <3> QED
            BY <3>1, InPacket, ZenonT(60)
    <2>3. \A x : x \in In(U, c) <=> x \in In(p, c) \/ x \in In(V, c)
        BY InSplits
    <2>4. \A x \in In(p, c), y \in In(V, c) : x < y
        <3>1. TAKE x \in In(p, c), y \in In(V, c)
        <3>2. PICK i \in DOMAIN p : IsByte(p[i], c) /\ p[i].count = x
            BY <3>1 DEF In
        <3>3. PICK j \in DOMAIN V : IsByte(V[j], c) /\ V[j].count = y
            BY <3>1 DEF In
        <3>4. PICK k \in DOMAIN U : k = Len(p) + j /\ U[k] = V[j]
            BY <3>3 DEF Splits
        <3>5. i \in DOMAIN U /\ U[i] = p[i]
            BY <3>2 DEF Splits
        <3>6. i < k
            <4>1. j \in Nat /\ j >= 1 /\ i \in Nat /\ i <= n + 1
                BY <1>1, <3>2, <3>3, StreamUnits
            <4> QED
                BY <1>1, <3>4, <4>1
        <3> QED
            BY <1>2, <3>2, <3>3, <3>4, <3>5, <3>6 DEF Increasing
    <2>5. f = d + 1
        <3>1. f \in In(p, c) /\ f \in In(U, c)
            <4>1. f \in f .. f + n - 1
                BY <1>4
            <4> QED
                BY <2>2, <2>3, <4>1
        <3>2. d < f /\ d + 1 \in d + 1 .. f
            BY <1>2, <3>1
        <3>3. d + 1 \in In(U, c)
            BY <1>2, <3>1, <3>2
        <3>4. CASE d + 1 \in In(p, c)
            BY <2>2, <3>2, <3>4
        <3>5. CASE d + 1 \in In(V, c)
            <4>1. f < d + 1
                BY <2>4, <3>1, <3>5
            <4> QED
                BY <3>2, <4>1
        <3> QED
            BY <2>3, <3>3, <3>4, <3>5
    <2>6. d + n \in In(p, c) /\ d + n \in In(U, c) /\ d + n <= t
        <3>1. d + n \in f .. f + n - 1
            BY <1>4, <2>5
        <3> QED
            BY <1>2, <2>2, <2>3, <3>1
    <2>7. \A j \in 1 .. n + 1 : f + (j - 2) = d + (j - 1)
        BY <2>5
    <2>8. Increasing(V, c)
        <3>1. \A j \in DOMAIN V : Len(p) + j \in DOMAIN U /\ U[Len(p) + j] = V[j]
            BY DEF Splits
        <3>2. PICK m \in Nat : m = Len(p) /\ \A j \in DOMAIN V : j \in Nat
            BY StreamUnits
        <3>3. \A i, j \in DOMAIN V : i < j => m + i < m + j
            BY <3>2
        <3> QED
            BY <1>2, <3>1, <3>2, <3>3 DEF Increasing
    <2>9. \A x : x \in d + n + 1 .. t => x \in d + 1 .. t /\ x \notin In(p, c)
        <3>1. \A x \in d + n + 1 .. t : x \in d + 1 .. t /\ x \notin f .. f + n - 1
            BY <2>5
        <3> QED
            BY <2>2, <3>1
    <2>10. \A x \in In(V, c) : d + n < x /\ x <= t /\ \A y \in d + n + 1 .. x : y \in In(V, c)
        <3>1. TAKE x \in In(V, c)
        <3>2. x \in Nat /\ x <= t /\ d + n < x
            BY <1>2, <2>3, <2>4, <2>6
        <3>3. ASSUME NEW y \in d + n + 1 .. x PROVE y \in In(V, c)
            <4>1. y \in d + 1 .. x /\ y \in d + n + 1 .. t
                BY <3>2
            <4> QED
                BY <1>2, <2>3, <2>9, <4>1
        <3> QED
            BY <3>2, <3>3
    <2>11. ASSUME live
           PROVE  /\ IncreasingQueue(w, c)
                  /\ \A x \in In(V, c), y \in Queued(w, c) : x < y
                  /\ \A x \in Queued(w, c) : d + n < x /\ x <= t
                  /\ \A x \in d + n + 1 .. t : x \in In(V, c) \/ x \in Queued(w, c)
        <3>1. /\ IncreasingQueue(w, c)
              /\ \A x \in In(U, c), y \in Queued(w, c) : x < y
              /\ \A x \in Queued(w, c) : d < x /\ x <= t
              /\ \A x \in d + 1 .. t : x \in In(U, c) \/ x \in Queued(w, c)
            BY <2>11 DEF Flow
        <3> QED
            BY <2>3, <2>6, <2>9, <3>1
    <2>12. Continues(p, d)
        BY <1>1, <2>2, <2>7 DEF Continues
    <2>13. Flow(V, w, live, c, d + n, t)
        BY <2>6, <2>8, <2>10, <2>11 DEF Flow
    <2> QED
        BY <2>6, <2>12, <2>13
<1> QED
    BY <1>3, <1>4
-----------------------------------------------------------------------------
(* The command that opens a channel, on its way                             *)

\* It is in a stream if it is in one of its parts.
LEMMA InOpenSplits ==
    ASSUME NEW U \in Seq(Unit), NEW p \in Seq(Unit), NEW V \in Seq(Unit), NEW c, Splits(U, p, V)
    PROVE  InOpen(U, c) <=> InOpen(p, c) \/ InOpen(V, c)
<1>1. \A i \in DOMAIN p : i \in DOMAIN U /\ U[i] = p[i]
    BY DEF Splits
<1>2. \A j \in DOMAIN V : Len(p) + j \in DOMAIN U /\ U[Len(p) + j] = V[j]
    BY DEF Splits
<1>3. \A i \in DOMAIN U : i \in DOMAIN p \/ \E j \in DOMAIN V : i = Len(p) + j
    <2>1. TAKE i \in DOMAIN U
    <2>2. CASE i \notin DOMAIN p
        <3>1. i - Len(p) \in DOMAIN V
            BY <2>2 DEF Splits
        <3>2. i = Len(p) + (i - Len(p))
            BY StreamUnits DEF Splits
        <3> QED
            BY <3>1, <3>2
    <2> QED
        BY <2>2
<1> QED
    BY <1>1, <1>2, <1>3 DEF InOpen

\* In a packet it can only be the header.
LEMMA InOpenPacket ==
    ASSUME NEW p \in Seq(Unit), Packet(p), NEW c
    PROVE  InOpen(p, c) <=> IsOpen(p[1], c)
<1>1. 1 \in DOMAIN p /\ \A j \in DOMAIN p : j # 1 => p[j].cmd = "BYTE"
    BY PacketFacts DEF Packet, IsByte
<1> QED
    BY <1>1 DEF InOpen, IsOpen

\* It is in a longer queue.
LEMMA QueueOpenAppend ==
    ASSUME NEW w \in Seq(Mbuf), NEW m \in Mbuf, NEW c
    PROVE  QueueOpen(Append(w, m), c) <=> QueueOpen(w, c) \/ IsOpen(m.data[1], c)
<1>1. Len(w) + 1 \in DOMAIN Append(w, m)
    BY AppendFacts, SeqFacts
<1> QED
    BY <1>1, AppendFacts DEF QueueOpen

\* A buffer that does not open the channel is queued, and its bytes come when
\* the channel is, or is about to be, open.
LEMMA OpeningEnqueue ==
    ASSUME NEW U \in Seq(Unit), NEW w \in Seq(Mbuf), NEW m \in Mbuf, NEW live \in BOOLEAN, NEW c,
           NEW new \in BOOLEAN, NEW due \in BOOLEAN,
           Opening(U, w, live, c, new, due), ~IsOpen(m.data[1], c),
           In(m.data, c) # {} => due \/ ~new
    PROVE  Opening(U, Append(w, m), live, c, new, due)
<1>1. PICK v : v = Append(w, m)
    OBVIOUS
<1>2. /\ \A k \in DOMAIN w : k \in DOMAIN v /\ v[k] = w[k]
      /\ v[Len(w) + 1] = m /\ Len(w) + 1 \in DOMAIN v
      /\ \A k \in DOMAIN v : k \in DOMAIN w \/ k = Len(w) + 1
    BY <1>1, AppendFacts, SeqFacts
<1>3. \A k \in DOMAIN w : k < Len(w) + 1
    <2>1. PICK l \in Nat : l = Len(w) /\ DOMAIN w = 1 .. l
        BY SeqFacts
    <2> QED
        BY <2>1
<1>4. QueueOpen(v, c) <=> QueueOpen(w, c)
    BY <1>1, QueueOpenAppend
<1>5. /\ InOpen(U, c) \/ QueueOpen(w, c) => new /\ due
      /\ OpenedOnce(U, w, c)
      /\ new => OpenedFirst(U, w, live, c)
      /\ new /\ due /\ live => InOpen(U, c) \/ QueueOpen(w, c)
    BY DEF Opening
<1>6. OpenedOnce(U, v, c)
    <2>1. \A k \in DOMAIN v : IsOpen(v[k].data[1], c) => k \in DOMAIN w /\ v[k] = w[k]
        BY <1>2
    <2> QED
        BY <1>4, <1>5, <2>1 DEF OpenedOnce
<1>7. ASSUME new PROVE OpenedFirst(U, v, live, c)
    <2>1. OpenedFirst(U, w, live, c)
        BY <1>5, <1>7
    <2>2. ASSUME live, NEW l \in DOMAIN v, In(v[l].data, c) # {}
          PROVE  InOpen(U, c) \/ \E k \in DOMAIN v : k < l /\ IsOpen(v[k].data[1], c)
        <3>1. CASE l \in DOMAIN w
            BY <1>2, <2>1, <2>2, <3>1 DEF OpenedFirst
        <3>2. CASE l = Len(w) + 1
            <4>1. due
                BY <1>2, <1>7, <2>2, <3>2
            <4>2. InOpen(U, c) \/ \E k \in DOMAIN w : IsOpen(w[k].data[1], c)
                BY <1>5, <1>7, <2>2, <4>1 DEF QueueOpen
            <4> QED
                BY <1>2, <1>3, <3>2, <4>2
        <3> QED
            BY <1>2, <3>1, <3>2
    <2> QED
        BY <2>1, <2>2 DEF OpenedFirst
<1> QED
    BY <1>1, <1>4, <1>5, <1>6, <1>7 DEF Opening

\* The command that opens the channel is queued.
LEMMA OpeningAnnounced ==
    ASSUME NEW U \in Seq(Unit), NEW w \in Seq(Mbuf), NEW m \in Mbuf, NEW live \in BOOLEAN, NEW c,
           Opening(U, w, live, c, TRUE, FALSE), IsOpen(m.data[1], c), In(m.data, c) = {}
    PROVE  Opening(U, Append(w, m), live, c, TRUE, TRUE)
<1>1. PICK v : v = Append(w, m)
    OBVIOUS
<1>2. /\ \A k \in DOMAIN w : k \in DOMAIN v /\ v[k] = w[k]
      /\ v[Len(w) + 1] = m /\ Len(w) + 1 \in DOMAIN v
      /\ \A k \in DOMAIN v : k \in DOMAIN w \/ k = Len(w) + 1
    BY <1>1, AppendFacts, SeqFacts
<1>3. ~InOpen(U, c) /\ ~QueueOpen(w, c) /\ OpenedOnce(U, w, c) /\ OpenedFirst(U, w, live, c)
    BY DEF Opening
<1>4. QueueOpen(v, c)
    BY <1>1, QueueOpenAppend
<1>5. \A k \in DOMAIN v : IsOpen(v[k].data[1], c) => k = Len(w) + 1
    BY <1>2, <1>3 DEF QueueOpen
<1>6. OpenedOnce(U, v, c)
    BY <1>3, <1>5 DEF OpenedOnce
<1>7. OpenedFirst(U, v, live, c)
    <2>1. \A l \in DOMAIN v : In(v[l].data, c) # {} => l \in DOMAIN w /\ v[l] = w[l]
        BY <1>2
    <2> QED
        BY <1>2, <1>3, <2>1 DEF OpenedFirst
<1> QED
    BY <1>1, <1>3, <1>4, <1>6, <1>7 DEF Opening

\* The first buffer of the queue is written to the line.
LEMMA OpeningToLine ==
    ASSUME NEW U \in Seq(Unit), NEW W \in Seq(Unit), NEW w \in Seq(Mbuf), w # <<>>, NEW c,
           NEW new \in BOOLEAN, NEW due \in BOOLEAN,
           Packet(Head(w).data), Splits(W, U, Head(w).data), Opening(U, w, TRUE, c, new, due)
    PROVE  Opening(W, Tail(w), TRUE, c, new, due)
<1>1. PICK v \in Seq(Mbuf), p \in Seq(Unit) : v = Tail(w) /\ p = Head(w).data
    <2>1. Head(w).data \in Seq(Unit)
        BY TailFacts, MbufData
    <2> QED
        BY <2>1, TailFacts
<1>2. /\ 1 \in DOMAIN w /\ w[1].data = p
      /\ \A k \in DOMAIN v : k + 1 \in DOMAIN w /\ v[k] = w[k + 1] /\ k \in Nat /\ k >= 1
      /\ \A k \in DOMAIN w : k = 1 \/ (k - 1 \in DOMAIN v /\ w[k] = v[k - 1])
      /\ \A k \in DOMAIN w : k \in Nat /\ k >= 1
    BY <1>1, TailFacts, SeqFacts
<1>3. /\ InOpen(U, c) \/ QueueOpen(w, c) => new /\ due
      /\ OpenedOnce(U, w, c)
      /\ new => OpenedFirst(U, w, TRUE, c)
      /\ new /\ due => InOpen(U, c) \/ QueueOpen(w, c)
      /\ Packet(p) /\ Splits(W, U, p)
    BY <1>1 DEF Opening
<1>4. InOpen(W, c) <=> InOpen(U, c) \/ IsOpen(p[1], c)
    BY <1>3, InOpenSplits, InOpenPacket
<1>5. QueueOpen(w, c) <=> IsOpen(p[1], c) \/ QueueOpen(v, c)
    BY <1>2 DEF QueueOpen
<1>6. PICK m \in Nat, n \in Nat : /\ m = Len(U) /\ n = Len(p) /\ n >= 1
                                  /\ DOMAIN U = 1 .. m /\ DOMAIN p = 1 .. n
                                  /\ Len(W) = m + n /\ DOMAIN W = 1 .. m + n
    BY <1>3, StreamUnits, PacketFacts DEF Splits
<1>7. \A i \in 1 .. m : i \in 1 .. m + n /\ W[i] = U[i]
    BY <1>3, <1>6 DEF Splits
<1>8. \A j \in 1 .. n : m + j \in 1 .. m + n /\ W[m + j] = p[j]
    BY <1>3, <1>6 DEF Splits
<1>9. \A i \in 1 .. m + n : i \in 1 .. m \/ \E j \in 1 .. n : i = m + j
    <2>1. TAKE i \in 1 .. m + n
    <2>2. CASE i > m
        <3>1. i - m \in 1 .. n /\ i = m + (i - m)
            BY <2>2
        <3> QED
            BY <3>1
    <2>3. CASE ~(i > m)
        BY <2>3
    <2> QED
        BY <2>2, <2>3
<1>10. \A i \in 1 .. m + n : IsOpen(W[i], c) =>
          (i \in 1 .. m /\ IsOpen(U[i], c)) \/ (i = m + 1 /\ IsOpen(p[1], c))
    <2>1. \A j \in 1 .. n : IsOpen(p[j], c) => j = 1
        BY <1>3, <1>6 DEF Packet, IsByte, IsOpen
    <2> QED
        BY <1>7, <1>8, <1>9, <2>1, ZenonT(60)
<1>11. OpenedOnce(W, v, c)
    <2>1. IsOpen(p[1], c) => ~InOpen(U, c) /\ ~QueueOpen(v, c)
        <3>1. ASSUME IsOpen(p[1], c) PROVE \A k \in DOMAIN w : IsOpen(w[k].data[1], c) => k = 1
            BY <1>2, <1>3, <3>1 DEF OpenedOnce
        <3>2. \A k \in DOMAIN v : k + 1 # 1
            BY <1>2
        <3> QED
            BY <1>2, <1>3, <1>5, <3>1, <3>2 DEF OpenedOnce, QueueOpen
    <2>2. \A i, j \in DOMAIN W : IsOpen(W[i], c) /\ IsOpen(W[j], c) => i = j
        BY <1>3, <1>6, <1>10, <2>1 DEF OpenedOnce, InOpen
    <2>3. \A k, l \in DOMAIN v : IsOpen(v[k].data[1], c) /\ IsOpen(v[l].data[1], c) => k = l
        <3>1. TAKE k, l \in DOMAIN v
        <3>2. k \in Nat /\ l \in Nat
            BY <1>2, <3>1
        <3>3. k + 1 = l + 1 => k = l
            BY <3>2
        <3>4. k + 1 \in DOMAIN w /\ l + 1 \in DOMAIN w /\ v[k] = w[k + 1] /\ v[l] = w[l + 1]
            BY <1>2, <3>1
        <3> QED
            BY <1>3, <3>3, <3>4 DEF OpenedOnce
    <2>4. ~(InOpen(W, c) /\ QueueOpen(v, c))
        BY <1>3, <1>4, <1>5, <2>1 DEF OpenedOnce
    <2> QED
        BY <2>2, <2>3, <2>4 DEF OpenedOnce
<1>12. ASSUME new PROVE OpenedFirst(W, v, TRUE, c)
    <2>1. /\ \A j \in 1 .. m : IsByte(U[j], c) => \E i \in 1 .. m : i < j /\ IsOpen(U[i], c)
          /\ \A l \in DOMAIN w : In(w[l].data, c) # {} =>
                InOpen(U, c) \/ \E k \in DOMAIN w : k < l /\ IsOpen(w[k].data[1], c)
        BY <1>3, <1>6, <1>12 DEF OpenedFirst
    <2>2. ASSUME NEW j \in DOMAIN W, IsByte(W[j], c)
          PROVE  \E i \in DOMAIN W : i < j /\ IsOpen(W[i], c)
        <3>1. CASE j \in 1 .. m
            BY <1>6, <1>7, <2>1, <2>2, <3>1
        <3>2. CASE j \notin 1 .. m
            <4>1. PICK h \in 1 .. n : j = m + h
                BY <1>6, <1>9, <3>2
            <4>2. IsByte(p[h], c)
                BY <1>8, <2>2, <4>1
            <4>3. p[h].count \in In(p, c)
                <5>1. p[h].count \in Nat
                    BY <1>1, <1>6, <4>1, StreamUnits
                <5> QED
                    BY <1>6, <4>1, <4>2, <5>1 DEF In
            <4>4. InOpen(U, c)
                <5>1. \A k \in DOMAIN w : ~(k < 1)
                    BY <1>2
                <5> QED
                    BY <1>2, <2>1, <4>3, <5>1
            <4>5. PICK i \in 1 .. m : IsOpen(U[i], c)
                BY <1>6, <4>4 DEF InOpen
            <4>6. i < j
                BY <1>6, <4>1, <4>5
            <4> QED
                BY <1>6, <1>7, <4>5, <4>6
        <3> QED
            BY <3>1, <3>2
    <2>3. ASSUME NEW l \in DOMAIN v, In(v[l].data, c) # {}
          PROVE  InOpen(W, c) \/ \E k \in DOMAIN v : k < l /\ IsOpen(v[k].data[1], c)
        <3>1. l + 1 \in DOMAIN w /\ v[l] = w[l + 1]
            BY <1>2, <2>3
        <3>2. CASE InOpen(U, c)
            BY <1>4, <3>2
        <3>3. CASE \E k \in DOMAIN w : k < l + 1 /\ IsOpen(w[k].data[1], c)
            <4>1. PICK k \in DOMAIN w : k < l + 1 /\ IsOpen(w[k].data[1], c)
                BY <3>3
            <4>2. CASE k = 1
                BY <1>2, <1>4, <4>1, <4>2
            <4>3. CASE k # 1
                <5>1. k - 1 \in DOMAIN v /\ w[k] = v[k - 1]
                    BY <1>2, <4>1, <4>3
                <5>2. k \in Nat /\ l \in Nat
                    BY <1>2, <2>3, <4>1
                <5>3. k - 1 < l
                    BY <4>1, <5>2
                <5> QED
                    BY <4>1, <5>1, <5>3
            <4> QED
                BY <4>2, <4>3
        <3> QED
            BY <2>1, <2>3, <3>1, <3>2, <3>3
    <2> QED
        BY <2>2, <2>3 DEF OpenedFirst
<1> QED
    BY <1>1, <1>3, <1>4, <1>5, <1>11, <1>12 DEF Opening

\* Writing to the line is shut down: what follows p is lost.
LEMMA OpeningCut ==
    ASSUME NEW U \in Seq(Unit), NEW p \in Seq(Unit), NEW V \in Seq(Unit), Splits(U, p, V),
           NEW w, NEW live, NEW c, NEW new, NEW due,
           Opening(U, w, live, c, new, due)
    PROVE  Opening(p, <<>>, FALSE, c, new, due)
<1>1. \A i \in DOMAIN p : i \in DOMAIN U /\ U[i] = p[i]
    BY DEF Splits
<1>2. ~QueueOpen(<<>>, c)
    BY DEF QueueOpen
<1>3. InOpen(p, c) => InOpen(U, c)
    BY <1>1 DEF InOpen
<1>4. OpenedOnce(p, <<>>, c)
    BY <1>1, <1>2 DEF Opening, OpenedOnce
<1>5. PICK m \in Nat, n \in Nat : DOMAIN p = 1 .. m /\ DOMAIN U = 1 .. n
    BY StreamUnits
<1>6. ASSUME new PROVE OpenedFirst(p, <<>>, FALSE, c)
    <2>1. \A j \in 1 .. n : IsByte(U[j], c) => \E i \in 1 .. n : i < j /\ IsOpen(U[i], c)
        BY <1>5, <1>6 DEF Opening, OpenedFirst
    <2>2. \A j \in 1 .. m, i \in 1 .. n : i < j => i \in 1 .. m
        BY <1>5
    <2> QED
        BY <1>1, <1>5, <2>1, <2>2 DEF OpenedFirst
<1> QED
    BY <1>2, <1>3, <1>4, <1>6 DEF Opening

\* A channel that is new has no bytes in packet P.
NoBytes(P, c, new) == new => \A x : x \notin In(P, c)

\* A packet that opened channel c was due, and is the first of that channel.
Opens(V, P, w, live, c, new, due) ==
    new /\ due /\ Opening(V, w, live, c, FALSE, due) /\ \A x : x \notin In(P, c)

\* The first packet of the stream is taken.  Bytes of a new channel cannot come
\* first, and the command that opens the channel comes only once.
LEMMA OpeningTake ==
    ASSUME NEW U \in Seq(Unit), NEW p \in Seq(Unit), NEW V \in Seq(Unit), Splits(U, p, V),
           Packet(p), NEW w, NEW live, NEW c, NEW new, NEW due,
           Opening(U, w, live, c, new, due)
    PROVE  /\ IsOpen(p[1], c) => Opens(V, p, w, live, c, new, due)
           /\ ~IsOpen(p[1], c) => Opening(V, w, live, c, new, due)
           /\ NoBytes(p, c, new)
<1>1. PICK m \in Nat, n \in Nat : /\ m = Len(p) /\ n = Len(V) /\ m >= 1
                                  /\ DOMAIN p = 1 .. m /\ DOMAIN V = 1 .. n
                                  /\ Len(U) = m + n /\ DOMAIN U = 1 .. m + n
    BY StreamUnits, PacketFacts DEF Splits
<1>2. \A i \in 1 .. m : i \in 1 .. m + n /\ U[i] = p[i]
    BY <1>1 DEF Splits
<1>3. \A j \in 1 .. n : m + j \in 1 .. m + n /\ U[m + j] = V[j]
    BY <1>1 DEF Splits
<1>4. InOpen(U, c) <=> IsOpen(p[1], c) \/ InOpen(V, c)
    BY InOpenSplits, InOpenPacket
<1>5. \A j \in 1 .. m : IsOpen(p[j], c) => j = 1
    BY <1>1 DEF Packet, IsByte, IsOpen
<1>6. /\ InOpen(U, c) \/ QueueOpen(w, c) => new /\ due
      /\ OpenedOnce(U, w, c)
      /\ new => OpenedFirst(U, w, live, c)
      /\ new /\ due /\ live => InOpen(U, c) \/ QueueOpen(w, c)
    BY DEF Opening
<1>7. OpenedOnce(V, w, c)
    <2>1. \A i, j \in 1 .. n : IsOpen(V[i], c) /\ IsOpen(V[j], c) => i = j
        <3>1. TAKE i, j \in 1 .. n
        <3>2. m + i = m + j => i = j
            BY <1>1, <3>1
        <3>3. /\ m + i \in DOMAIN U /\ m + j \in DOMAIN U
              /\ U[m + i] = V[i] /\ U[m + j] = V[j]
            BY <1>1, <1>3, <3>1
        <3> QED
            BY <1>6, <3>2, <3>3 DEF OpenedOnce
    <2>2. \A k, l \in DOMAIN w : IsOpen(w[k].data[1], c) /\ IsOpen(w[l].data[1], c) => k = l
        BY <1>6 DEF OpenedOnce
    <2>3. ~(InOpen(V, c) /\ QueueOpen(w, c))
        BY <1>4, <1>6 DEF OpenedOnce
    <2> QED
        BY <1>1, <2>1, <2>2, <2>3 DEF OpenedOnce
<1>8. ASSUME IsOpen(p[1], c)
      PROVE  new /\ due /\ Opening(V, w, live, c, FALSE, due)
    <2>1. 1 \in 1 .. m /\ \A j \in 1 .. n : m + j # 1
        BY <1>1
    <2>2. ~InOpen(V, c)
        <3>1. SUFFICES ASSUME NEW j \in 1 .. n, IsOpen(V[j], c) PROVE FALSE
            BY <1>1 DEF InOpen
        <3>2. 1 \in DOMAIN U /\ m + j \in DOMAIN U /\ IsOpen(U[1], c) /\ IsOpen(U[m + j], c)
            BY <1>1, <1>2, <1>3, <1>8, <2>1, <3>1
        <3>3. 1 = m + j
            BY <1>6, <3>2 DEF OpenedOnce
        <3> QED
            BY <2>1, <3>1, <3>3
    <2>3. ~QueueOpen(w, c)
        BY <1>4, <1>6, <1>8 DEF OpenedOnce
    <2> QED
        BY <1>4, <1>6, <1>7, <1>8, <2>2, <2>3 DEF Opening
<1>9. ASSUME new PROVE \A x : x \notin In(p, c)
    <2>1. SUFFICES ASSUME NEW j \in 1 .. m, IsByte(p[j], c) PROVE FALSE
        BY <1>1 DEF In
    <2>2. PICK i \in 1 .. m + n : i < j /\ IsOpen(U[i], c)
        BY <1>1, <1>2, <1>6, <1>9, <2>1 DEF OpenedFirst
    <2>3. i \in 1 .. m /\ IsOpen(p[i], c)
        BY <1>1, <1>2, <2>1, <2>2
    <2>4. i = 1 /\ p[1].cmd = "OPEN"
        BY <1>5, <2>3 DEF IsOpen
    <2>5. j # 1
        BY <2>2, <2>4
    <2>6. p[1].cmd = "DATA"
        BY <1>1, <2>1, <2>5, PacketFacts
    <2> QED
        BY <2>4, <2>6
<1>10. ASSUME ~IsOpen(p[1], c)
       PROVE  Opening(V, w, live, c, new, due)
    <2>1. InOpen(V, c) <=> InOpen(U, c)
        BY <1>4, <1>10
    <2>2. ASSUME new PROVE OpenedFirst(V, w, live, c)
        <3>1. /\ \A j \in 1 .. m + n : IsByte(U[j], c) =>
                    \E i \in 1 .. m + n : i < j /\ IsOpen(U[i], c)
              /\ live => \A l \in DOMAIN w : In(w[l].data, c) # {} =>
                    InOpen(U, c) \/ \E k \in DOMAIN w : k < l /\ IsOpen(w[k].data[1], c)
            BY <1>1, <1>6, <2>2 DEF OpenedFirst
        <3>2. ASSUME NEW j \in 1 .. n, IsByte(V[j], c)
              PROVE  \E i \in 1 .. n : i < j /\ IsOpen(V[i], c)
            <4>1. PICK i \in 1 .. m + n : i < m + j /\ IsOpen(U[i], c)
                BY <1>3, <3>1, <3>2
            <4>2. i \notin 1 .. m
                BY <1>2, <1>5, <1>10, <4>1
            <4>3. PICK k \in 1 .. n : i = m + k
                <5>1. i - m \in 1 .. n /\ i = m + (i - m)
                    BY <1>1, <4>1, <4>2
                <5> QED
                    BY <5>1
            <4>4. k < j
                BY <1>1, <3>2, <4>1, <4>3
            <4> QED
                BY <1>3, <4>1, <4>3, <4>4
        <3> QED
            BY <1>1, <2>1, <3>1, <3>2 DEF OpenedFirst
    <2> QED
        BY <1>6, <1>7, <2>1, <2>2 DEF Opening
<1>11. NoBytes(p, c, new)
    BY <1>9 DEF NoBytes
<1>12. ASSUME IsOpen(p[1], c)
       PROVE  Opens(V, p, w, live, c, new, due)
    BY <1>8, <1>9, <1>12, Zenon DEF Opens
<1> QED
    BY <1>10, <1>11, <1>12
-----------------------------------------------------------------------------
(* What has arrived at an endpoint                                          *)

\* The next buffer is fetched from the queue.
LEMMA ChainPullup ==
    ASSUME NEW q \in Seq(Seq(Byte)), q # <<>>, NEW c, NEW g \in Nat, NEW d \in Nat,
           Chain(<<>>, q, c, g, d)
    PROVE  Chain(Head(q), Tail(q), c, g, d)
<1>1. PICK r \in Seq(Seq(Byte)), h \in Seq(Byte) : r = Tail(q) /\ h = Head(q)
    BY TailFacts
<1>2. PICK n \in Nat : /\ n = Len(r) /\ n + 1 = Len(q) /\ h = q[1]
                       /\ DOMAIN r = 1 .. n /\ DOMAIN q = 1 .. n + 1
                       /\ \A k \in 1 .. n : r[k] = q[k + 1]
    <2>1. Len(r) \in Nat /\ DOMAIN r = 1 .. Len(r) /\ DOMAIN q = 1 .. Len(q)
        BY SeqFacts
    <2>2. Len(q) = Len(r) + 1 /\ h = q[1] /\ \A i \in DOMAIN r : r[i] = q[i + 1]
        BY <1>1, TailFacts
    <2> QED
        BY <2>1, <2>2
<1>3. PICK pos : Places(pos, q, c, g, d)
    <2>1. \A x : g + Len(<<>>) = g
        BY EmptySeq
    <2> QED
        BY <2>1 DEF Chain
<1>4. /\ pos[1] = g /\ pos[(n + 1) + 1] = d
      /\ \A k \in 1 .. (n + 1) + 1 : pos[k] \in Nat /\ pos[k] <= d
      /\ \A k \in 1 .. n + 1 : Row(q[k], c, pos[k]) /\ pos[k + 1] = pos[k] + Len(q[k])
    BY <1>2, <1>3 DEF Places
<1>5. PICK two : two = [k \in 1 .. n + 1 |-> pos[k + 1]]
    OBVIOUS
<1>6. \A k \in 1 .. n + 1 : two[k] = pos[k + 1] /\ k + 1 \in 1 .. (n + 1) + 1
    BY <1>5
<1>7. 1 \in 1 .. n + 1 /\ n + 1 \in 1 .. n + 1
    OBVIOUS
<1>8. \A k \in 1 .. n : Row(r[k], c, two[k]) /\ two[k + 1] = two[k] + Len(r[k])
    <2>1. TAKE k \in 1 .. n
    <2>2. k \in 1 .. n + 1 /\ k + 1 \in 1 .. n + 1
        BY <2>1
    <2> QED
        BY <1>2, <1>4, <1>6, <2>2
<1>9. Places(two, r, c, g + Len(h), d)
    <2>1. two[1] = g + Len(h) /\ two[n + 1] = d
        BY <1>2, <1>4, <1>6, <1>7
    <2>2. \A k \in 1 .. n + 1 : two[k] \in Nat /\ two[k] <= d
        BY <1>4, <1>6
    <2> QED
        BY <1>2, <1>8, <2>1, <2>2 DEF Places
<1>10. Row(h, c, g)
    BY <1>2, <1>4, <1>7
<1> QED
    BY <1>1, <1>9, <1>10 DEF Chain

\* The program that had got has the first n bytes of b as well.
Gets(more, got, b, n) == more = got \o SubSeq(b, 1, n)

\* The first n bytes of the buffer are written to the program.
LEMMA ChainWrite ==
    ASSUME NEW b \in Seq(Byte), NEW q \in Seq(Seq(Byte)), NEW c, NEW got \in Seq(Byte),
           NEW d \in Nat, NEW n \in 0 .. Len(b), Chain(b, q, c, Len(got), d),
           got = Bytes(c, 0, Len(got)), NEW more, Gets(more, got, b, n)
    PROVE  /\ Chain(SubSeq(b, n + 1, Len(b)), q, c, Len(more), d)
           /\ more \in Seq(Byte) /\ more = Bytes(c, 0, Len(more)) /\ Len(more) <= d
<1>1. PICK l \in Nat, g \in Nat, m \in Nat :
          l = Len(b) /\ g = Len(got) /\ n + m = l /\ n \in Nat /\ (g + n) + m = g + l
    <2>1. Len(b) \in Nat /\ Len(got) \in Nat /\ n \in Nat /\ n <= Len(b)
        BY SeqFacts
    <2>2. /\ Len(b) - n \in Nat /\ n + (Len(b) - n) = Len(b)
          /\ (Len(got) + n) + (Len(b) - n) = Len(got) + Len(b)
        BY <2>1
    <2> QED
        BY <2>1, <2>2
<1>2. PICK p \in Seq(Byte), f \in Seq(Byte) :
          /\ p = SubSeq(b, 1, n) /\ f = SubSeq(b, n + 1, Len(b))
          /\ Len(p) = n /\ Splits(b, p, f)
    BY CutSplits
<1>3. DOMAIN p = 1 .. n /\ Len(f) = m /\ DOMAIN f = 1 .. m
    <2>1. Len(f) \in Nat /\ n + Len(f) = l
        BY <1>1, <1>2, SeqFacts DEF Splits
    <2>2. Len(f) = m
        BY <1>1, <2>1
    <2> QED
        BY <1>2, <2>2, SeqFacts
<1>4. more \in Seq(Byte) /\ Splits(more, got, p)
    BY <1>2, ConcatSplits DEF Gets
<1>5. Len(more) = g + n /\ DOMAIN more = 1 .. g + n
    BY <1>1, <1>2, <1>4, SeqFacts DEF Splits
<1>6. \A i \in DOMAIN b : b[i] = Header("BYTE", c, g + i)
    BY <1>1 DEF Chain, Row
<1>7. Row(f, c, g + n)
    <2>1. ASSUME NEW i \in 1 .. m PROVE f[i] = Header("BYTE", c, (g + n) + i)
        <3>1. n + i \in DOMAIN b /\ f[i] = b[n + i]
            BY <1>2, <1>3, <2>1 DEF Splits
        <3>2. g + (n + i) = (g + n) + i
            BY <1>1, <2>1
        <3> QED
            BY <1>6, <3>1, <3>2
    <2> QED
        BY <1>3, <2>1 DEF Row
<1>8. \A i \in 1 .. g + n : more[i] = Header("BYTE", c, i)
    <2>1. TAKE i \in 1 .. g + n
    <2>2. CASE i \in 1 .. g
        <3>1. more[i] = got[i]
            BY <1>1, <1>4, <2>2, SeqFacts DEF Splits
        <3>2. got = [j \in 1 .. g - 0 |-> Header("BYTE", c, 0 + j)]
            BY <1>1 DEF Bytes
        <3>3. g - 0 = g /\ 0 + i = i
            BY <1>1, <2>1
        <3> QED
            BY <2>2, <3>1, <3>2, <3>3
    <2>3. CASE i \notin 1 .. g
        <3>1. PICK j \in 1 .. n : i = g + j
            <4>1. i - g \in 1 .. n /\ i = g + (i - g)
                BY <1>1, <2>1, <2>3
            <4> QED
                BY <4>1
        <3>2. more[g + j] = p[j] /\ p[j] = b[j] /\ j \in DOMAIN b
            BY <1>1, <1>2, <1>3, <1>4 DEF Splits
        <3> QED
            BY <1>6, <3>1, <3>2
    <2> QED
        BY <2>2, <2>3
<1>9. more = Bytes(c, 0, g + n)
    <2>1. PICK r : r = [i \in 1 .. g + n |-> Header("BYTE", c, 0 + i)]
        OBVIOUS
    <2>2. r = Bytes(c, 0, g + n)
        <3>1. g + n - 0 = g + n
            BY <1>1
        <3> QED
            BY <2>1, <3>1 DEF Bytes
    <2>3. \A i \in 1 .. g + n : 0 + i = i
        OBVIOUS
    <2>4. \A i \in 1 .. g + n : r[i] = more[i]
        BY <1>8, <2>1, <2>3
    <2>5. r \in Seq(Byte) /\ Len(r) = g + n
        <3>1. \A i \in 1 .. g + n : more[i] \in Byte
            BY <1>4, <1>5, SeqFacts
        <3>2. r \in [1 .. g + n -> Byte]
            BY <2>1, <2>4, <3>1
        <3>3. g + n \in Nat
            BY <1>1
        <3>4. r \in Seq(Byte)
            BY <3>2, <3>3, SeqDef
        <3> QED
            BY <2>1, <3>3, <3>4, LenProperties, SeqFacts
    <2>6. r = more
        BY <1>4, <1>5, <2>4, <2>5, SeqEqual
    <2> QED
        BY <2>2, <2>6
<1>10. PICK pos : Places(pos, q, c, g + l, d)
    BY <1>1 DEF Chain
<1>11. Chain(f, q, c, g + n, d)
    BY <1>1, <1>3, <1>7, <1>10 DEF Chain
<1>12. g + n <= d
    <2>1. pos[1] = g + l /\ pos[1] <= d
        <3>1. 1 \in 1 .. Len(q) + 1
            BY SeqFacts
        <3> QED
            BY <1>10, <3>1 DEF Places
    <2> QED
        BY <1>1, <2>1
<1> QED
    BY <1>2, <1>4, <1>5, <1>9, <1>11, <1>12

\* The bytes of a packet are queued.
LEMMA ChainData ==
    ASSUME NEW b, NEW q \in Seq(Seq(Byte)), NEW data \in Seq(Byte), NEW c,
           NEW g, NEW d \in Nat, Chain(b, q, c, g, d), Row(data, c, d)
    PROVE  Chain(b, Append(q, data), c, g, d + Len(data))
<1>1. PICK n \in Nat, m \in Nat, r \in Seq(Seq(Byte)) :
          n = Len(q) /\ m = Len(data) /\ r = Append(q, data)
    BY AppendFacts, SeqFacts
<1>2. /\ Len(r) = n + 1 /\ \A k \in 1 .. n : r[k] = q[k]
      /\ r[n + 1] = data
    BY <1>1, AppendFacts, SeqFacts
<1>3. PICK pos, f : Places(pos, q, c, f, d) /\ f = g + Len(b)
    BY DEF Chain
<1>4. /\ pos[1] = f /\ pos[n + 1] = d
      /\ \A k \in 1 .. n + 1 : pos[k] \in Nat /\ pos[k] <= d
      /\ \A k \in 1 .. n : Row(q[k], c, pos[k]) /\ pos[k + 1] = pos[k] + Len(q[k])
    BY <1>1, <1>3 DEF Places
<1>5. PICK two : two = [k \in 1 .. (n + 1) + 1 |-> IF k = (n + 1) + 1 THEN d + m ELSE pos[k]]
    OBVIOUS
<1>6. \A k \in 1 .. n + 1 : two[k] = pos[k]
    <2>1. \A k \in 1 .. n + 1 : k \in 1 .. (n + 1) + 1 /\ k # (n + 1) + 1
        OBVIOUS
    <2> QED
        BY <1>5, <2>1
<1>7. two[(n + 1) + 1] = d + m
    <2>1. (n + 1) + 1 \in 1 .. (n + 1) + 1
        OBVIOUS
    <2> QED
        BY <1>5, <2>1
<1>8. 1 \in 1 .. n + 1 /\ d + m \in Nat
    BY <1>1
<1>9. \A k \in 1 .. (n + 1) + 1 : two[k] \in Nat /\ two[k] <= d + m
    <2>1. TAKE k \in 1 .. (n + 1) + 1
    <2>2. CASE k = (n + 1) + 1
        BY <1>7, <1>8, <2>2
    <2>3. CASE k # (n + 1) + 1
        <3>1. k \in 1 .. n + 1
            BY <2>1, <2>3
        <3>2. two[k] = pos[k] /\ pos[k] <= d /\ pos[k] \in Nat
            BY <1>4, <1>6, <3>1
        <3> QED
            BY <1>1, <3>2
    <2> QED
        BY <2>2, <2>3
<1>10. \A k \in 1 .. n + 1 : Row(r[k], c, two[k]) /\ two[k + 1] = two[k] + Len(r[k])
    <2>1. TAKE k \in 1 .. n + 1
    <2>2. CASE k = n + 1
        BY <1>1, <1>2, <1>4, <1>6, <1>7, <2>1, <2>2
    <2>3. CASE k # n + 1
        <3>1. k \in 1 .. n /\ k + 1 \in 1 .. n + 1
            BY <2>1, <2>3
        <3> QED
            BY <1>2, <1>4, <1>6, <2>1, <3>1
    <2> QED
        BY <2>2, <2>3
<1>11. Places(two, r, c, f, d + m)
    BY <1>2, <1>4, <1>6, <1>7, <1>8, <1>9, <1>10 DEF Places
<1>12. Row(b, c, g)
    BY DEF Chain
<1> QED
    BY <1>1, <1>3, <1>11, <1>12 DEF Chain
-----------------------------------------------------------------------------
(* Sums                                                                     *)

\* The sum of f is the number of these pairs.
Parts(f) == UNION {{x} \X (1 .. f[x]) : x \in DOMAIN f}

\* The natural numbers f[x] for the members x of the finite set S.
Numbers(f, S) == DOMAIN f = S /\ IsFiniteSet(S) /\ \A x \in S : f[x] \in Nat

\* What the pairs are.
LEMMA PartsFacts ==
    ASSUME NEW f
    PROVE  /\ \A x \in DOMAIN f : \A i \in 1 .. f[x] : <<x, i>> \in Parts(f)
           /\ \A u \in Parts(f) : \E x \in DOMAIN f, i \in Int : i \in 1 .. f[x] /\ u = <<x, i>>
           /\ Total(f) = Cardinality(Parts(f))
<1>1. ASSUME NEW x \in DOMAIN f, NEW i \in 1 .. f[x]
      PROVE  <<x, i>> \in Parts(f)
    <2>1. <<x, i>> \in {x} \X (1 .. f[x])
        BY <1>1
    <2> QED
        BY <2>1 DEF Parts
<1>2. ASSUME NEW u \in Parts(f)
      PROVE  \E x \in DOMAIN f, i \in Int : i \in 1 .. f[x] /\ u = <<x, i>>
    <2>1. PICK x \in DOMAIN f : u \in {x} \X (1 .. f[x])
        BY <1>2 DEF Parts
    <2> QED
        BY <2>1
<1> QED
    BY <1>1, <1>2 DEF Total, Parts

\* A sum of natural numbers is one.
LEMMA TotalNat ==
    ASSUME NEW f, NEW S, Numbers(f, S)
    PROVE  IsFiniteSet(Parts(f)) /\ Total(f) \in Nat
<1>1. PICK T : T = {{x} \X (1 .. f[x]) : x \in S}
    OBVIOUS
<1>2. IsFiniteSet(T)
    <2>1. PICK g : g = [x \in S |-> {x} \X (1 .. f[x])]
        OBVIOUS
    <2>2. g \in [S -> T] /\ \A t \in T : \E x \in S : g[x] = t
        BY <1>1, <2>1
    <2>3. g \in Surjection(S, T)
        BY <2>2, Fun_IsSurj
    <2> QED
        BY <2>3, FS_Surjection DEF Numbers
<1>3. \A U \in T : IsFiniteSet(U)
    <2>1. ASSUME NEW x \in S PROVE IsFiniteSet({x} \X (1 .. f[x]))
        <3>1. f[x] \in Int /\ 1 \in Int
            BY <2>1 DEF Numbers
        <3>2. IsFiniteSet(1 .. f[x])
            BY <3>1, FS_Interval
        <3>3. IsFiniteSet({x})
            BY FS_Singleton
        <3> QED
            BY <3>2, <3>3, FS_Product
    <2> QED
        BY <1>1, <2>1
<1>4. IsFiniteSet(Parts(f))
    <2>1. Parts(f) = UNION T
        BY <1>1 DEF Parts, Numbers
    <2> QED
        BY <1>2, <1>3, <2>1, FS_UNION
<1> QED
    BY <1>4, PartsFacts, FS_CardinalityType

\* The members of S have other names in T.
Renames(f, S, g, T, b) ==
    /\ Numbers(f, S) /\ DOMAIN g = T /\ b \in [S -> T]
    /\ \A x, y \in S : b[x] = b[y] => x = y
    /\ \A t \in T : \E x \in S : b[x] = t
    /\ \A x \in S : g[b[x]] = f[x]

\* The same numbers under other names.
LEMMA TotalRenamed ==
    ASSUME NEW f, NEW S, NEW g, NEW T, NEW b, Renames(f, S, g, T, b)
    PROVE  Total(g) = Total(f)
<1> USE DEF Renames
<1>1. PICK h : h = [u \in Parts(f) |-> <<b[u[1]], u[2]>>]
    OBVIOUS
<1>2. ASSUME NEW u \in Parts(f)
      PROVE  /\ \E x \in S, i \in Int : i \in 1 .. f[x] /\ u = <<x, i>> /\ h[u] = <<b[x], i>>
             /\ h[u] \in Parts(g)
    <2>1. PICK x \in S, i \in Int : i \in 1 .. f[x] /\ u = <<x, i>>
        BY <1>2, PartsFacts DEF Numbers
    <2>2. h[u] = <<b[x], i>>
        BY <1>1, <1>2, <2>1
    <2>3. b[x] \in DOMAIN g /\ i \in 1 .. g[b[x]]
        BY <2>1
    <2> QED
        BY <2>1, <2>2, <2>3, PartsFacts
<1>3. h \in [Parts(f) -> Parts(g)]
    BY <1>1, <1>2
<1>4. ASSUME NEW u \in Parts(f), NEW v \in Parts(f), h[u] = h[v]
      PROVE  u = v
    <2>1. PICK x \in S, i \in Int : i \in 1 .. f[x] /\ u = <<x, i>> /\ h[u] = <<b[x], i>>
        BY <1>2, <1>4
    <2>2. PICK y \in S, j \in Int : j \in 1 .. f[y] /\ v = <<y, j>> /\ h[v] = <<b[y], j>>
        BY <1>2, <1>4
    <2>3. b[x] = b[y] /\ i = j
        BY <1>4, <2>1, <2>2
    <2>4. x = y
        BY <2>1, <2>2, <2>3
    <2> QED
        BY <2>1, <2>2, <2>3, <2>4
<1>5. ASSUME NEW v \in Parts(g) PROVE \E u \in Parts(f) : h[u] = v
    <2>1. PICK y \in T, i \in Int : i \in 1 .. g[y] /\ v = <<y, i>>
        BY <1>5, PartsFacts
    <2>2. PICK x \in S : b[x] = y
        BY <2>1
    <2>3. <<x, i>> \in Parts(f)
        BY <2>1, <2>2, PartsFacts DEF Numbers
    <2> QED
        BY <1>1, <2>1, <2>2, <2>3
<1>6. h \in Bijection(Parts(f), Parts(g))
    BY <1>3, <1>4, <1>5, Fun_IsBij
<1>7. ExistsBijection(Parts(f), Parts(g))
    BY <1>6, Fun_ExistsBij
<1>8. IsFiniteSet(Parts(f))
    BY TotalNat
<1> QED
    BY <1>7, <1>8, FS_Bijection, PartsFacts

\* A sum and one more number.
LEMMA TotalRest ==
    ASSUME NEW f, NEW S, Numbers(f, S), NEW g, NEW T, DOMAIN g = T, NEW z,
           S = T \cup {z}, z \notin T, \A x \in T : g[x] = f[x]
    PROVE  Numbers(g, T) /\ Total(f) = Total(g) + f[z]
<1>1. Numbers(g, T)
    <2>1. IsFiniteSet(T)
        BY FS_Subset DEF Numbers
    <2> QED
        BY <2>1 DEF Numbers
<1>2. PICK Z : Z = {z} \X (1 .. f[z])
    OBVIOUS
<1>3. IsFiniteSet(Z) /\ Cardinality(Z) = f[z]
    <2>1. f[z] \in Nat
        BY DEF Numbers
    <2>2. IsFiniteSet(1 .. f[z]) /\ Cardinality(1 .. f[z]) = f[z]
        <3>1. 1 \in Int /\ f[z] \in Int
            BY <2>1
        <3>2. /\ IsFiniteSet(1 .. f[z])
              /\ Cardinality(1 .. f[z]) = IF 1 > f[z] THEN 0 ELSE f[z] - 1 + 1
            BY <3>1, FS_Interval
        <3> QED
            BY <2>1, <3>2
    <2>3. IsFiniteSet({z}) /\ Cardinality({z}) = 1
        BY FS_Singleton
    <2> QED
        BY <1>2, <2>1, <2>2, <2>3, FS_Product
<1>4. Parts(f) = Parts(g) \cup Z
    <2>1. ASSUME NEW u \in Parts(f) PROVE u \in Parts(g) \cup Z
        <3>1. PICK x \in S, i \in Int : i \in 1 .. f[x] /\ u = <<x, i>>
            BY <2>1, PartsFacts DEF Numbers
        <3>2. CASE x = z
            BY <1>2, <3>1, <3>2
        <3>3. CASE x # z
            <4>1. x \in DOMAIN g /\ i \in 1 .. g[x]
                BY <3>1, <3>3
            <4> QED
                BY <3>1, <4>1, PartsFacts
        <3> QED
            BY <3>2, <3>3
    <2>2. ASSUME NEW u \in Parts(g) PROVE u \in Parts(f)
        <3>1. PICK x \in T, i \in Int : i \in 1 .. g[x] /\ u = <<x, i>>
            BY <2>2, PartsFacts
        <3>2. x \in DOMAIN f /\ i \in 1 .. f[x]
            BY <3>1 DEF Numbers
        <3> QED
            BY <3>1, <3>2, PartsFacts
    <2>3. ASSUME NEW u \in Z PROVE u \in Parts(f)
        <3>1. PICK i \in 1 .. f[z] : u = <<z, i>>
            BY <1>2, <2>3
        <3>2. z \in DOMAIN f
            BY DEF Numbers
        <3> QED
            BY <3>1, <3>2, PartsFacts
    <2> QED
        BY <2>1, <2>2, <2>3
<1>5. Parts(g) \cap Z = {}
    <2>1. SUFFICES ASSUME NEW u \in Parts(g), u \in Z PROVE FALSE
        OBVIOUS
    <2>2. PICK x \in T, i \in Int : i \in 1 .. g[x] /\ u = <<x, i>>
        BY <2>1, PartsFacts
    <2>3. PICK j \in 1 .. f[z] : u = <<z, j>>
        BY <1>2, <2>1
    <2> QED
        BY <2>2, <2>3
<1>6. IsFiniteSet(Parts(g)) /\ Total(g) \in Nat
    BY <1>1, TotalNat
<1>7. f[z] \in Nat
    BY DEF Numbers
<1>8. Cardinality(Parts(f)) = Cardinality(Parts(g)) + Cardinality(Z) - Cardinality({})
    BY <1>3, <1>4, <1>5, <1>6, FS_Union
<1>9. Cardinality({}) = 0
    BY FS_EmptySet
<1> QED
    BY <1>1, <1>3, <1>6, <1>7, <1>8, <1>9, PartsFacts

\* Numbers that are 0 do not count.
LEMMA TotalZero ==
    ASSUME NEW f, NEW S, Numbers(f, S), NEW g, NEW T, DOMAIN g = T, T \subseteq S,
           \A x \in T : g[x] = f[x], \A x \in S : x \notin T => f[x] = 0
    PROVE  Total(g) = Total(f)
<1>1. ASSUME NEW u \in Parts(f) PROVE u \in Parts(g)
    <2>1. PICK x \in S, i \in Int : i \in 1 .. f[x] /\ u = <<x, i>>
        BY <1>1, PartsFacts DEF Numbers
    <2>2. x \in T
        BY <2>1
    <2>3. x \in DOMAIN g /\ i \in 1 .. g[x]
        BY <2>1, <2>2
    <2> QED
        BY <2>1, <2>3, PartsFacts
<1>2. ASSUME NEW u \in Parts(g) PROVE u \in Parts(f)
    <2>1. PICK x \in T, i \in Int : i \in 1 .. g[x] /\ u = <<x, i>>
        BY <1>2, PartsFacts
    <2>2. x \in DOMAIN f /\ i \in 1 .. f[x]
        BY <2>1 DEF Numbers
    <2> QED
        BY <2>1, <2>2, PartsFacts
<1>3. Parts(f) = Parts(g)
    BY <1>1, <1>2
<1> QED
    BY <1>3, PartsFacts

\* A sum of sums.
LEMMA TotalPlus ==
    ASSUME NEW f, NEW g, NEW h, NEW S, Numbers(f, S), Numbers(g, S), Numbers(h, S),
           \A x \in S : f[x] = g[x] + h[x]
    PROVE  Total(f) = Total(g) + Total(h)
<1>1. PICK b : b = [u \in Parts(h) |-> <<u[1], g[u[1]] + u[2]>>]
    OBVIOUS
<1>2. PICK B : B = {b[u] : u \in Parts(h)}
    OBVIOUS
<1>3. ASSUME NEW u \in Parts(h)
      PROVE  \E x \in S, i \in Int : i \in 1 .. h[x] /\ u = <<x, i>> /\ b[u] = <<x, g[x] + i>>
    <2>1. PICK x \in S, i \in Int : i \in 1 .. h[x] /\ u = <<x, i>>
        BY <1>3, PartsFacts DEF Numbers
    <2> QED
        BY <1>1, <1>3, <2>1
<1>4. ASSUME NEW u \in Parts(h), NEW v \in Parts(h), b[u] = b[v]
      PROVE  u = v
    <2>1. PICK x \in S, i \in Int : i \in 1 .. h[x] /\ u = <<x, i>> /\ b[u] = <<x, g[x] + i>>
        BY <1>3, <1>4
    <2>2. PICK y \in S, j \in Int : j \in 1 .. h[y] /\ v = <<y, j>> /\ b[v] = <<y, g[y] + j>>
        BY <1>3, <1>4
    <2>3. x = y /\ g[x] + i = g[x] + j
        BY <1>4, <2>1, <2>2
    <2>4. g[x] \in Nat /\ i \in Int /\ j \in Int
        BY <2>1, <2>2 DEF Numbers
    <2>5. i = j
        BY <2>3, <2>4
    <2> QED
        BY <2>1, <2>2, <2>3, <2>5
<1>5. IsFiniteSet(B) /\ Cardinality(B) = Cardinality(Parts(h))
    <2>1. b \in [Parts(h) -> B] /\ \A t \in B : \E u \in Parts(h) : b[u] = t
        BY <1>1, <1>2
    <2>2. b \in Bijection(Parts(h), B)
        BY <1>4, <2>1, Fun_IsBij
    <2>3. ExistsBijection(Parts(h), B)
        BY <2>2, Fun_ExistsBij
    <2>4. IsFiniteSet(Parts(h))
        BY TotalNat
    <2> QED
        BY <2>3, <2>4, FS_Bijection
<1>6. Parts(f) = Parts(g) \cup B
    <2>1. ASSUME NEW w \in Parts(f) PROVE w \in Parts(g) \cup B
        <3>1. PICK x \in S, i \in Int : i \in 1 .. f[x] /\ w = <<x, i>>
            BY <2>1, PartsFacts DEF Numbers
        <3>2. g[x] \in Nat /\ h[x] \in Nat /\ i \in Int /\ f[x] = g[x] + h[x]
            BY <3>1 DEF Numbers
        <3>3. CASE i <= g[x]
            <4>1. x \in DOMAIN g /\ i \in 1 .. g[x]
                BY <3>1, <3>2, <3>3 DEF Numbers
            <4> QED
                BY <3>1, <4>1, PartsFacts
        <3>4. CASE ~(i <= g[x])
            <4>1. PICK j \in 1 .. h[x] : i = g[x] + j
                <5>1. i - g[x] \in 1 .. h[x] /\ i = g[x] + (i - g[x])
                    BY <3>1, <3>2, <3>4
                <5> QED
                    BY <5>1
            <4>2. PICK u : u = <<x, j>>
                OBVIOUS
            <4>3. u \in Parts(h)
                BY <3>1, <4>1, <4>2, PartsFacts DEF Numbers
            <4>4. b[u] = <<x, g[x] + j>>
                BY <1>1, <4>2, <4>3
            <4> QED
                BY <1>2, <3>1, <4>1, <4>3, <4>4
        <3> QED
            BY <3>3, <3>4
    <2>2. ASSUME NEW w \in Parts(g) PROVE w \in Parts(f)
        <3>1. PICK x \in S, i \in Int : i \in 1 .. g[x] /\ w = <<x, i>>
            BY <2>2, PartsFacts DEF Numbers
        <3>2. g[x] \in Nat /\ h[x] \in Nat /\ f[x] = g[x] + h[x] /\ x \in DOMAIN f
            BY <3>1 DEF Numbers
        <3>3. i \in 1 .. f[x]
            BY <3>1, <3>2
        <3> QED
            BY <3>1, <3>2, <3>3, PartsFacts
    <2>3. ASSUME NEW w \in B PROVE w \in Parts(f)
        <3>1. PICK u \in Parts(h) : w = b[u]
            BY <1>2, <2>3
        <3>2. PICK x \in S, i \in Int : i \in 1 .. h[x] /\ b[u] = <<x, g[x] + i>>
            BY <1>3, <3>1
        <3>3. g[x] \in Nat /\ h[x] \in Nat /\ f[x] = g[x] + h[x] /\ x \in DOMAIN f
            BY <3>2 DEF Numbers
        <3>4. g[x] + i \in 1 .. f[x]
            BY <3>2, <3>3
        <3> QED
            BY <3>1, <3>2, <3>3, <3>4, PartsFacts
    <2> QED
        BY <2>1, <2>2, <2>3
<1>7. Parts(g) \cap B = {}
    <2>1. SUFFICES ASSUME NEW w \in Parts(g), w \in B PROVE FALSE
        OBVIOUS
    <2>2. PICK y \in S, j \in Int : j \in 1 .. g[y] /\ w = <<y, j>>
        BY <2>1, PartsFacts DEF Numbers
    <2>3. PICK u \in Parts(h) : w = b[u]
        BY <1>2, <2>1
    <2>4. PICK x \in S, i \in Int : i \in 1 .. h[x] /\ w = <<x, g[x] + i>>
        BY <1>3, <2>3
    <2>5. x = y /\ g[x] + i = j /\ g[x] \in Nat
        BY <2>2, <2>4 DEF Numbers
    <2>6. i >= 1 /\ j <= g[x] /\ i \in Int /\ j \in Int
        BY <2>2, <2>4, <2>5
    <2> QED
        BY <2>5, <2>6
<1>8. IsFiniteSet(Parts(g)) /\ Total(g) \in Nat /\ Total(h) \in Nat
    BY TotalNat
<1>9. Cardinality(Parts(f)) = Cardinality(Parts(g)) + Cardinality(B) - Cardinality({})
    BY <1>5, <1>6, <1>7, <1>8, FS_Union
<1>10. Cardinality({}) = 0
    BY FS_EmptySet
<1> QED
    BY <1>5, <1>8, <1>9, <1>10, PartsFacts

\* The lengths of the buffers in a queue.
LEMMA QueueNumbers ==
    ASSUME NEW S, NEW q \in Seq(Seq(S))
    PROVE  /\ Numbers([i \in DOMAIN q |-> Len(q[i])], DOMAIN q)
           /\ TotalLength(q) \in Nat
<1>1. PICK f : f = [i \in DOMAIN q |-> Len(q[i])]
    OBVIOUS
<1>2. DOMAIN q = 1 .. Len(q) /\ Len(q) \in Nat
    BY SeqFacts
<1>3. IsFiniteSet(DOMAIN q)
    <2>1. 1 \in Int /\ Len(q) \in Int
        BY <1>2
    <2> QED
        BY <1>2, <2>1, FS_Interval
<1>4. \A i \in DOMAIN q : f[i] \in Nat
    <2>1. TAKE i \in DOMAIN q
    <2>2. q[i] \in Seq(S)
        BY <2>1, SeqFacts
    <2> QED
        BY <1>1, <2>1, <2>2, LenProperties
<1>5. Numbers(f, DOMAIN q)
    BY <1>1, <1>3, <1>4 DEF Numbers
<1> QED
    BY <1>1, <1>5, TotalNat DEF TotalLength

\* An empty queue.
LEMMA LengthNone == TotalLength(<<>>) = 0
<1>1. PICK f : f = [i \in DOMAIN <<>> |-> Len(<<>>[i])]
    OBVIOUS
<1>2. DOMAIN f = {}
    BY <1>1
<1>3. Parts(f) = {}
    BY <1>2 DEF Parts
<1> QED
    BY <1>1, <1>3, PartsFacts, FS_EmptySet DEF TotalLength

\* A queue with a buffer at its end.
LEMMA LengthAppend ==
    ASSUME NEW S, NEW q \in Seq(Seq(S)), NEW e \in Seq(S)
    PROVE  TotalLength(Append(q, e)) = TotalLength(q) + Len(e)
<1>1. PICK r \in Seq(Seq(S)), n \in Nat : r = Append(q, e) /\ n = Len(q)
    BY AppendFacts, SeqFacts
<1>2. /\ DOMAIN r = 1 .. n + 1 /\ DOMAIN q = 1 .. n /\ r[n + 1] = e
      /\ \A i \in 1 .. n : r[i] = q[i]
    BY <1>1, AppendFacts, SeqFacts
<1>3. PICK f, g : /\ f = [i \in DOMAIN r |-> Len(r[i])]
                  /\ g = [i \in DOMAIN q |-> Len(q[i])]
    OBVIOUS
<1>4. Numbers(f, 1 .. n + 1)
    BY <1>2, <1>3, QueueNumbers
<1>5. DOMAIN g = 1 .. n /\ \A i \in 1 .. n : g[i] = f[i]
    <2>1. \A i \in 1 .. n : i \in 1 .. n + 1
        OBVIOUS
    <2> QED
        BY <1>2, <1>3, <2>1
<1>6. 1 .. n + 1 = (1 .. n) \cup {n + 1} /\ n + 1 \notin 1 .. n /\ n + 1 \in 1 .. n + 1
    OBVIOUS
<1>7. Total(f) = Total(g) + f[n + 1]
    <2>1. PICK A, B, z : A = 1 .. n + 1 /\ B = 1 .. n /\ z = n + 1
        OBVIOUS
    <2>2. Numbers(f, A) /\ DOMAIN g = B /\ A = B \cup {z} /\ z \notin B /\ \A i \in B : g[i] = f[i]
        BY <1>4, <1>5, <1>6, <2>1
    <2>3. Total(f) = Total(g) + f[z]
        BY <2>2, TotalRest
    <2> QED
        BY <2>1, <2>3
<1>8. f[n + 1] = Len(e)
    BY <1>2, <1>3, <1>6
<1> QED
    BY <1>1, <1>3, <1>7, <1>8 DEF TotalLength

\* A queue without its first buffer.
LEMMA LengthTail ==
    ASSUME NEW S, NEW q \in Seq(Seq(S)), q # <<>>
    PROVE  TotalLength(q) = TotalLength(Tail(q)) + Len(Head(q))
<1>1. PICK r \in Seq(Seq(S)) : r = Tail(q)
    BY TailFacts
<1>2. PICK n \in Nat : /\ DOMAIN r = 1 .. n /\ DOMAIN q = 1 .. n + 1 /\ Head(q) = q[1]
                       /\ \A i \in 1 .. n : r[i] = q[i + 1]
    <2>1. Len(r) \in Nat /\ DOMAIN r = 1 .. Len(r) /\ DOMAIN q = 1 .. Len(q)
        BY SeqFacts
    <2>2. Len(q) = Len(r) + 1 /\ Head(q) = q[1] /\ \A i \in DOMAIN r : r[i] = q[i + 1]
        BY <1>1, TailFacts
    <2> QED
        BY <2>1, <2>2
<1>3. PICK f, g, h : /\ f = [i \in DOMAIN q |-> Len(q[i])]
                     /\ g = [i \in DOMAIN r |-> Len(r[i])]
                     /\ h = [i \in 2 .. n + 1 |-> Len(q[i])]
    OBVIOUS
<1>4. Numbers(f, 1 .. n + 1) /\ Numbers(g, 1 .. n)
    BY <1>2, <1>3, QueueNumbers
<1>5. 1 .. n + 1 = (2 .. n + 1) \cup {1} /\ 1 \notin 2 .. n + 1 /\ 1 \in 1 .. n + 1
    OBVIOUS
<1>6. \A i \in 2 .. n + 1 : h[i] = f[i]
    BY <1>2, <1>3, <1>5
<1>7. Total(f) = Total(h) + f[1]
    <2>1. PICK A, B : A = 1 .. n + 1 /\ B = 2 .. n + 1
        OBVIOUS
    <2>2. Numbers(f, A) /\ DOMAIN h = B /\ A = B \cup {1} /\ 1 \notin B /\ \A i \in B : h[i] = f[i]
        BY <1>3, <1>4, <1>5, <1>6, <2>1
    <2> QED
        BY <2>2, TotalRest
<1>8. f[1] = Len(Head(q))
    BY <1>2, <1>3, <1>5
<1>9. PICK b : b = [i \in 1 .. n |-> i + 1]
    OBVIOUS
<1>10. b \in [1 .. n -> 2 .. n + 1] /\ \A i, j \in 1 .. n : b[i] = b[j] => i = j
    <2>1. \A i \in 1 .. n : i + 1 \in 2 .. n + 1
        OBVIOUS
    <2>2. \A i, j \in 1 .. n : i + 1 = j + 1 => i = j
        OBVIOUS
    <2> QED
        BY <1>9, <2>1, <2>2
<1>11. \A k \in 2 .. n + 1 : \E i \in 1 .. n : b[i] = k
    <2>1. TAKE k \in 2 .. n + 1
    <2>2. k - 1 \in 1 .. n /\ (k - 1) + 1 = k
        BY <2>1
    <2> QED
        BY <1>9, <2>2
<1>12. \A i \in 1 .. n : h[b[i]] = g[i]
    <2>1. TAKE i \in 1 .. n
    <2>2. i + 1 \in 2 .. n + 1 /\ b[i] = i + 1
        BY <1>9, <2>1
    <2> QED
        BY <1>2, <1>3, <2>1, <2>2
<1>13. Total(h) = Total(g)
    <2>1. PICK A, B : A = 1 .. n /\ B = 2 .. n + 1
        OBVIOUS
    <2>2. Renames(g, A, h, B, b)
        BY <1>3, <1>4, <1>10, <1>11, <1>12, <2>1 DEF Renames
    <2> QED
        BY <2>2, TotalRenamed
<1> QED
    BY <1>1, <1>3, <1>7, <1>8, <1>13 DEF TotalLength
-----------------------------------------------------------------------------
(* The endpoints of one side                                                *)

Proxies == [mux : MuxRec, ep : [Channel -> EpRec]]

\* An endpoint is on the list while it has a descriptor.
Listed(e) == e.st = "open" <=> e.rd \/ e.wr

\* The endpoint e becomes f: what it holds may move on to its program, in order,
\* or be lost when the endpoint can no longer write.
Moves(e, f, c) ==
    /\ f.st = "none" <=> e.st = "none"
    /\ Listed(f)
    /\ f.wr => e.wr
    /\ e.st = "none" => f.wbuf = e.wbuf /\ f.wqueue = e.wqueue
    /\ Live(f) => \A g, d \in Nat :
          Chain(e.wbuf, e.wqueue, c, g, d) => Chain(f.wbuf, f.wqueue, c, g, d)



\* p becomes q by work on the endpoint of c, which gives credit back to the line.
Local(p, q, c) ==
    /\ q \in Proxies
    /\ q = With(p, c, q.ep[c], q.mux.rx_credit - p.mux.rx_credit)
    /\ Moves(p.ep[c], q.ep[c], c)
    /\ q.mux.rx_credit + TotalLength(q.ep[c].wqueue)
          = p.mux.rx_credit + TotalLength(p.ep[c].wqueue)
    /\ q.mux.rx_credit >= p.mux.rx_credit

\* The parts of a proxy.
LEMMA ProxiesFacts ==
    ASSUME NEW p \in Proxies
    PROVE  /\ p.mux \in MuxRec /\ p.ep \in [Channel -> EpRec]
           /\ p.mux.rx_credit \in Nat /\ p.mux.rbuf \in Seq(Unit)
           /\ p.mux.wbuf \in Seq(Unit) /\ p.mux.wqueue \in Seq(Mbuf)
           /\ p = [mux |-> p.mux, ep |-> p.ep]
           /\ \A c \in Channel : p.ep[c] \in EpRec
    BY DEF Proxies, MuxRec

\* One field of the multiplexing endpoint changes.
LEMMA MuxExcept ==
    ASSUME NEW r, NEW n, NEW E, r = [mux |-> n, ep |-> E], NEW w
    PROVE  /\ [r EXCEPT !.mux.rbuf = w] = [mux |-> [n EXCEPT !.rbuf = w], ep |-> E]
           /\ [r EXCEPT !.mux.wqueue = w] = [mux |-> [n EXCEPT !.wqueue = w], ep |-> E]
           /\ [r EXCEPT !.mux.freed = w] = [mux |-> [n EXCEPT !.freed = w], ep |-> E]
    OBVIOUS

\* The parts of an endpoint.
LEMMA EpFacts ==
    ASSUME NEW e \in EpRec
    PROVE  /\ e.wbuf \in Seq(Byte) /\ e.wqueue \in Seq(Seq(Byte))
           /\ e.wr \in BOOLEAN /\ e.rd \in BOOLEAN /\ e.rx_credit \in Nat
           /\ e.st \in {"none", "open", "garbage", "freed"}
           /\ TotalLength(e.wqueue) \in Nat
<1>1. e.wbuf \in Seq(Byte) /\ e.wqueue \in Seq(Seq(Byte))
    BY DEF EpRec
<1>2. e.wr \in BOOLEAN /\ e.rd \in BOOLEAN /\ e.rx_credit \in Nat
    BY DEF EpRec
<1>3. e.st \in {"none", "open", "garbage", "freed"}
    BY DEF EpRec
<1> QED
    BY <1>1, <1>2, <1>3, QueueNumbers

\* The parts of a changed proxy.
LEMMA WithFacts ==
    ASSUME NEW p \in Proxies, NEW c \in Channel, NEW f \in EpRec, NEW k \in Nat
    PROVE  /\ With(p, c, f, k) \in Proxies
           /\ With(p, c, f, k).ep[c] = f
           /\ With(p, c, f, k).mux.rx_credit = p.mux.rx_credit + k
           /\ \A x \in Channel : x # c => With(p, c, f, k).ep[x] = p.ep[x]
<1>1. p.mux.rx_credit + k \in Nat
    BY ProxiesFacts
<1>2. [p.mux EXCEPT !.rx_credit = p.mux.rx_credit + k] \in MuxRec
    BY <1>1, ProxiesFacts DEF MuxRec
<1>3. [p.ep EXCEPT ![c] = f] \in [Channel -> EpRec]
    BY ProxiesFacts
<1>4. [p.ep EXCEPT ![c] = f][c] = f
    BY ProxiesFacts
<1>5. \A x \in Channel : x # c => [p.ep EXCEPT ![c] = f][x] = p.ep[x]
    BY ProxiesFacts
<1>6. [p.mux EXCEPT !.rx_credit = p.mux.rx_credit + k].rx_credit = p.mux.rx_credit + k
    BY ProxiesFacts DEF MuxRec
<1> QED
    BY <1>2, <1>3, <1>4, <1>5, <1>6 DEF With, Proxies

\* An endpoint that moves and gives the credit for what it no longer queues.
LEMMA LocalIntro ==
    ASSUME NEW p \in Proxies, NEW c \in Channel, NEW f \in EpRec, NEW k \in Nat,
           Moves(p.ep[c], f, c), TotalLength(f.wqueue) + k = TotalLength(p.ep[c].wqueue)
    PROVE  Local(p, With(p, c, f, k), c)
<1>1. PICK q : q = With(p, c, f, k)
    OBVIOUS
<1>2. q \in Proxies /\ q.ep[c] = f /\ q.mux.rx_credit = p.mux.rx_credit + k
    BY <1>1, WithFacts
<1>3. PICK m \in Nat, l \in Nat, t \in Nat :
          m = p.mux.rx_credit /\ l = TotalLength(f.wqueue) /\ t = TotalLength(p.ep[c].wqueue)
    BY ProxiesFacts, EpFacts
<1>4. (m + k) - m = k /\ (m + k) + l = m + t /\ m + k >= m
    BY <1>3
<1> QED
    BY <1>1, <1>2, <1>3, <1>4 DEF Local

\* Changes of the same endpoint add up.
LEMMA LocalTrans ==
    ASSUME NEW p \in Proxies, NEW q, NEW r, NEW c \in Channel, Local(p, q, c), Local(q, r, c)
    PROVE  Local(p, r, c)
<1>1. /\ q \in Proxies /\ r \in Proxies
      /\ q = With(p, c, q.ep[c], q.mux.rx_credit - p.mux.rx_credit)
      /\ r = With(q, c, r.ep[c], r.mux.rx_credit - q.mux.rx_credit)
    BY DEF Local
<1>2. PICK i \in Nat, j \in Nat, k \in Nat, t \in Nat, u \in Nat, v \in Nat :
          /\ i = p.mux.rx_credit /\ j = q.mux.rx_credit /\ k = r.mux.rx_credit
          /\ t = TotalLength(p.ep[c].wqueue) /\ u = TotalLength(q.ep[c].wqueue)
          /\ v = TotalLength(r.ep[c].wqueue)
    BY <1>1, ProxiesFacts, EpFacts
<1>3. j + u = i + t /\ k + v = j + u /\ j >= i /\ k >= j
    BY <1>2 DEF Local
<1>4. i + (k - i) = k /\ i + (j - i) = j /\ j + (k - j) = k /\ k + v = i + t /\ k >= i
    BY <1>2, <1>3
<1>5. Moves(p.ep[c], r.ep[c], c)
    BY DEF Local, Moves, Live
<1>6. /\ q.mux = [p.mux EXCEPT !.rx_credit = j] /\ q.ep = [p.ep EXCEPT ![c] = q.ep[c]]
      /\ r.mux = [q.mux EXCEPT !.rx_credit = k] /\ r.ep = [q.ep EXCEPT ![c] = r.ep[c]]
    BY <1>1, <1>2, <1>4, ProxiesFacts DEF With
<1>7. r.mux = [p.mux EXCEPT !.rx_credit = k]
    BY <1>1, <1>6, ProxiesFacts DEF MuxRec
<1>8. r.ep = [p.ep EXCEPT ![c] = r.ep[c]]
    BY <1>1, <1>6, ProxiesFacts
<1>9. r = With(p, c, r.ep[c], k - i)
    BY <1>1, <1>2, <1>4, <1>7, <1>8, ProxiesFacts DEF With
<1> QED
    BY <1>1, <1>2, <1>4, <1>5, <1>9 DEF Local

\* No work is done.
LEMMA LocalSame ==
    ASSUME NEW p \in Proxies, NEW c \in Channel, Listed(p.ep[c])
    PROVE  Local(p, p, c)
<1>1. PICK m \in Nat, t \in Nat : m = p.mux.rx_credit /\ t = TotalLength(p.ep[c].wqueue)
    BY ProxiesFacts, EpFacts
<1>2. m - m = 0 /\ m + 0 = m /\ m >= m
    BY <1>1
<1>3. [p.mux EXCEPT !.rx_credit = m] = p.mux
    BY <1>1, ProxiesFacts DEF MuxRec
<1>4. [p.ep EXCEPT ![c] = p.ep[c]] = p.ep
    BY ProxiesFacts
<1>5. p = With(p, c, p.ep[c], p.mux.rx_credit - p.mux.rx_credit)
    BY <1>1, <1>2, <1>3, <1>4, ProxiesFacts DEF With
<1>6. Moves(p.ep[c], p.ep[c], c)
    BY DEF Moves
<1> QED
    BY <1>1, <1>2, <1>5, <1>6 DEF Local
\* io_endpoint_pullup: the credit is given back for what is fetched.
LEMMA LocalPullup ==
    ASSUME NEW p \in Proxies, NEW c \in Channel, Listed(p.ep[c]), p.ep[c].st = "open"
    PROVE  /\ Local(p, Pullup(p, c), c)
           /\ Pullup(p, c).ep[c].st = "open"
<1>1. PICK e \in EpRec : e = p.ep[c]
    BY ProxiesFacts
<1>2. CASE e.wbuf # <<>> \/ e.wqueue = <<>>
    <2>1. Pullup(p, c) = p
        BY <1>1, <1>2 DEF Pullup
    <2> QED
        BY <2>1, LocalSame
<1>3. CASE e.wbuf = <<>> /\ e.wqueue # <<>>
    <2>1. PICK h \in Seq(Byte), t \in Seq(Seq(Byte)) : h = Head(e.wqueue) /\ t = Tail(e.wqueue)
        BY <1>3, EpFacts, TailFacts
    <2>2. PICK f \in EpRec : f = [e EXCEPT !.wbuf = h, !.wqueue = t]
        BY <2>1 DEF EpRec
    <2>3. /\ f.st = e.st /\ f.rd = e.rd /\ f.wr = e.wr /\ f.wbuf = h /\ f.wqueue = t
        BY <2>2 DEF EpRec
    <2>4. Len(h) \in Nat
        BY SeqFacts
    <2>5. Pullup(p, c) = With(p, c, f, Len(h))
        BY <1>1, <1>3, <2>1, <2>2 DEF Pullup
    <2>6. TotalLength(f.wqueue) + Len(h) = TotalLength(e.wqueue)
        BY <1>3, <2>1, <2>3, EpFacts, LengthTail
    <2>7. \A g, d \in Nat : Chain(e.wbuf, e.wqueue, c, g, d) => Chain(f.wbuf, f.wqueue, c, g, d)
        BY <1>3, <2>1, <2>3, EpFacts, ChainPullup
    <2>8. Moves(e, f, c)
        BY <1>1, <2>3, <2>7 DEF Moves, Listed
    <2> QED
        BY <1>1, <2>3, <2>4, <2>5, <2>6, <2>8, LocalIntro, WithFacts, SMTT(40)
<1> QED
    BY <1>2, <1>3

\* An endpoint that was opened may lose its descriptors, and what it holds with
\* the one it writes to.
LEMMA MovesClosed ==
    ASSUME NEW e \in EpRec, NEW f \in EpRec, NEW c, e.st # "none", f.st # "none", Listed(f),
           f.wr => e.wr /\ f.wbuf = e.wbuf /\ f.wqueue = e.wqueue
    PROVE  Moves(e, f, c)
    BY DEF Moves, Live

\* An endpoint without descriptors is not on the list.
LEMMA SettledFacts ==
    ASSUME NEW e \in EpRec, e.st = "open"
    PROVE  /\ Settled(e) \in EpRec /\ Listed(Settled(e)) /\ Settled(e).st # "none"
           /\ Settled(e).wr = e.wr /\ Settled(e).rd = e.rd
           /\ Settled(e).wbuf = e.wbuf /\ Settled(e).wqueue = e.wqueue
    BY DEF Settled, EpRec, Listed

\* The same endpoint with other credit or flags.
LEMMA LocalSettled ==
    ASSUME NEW p \in Proxies, NEW c \in Channel, p.ep[c].st = "open",
           NEW f \in EpRec, f.st = "open", f.wr = p.ep[c].wr,
           f.wbuf = p.ep[c].wbuf, f.wqueue = p.ep[c].wqueue
    PROVE  /\ Local(p, With(p, c, Settled(f), 0), c)
           /\ Listed(f) => Local(p, With(p, c, f, 0), c)
<1>1. PICK e \in EpRec : e = p.ep[c]
    BY ProxiesFacts
<1>2. Moves(e, Settled(f), c) /\ (Listed(f) => Moves(e, f, c))
    BY <1>1, MovesClosed, SettledFacts
<1>3. TotalLength(f.wqueue) + 0 = TotalLength(e.wqueue)
    BY <1>1, EpFacts
<1> QED
    BY <1>1, <1>2, <1>3, LocalIntro, SettledFacts

\* An endpoint without its descriptor for reading.
LEMMA LocalShutdownRead ==
    ASSUME NEW p \in Proxies, NEW c \in Channel, Listed(p.ep[c]), p.ep[c].st = "open"
    PROVE  /\ Local(p, ShutdownRead(p, c), c)
           /\ ShutdownRead(p, c).ep[c].st # "none"
           /\ ShutdownRead(p, c).mux = p.mux
<1>1. PICK e \in EpRec : e = p.ep[c]
    BY ProxiesFacts
<1>2. PICK f \in EpRec : f = [e EXCEPT !.rd = FALSE]
    BY DEF EpRec
<1>3. f.wr = e.wr /\ f.wbuf = e.wbuf /\ f.wqueue = e.wqueue /\ f.st = e.st
    BY <1>2 DEF EpRec
<1>4. ShutdownRead(p, c) = With(p, c, Settled(f), 0)
    BY <1>1, <1>2 DEF ShutdownRead
<1>5. Local(p, With(p, c, Settled(f), 0), c)
    BY <1>1, <1>3, LocalSettled
<1>6. With(p, c, Settled(f), 0).mux = p.mux
    BY ProxiesFacts DEF With, MuxRec
<1> QED
    BY <1>1, <1>3, <1>4, <1>5, <1>6, SettledFacts, WithFacts

\* What is discarded was all that was queued.
LEMMA DiscardedFacts ==
    ASSUME NEW e \in EpRec
    PROVE  /\ Discarded(e) \in EpRec /\ Discarded(e).wr = e.wr /\ Discarded(e).rd = e.rd
           /\ Discarded(e).st = e.st /\ Discarded(e).wbuf = <<>> /\ Discarded(e).wqueue = <<>>
           /\ TotalLength(Discarded(e).wqueue) + TotalLength(e.wqueue) = TotalLength(e.wqueue)
<1>1. <<>> \in Seq(Byte) /\ <<>> \in Seq(Seq(Byte))
    BY EmptySeq
<1>2. /\ Discarded(e) \in EpRec /\ Discarded(e).wr = e.wr /\ Discarded(e).rd = e.rd
      /\ Discarded(e).st = e.st /\ Discarded(e).wbuf = <<>> /\ Discarded(e).wqueue = <<>>
    BY <1>1 DEF Discarded, EpRec
<1>3. PICK k \in Nat : k = TotalLength(e.wqueue)
    BY EpFacts
<1>4. 0 + k = k
    OBVIOUS
<1> QED
    BY <1>2, <1>3, <1>4, LengthNone

\* An endpoint without its descriptor for writing, and what it would have written.
LEMMA LocalShutdownWrite ==
    ASSUME NEW p \in Proxies, NEW c \in Channel, Listed(p.ep[c]), p.ep[c].st # "none"
    PROVE  Local(p, ShutdownWrite(p, c), c)
<1>1. PICK e \in EpRec : e = p.ep[c]
    BY ProxiesFacts
<1>2. CASE ~e.wr
    BY <1>1, <1>2, LocalSame DEF ShutdownWrite
<1>3. CASE e.wr
    <2>1. PICK f \in EpRec : f = [Discarded(e) EXCEPT !.wr = FALSE]
        BY DiscardedFacts, ZenonT(60) DEF EpRec
    <2>2. /\ f.rd = e.rd /\ f.wr = FALSE /\ f.wbuf = <<>> /\ f.wqueue = <<>> /\ f.st = "open"
        BY <1>1, <1>3, <2>1, DiscardedFacts DEF EpRec, Listed
    <2>3. PICK g \in EpRec : g = Settled(f) /\ g.wqueue = <<>> /\ ~g.wr /\ Listed(g) /\ g.st # "none"
        BY <2>2, SettledFacts
    <2>4. PICK k \in Nat : k = TotalLength(e.wqueue)
        BY EpFacts
    <2>5. ShutdownWrite(p, c) = With(p, c, g, k)
        BY <1>1, <1>3, <2>1, <2>3, <2>4 DEF ShutdownWrite
    <2>6. Moves(e, g, c)
        BY <1>1, <2>3, MovesClosed
    <2>7. TotalLength(g.wqueue) + k = TotalLength(e.wqueue)
        BY <2>3, <2>4, LengthNone
    <2> QED
        BY <1>1, <2>5, <2>6, <2>7, LocalIntro
<1> QED
    BY <1>2, <1>3

\* The other side has closed the channel.
LEMMA LocalHalfclose ==
    ASSUME NEW p \in Proxies, NEW c \in Channel, Listed(p.ep[c]), p.ep[c].st = "open"
    PROVE  Local(p, halfclose(p, c), c)
<1>1. PICK q : q = Pullup(p, c)
    OBVIOUS
<1>2. Local(p, q, c) /\ q.ep[c].st = "open" /\ q \in Proxies /\ Listed(q.ep[c])
    BY <1>1, LocalPullup DEF Local, Moves
<1>3. PICK e \in EpRec : e = q.ep[c]
    BY <1>2, ProxiesFacts
<1>4. PICK f \in EpRec : f = [e EXCEPT !.shutdown_write = TRUE]
    BY DEF EpRec
<1>5. f.wr = e.wr /\ f.rd = e.rd /\ f.wbuf = e.wbuf /\ f.wqueue = e.wqueue /\ f.st = e.st
    BY <1>4 DEF EpRec
<1>6. PICK r : r = With(q, c, f, 0)
    OBVIOUS
<1>7. Listed(f)
    BY <1>2, <1>3, <1>5 DEF Listed
<1>8. Local(q, r, c) /\ r.ep[c] = f /\ r \in Proxies
    BY <1>2, <1>3, <1>5, <1>6, <1>7, LocalSettled, WithFacts
<1>9. PICK t : t = ShutdownRead(r, c)
    OBVIOUS
<1>10. Local(r, t, c) /\ t.ep[c].st # "none"
    BY <1>2, <1>3, <1>5, <1>7, <1>8, <1>9, LocalShutdownRead
<1>11. t \in Proxies /\ Listed(t.ep[c])
    BY <1>10 DEF Local, Moves
<1>12. Local(t, ShutdownWrite(t, c), c)
    BY <1>10, <1>11, LocalShutdownWrite
<1>13. Local(p, r, c)
    BY <1>2, <1>8, LocalTrans
<1>14. Local(p, t, c)
    BY <1>8, <1>10, <1>13, LocalTrans
<1>15. Local(p, ShutdownWrite(t, c), c)
    BY <1>12, <1>14, LocalTrans
<1> QED
    BY <1>1, <1>3, <1>4, <1>6, <1>9, <1>14, <1>15 DEF halfclose

\* The loop comes to the endpoint.
LEMMA LocalPrepare ==
    ASSUME NEW p \in Proxies, NEW c \in Channel, Listed(p.ep[c]), p.ep[c].st = "open"
    PROVE  Local(p, PrepareChannel(p, c), c)
    BY LocalSame, LocalPullup, LocalShutdownWrite DEF PrepareChannel

\* The loop frees the endpoint.
LEMMA LocalFree ==
    ASSUME NEW p \in Proxies, NEW c \in Channel, Listed(p.ep[c]), p.ep[c].st = "garbage"
    PROVE  Local(p, With(p, c, [Discarded(p.ep[c]) EXCEPT !.st = "freed"],
                         TotalLength(p.ep[c].wqueue)), c)
<1>1. PICK e \in EpRec : e = p.ep[c]
    BY ProxiesFacts
<1>2. PICK f \in EpRec : f = [Discarded(e) EXCEPT !.st = "freed"]
    BY DiscardedFacts DEF EpRec
<1>3. f.rd = e.rd /\ f.wr = e.wr /\ f.wqueue = <<>> /\ f.st = "freed"
    BY <1>2, DiscardedFacts DEF EpRec
<1>4. ~e.rd /\ ~e.wr
    BY <1>1 DEF Listed
<1>5. Moves(e, f, c)
    BY <1>1, <1>3, <1>4, MovesClosed DEF Listed
<1>6. PICK k \in Nat : k = TotalLength(e.wqueue)
    BY EpFacts
<1>7. TotalLength(f.wqueue) + k = TotalLength(e.wqueue)
    BY <1>3, <1>6, LengthNone
<1> QED
    BY <1>1, <1>2, <1>5, <1>6, <1>7, LocalIntro
\* The lengths of the queues of all channels.
Lengths(p) == [c \in Channel |-> TotalLength(p.ep[c].wqueue)]

\* The credit of the line and of what is queued.
Credit(p) == p.mux.rx_credit + Total(Lengths(p))

\* p becomes q by work on several endpoints.
Walks(p, q) ==
    /\ q \in Proxies
    /\ q.mux = [p.mux EXCEPT !.rx_credit = q.mux.rx_credit]
    /\ \A c \in Channel : Moves(p.ep[c], q.ep[c], c)
    /\ Credit(q) = Credit(p)

\* The queues have a length each.
LEMMA LengthsNumbers ==
    ASSUME NEW p \in Proxies
    PROVE  /\ Numbers(Lengths(p), Channel) /\ Total(Lengths(p)) \in Nat
           /\ \A c \in Channel : Lengths(p)[c] = TotalLength(p.ep[c].wqueue)
<1>1. IsFiniteSet(Channel)
    <2>1. 1 \in Int /\ MaxChannel \in Int
        BY ProxyAssumption
    <2> QED
        BY <2>1, FS_Interval DEF Channel
<1>2. \A c \in Channel : Lengths(p)[c] = TotalLength(p.ep[c].wqueue) /\ Lengths(p)[c] \in Nat
    BY ProxiesFacts, EpFacts DEF Lengths
<1>3. Numbers(Lengths(p), Channel)
    BY <1>1, <1>2 DEF Numbers, Lengths
<1> QED
    BY <1>2, <1>3, TotalNat

\* Work is done on each of the endpoints in V, as on p, and gives back credit k.
Visits(p, V, r, k) ==
    /\ V \subseteq Channel /\ \A c \in V : Local(p, r[c], c)
    /\ k = [c \in V |-> r[c].mux.rx_credit - p.mux.rx_credit]

\* That is work on all.
LEMMA WalkOver ==
    ASSUME NEW p \in Proxies, \A c \in Channel : Listed(p.ep[c]),
           NEW V, NEW r, NEW k, Visits(p, V, r, k)
    PROVE  Walks(p, [mux |-> [p.mux EXCEPT !.rx_credit = @ + Total(k)],
                     ep |-> [c \in Channel |-> IF c \in V THEN r[c].ep[c] ELSE p.ep[c]]])
<1> USE DEF Visits
<1>1. PICK q : q = [mux |-> [p.mux EXCEPT !.rx_credit = @ + Total(k)],
                    ep |-> [c \in Channel |-> IF c \in V THEN r[c].ep[c] ELSE p.ep[c]]]
    OBVIOUS
<1>2. \A c \in V : /\ r[c] \in Proxies /\ k[c] \in Nat
                   /\ TotalLength(r[c].ep[c].wqueue) \in Nat
                   /\ TotalLength(p.ep[c].wqueue) = TotalLength(r[c].ep[c].wqueue) + k[c]
    <2>1. TAKE c \in V
    <2>2. /\ r[c] \in Proxies /\ r[c].mux.rx_credit >= p.mux.rx_credit
          /\ r[c].mux.rx_credit + TotalLength(r[c].ep[c].wqueue)
                = p.mux.rx_credit + TotalLength(p.ep[c].wqueue)
        BY <2>1 DEF Local
    <2>3. PICK i \in Nat, j \in Nat, t \in Nat, u \in Nat :
              /\ i = p.mux.rx_credit /\ j = r[c].mux.rx_credit
              /\ t = TotalLength(p.ep[c].wqueue) /\ u = TotalLength(r[c].ep[c].wqueue)
        BY <2>1, <2>2, ProxiesFacts, EpFacts
    <2>4. j - i \in Nat /\ t = u + (j - i)
        BY <2>2, <2>3
    <2> QED
        BY <2>1, <2>2, <2>3, <2>4
<1>3. q.ep \in [Channel -> EpRec]
    BY <1>1, <1>2, ProxiesFacts
<1>4. PICK h : h = [c \in Channel |-> IF c \in V THEN k[c] ELSE 0]
    OBVIOUS
<1>5. Numbers(h, Channel)
    BY <1>2, <1>4, LengthsNumbers DEF Numbers
<1>6. Total(k) = Total(h) /\ Total(h) \in Nat
    <2>1. DOMAIN k = V /\ (\A x \in V : k[x] = h[x]) /\ \A x \in Channel : x \notin V => h[x] = 0
        BY <1>4
    <2>2. Total(k) = Total(h)
        BY <1>5, <2>1, TotalZero
    <2> QED
        BY <1>5, <2>2, TotalNat
<1>7. PICK m \in Nat, n \in Nat : m = p.mux.rx_credit /\ n = Total(k)
    BY <1>6, ProxiesFacts
<1>8. q.mux = [p.mux EXCEPT !.rx_credit = m + n] /\ q.mux \in MuxRec /\ q.mux.rx_credit = m + n
    <2>1. q.mux = [p.mux EXCEPT !.rx_credit = m + n] /\ m + n \in Nat
        BY <1>1, <1>7
    <2> QED
        BY <2>1, ProxiesFacts DEF MuxRec
<1>9. q \in Proxies
    BY <1>1, <1>3, <1>8 DEF Proxies
<1>10. \A c \in Channel : Moves(p.ep[c], q.ep[c], c)
    <2>1. TAKE c \in Channel
    <2>2. CASE c \in V
        BY <1>1, <2>1, <2>2 DEF Local
    <2>3. CASE c \notin V
        <3>1. q.ep[c] = p.ep[c]
            BY <1>1, <2>1, <2>3
        <3> QED
            BY <2>1, <3>1 DEF Moves
    <2> QED
        BY <2>2, <2>3
<1>11. Total(Lengths(p)) = Total(Lengths(q)) + Total(h)
    <2>1. \A c \in Channel : Lengths(p)[c] = Lengths(q)[c] + h[c]
        <3>1. TAKE c \in Channel
        <3>2. CASE c \in V
            <4>1. q.ep[c] = r[c].ep[c] /\ h[c] = k[c]
                BY <1>1, <1>4, <3>1, <3>2
            <4> QED
                BY <1>2, <1>9, <3>1, <3>2, <4>1, LengthsNumbers
        <3>3. CASE c \notin V
            <4>1. q.ep[c] = p.ep[c] /\ h[c] = 0
                BY <1>1, <1>4, <3>1, <3>3
            <4>2. Lengths(p)[c] = Lengths(q)[c] /\ Lengths(q)[c] \in Nat
                BY <1>9, <3>1, <4>1, LengthsNumbers DEF Numbers
            <4> QED
                BY <4>1, <4>2
        <3> QED
            BY <3>2, <3>3
    <2> QED
        BY <1>5, <1>9, <2>1, LengthsNumbers, TotalPlus
<1>12. Credit(q) = Credit(p)
    <2>1. PICK a \in Nat : a = Total(Lengths(q))
        BY <1>9, LengthsNumbers
    <2>2. m + n + a = m + (a + n)
        BY <1>7, <2>1
    <2> QED
        BY <1>6, <1>7, <1>8, <1>11, <2>1, <2>2 DEF Credit
<1> QED
    BY <1>1, <1>8, <1>9, <1>10, <1>12 DEF Walks

\* The walk over the list, with any body that works on one endpoint.
LEMMA WalkBody ==
    ASSUME NEW p \in Proxies, \A c \in Channel : Listed(p.ep[c]), NEW r,
           \A c \in Channel : p.ep[c].st = "open" => Local(p, r[c], c)
    PROVE  Walks(p, foreach_io_endpoint(p, r))
<1>1. PICK V : V = {c \in Channel :
          /\ p.ep[c].st = "open"
          /\ \A d \in 1 .. c - 1 : ~(p.ep[d].st = "open" /\ r[d].ep[d].st # "open")}
    OBVIOUS
<1>2. PICK k : k = [c \in V |-> r[c].mux.rx_credit - p.mux.rx_credit]
    OBVIOUS
<1>3. Visits(p, V, r, k)
    BY <1>1, <1>2 DEF Visits
<1>4. foreach_io_endpoint(p, r) =
          [mux |-> [p.mux EXCEPT !.rx_credit = @ + Total(k)],
           ep |-> [c \in Channel |-> IF c \in V THEN r[c].ep[c] ELSE p.ep[c]]]
    BY <1>1, <1>2 DEF foreach_io_endpoint
<1> QED
    BY <1>3, <1>4, WalkOver

\* The preparation of poll.
LEMMA WalkPrepare ==
    ASSUME NEW p \in Proxies, \A c \in Channel : Listed(p.ep[c])
    PROVE  Walks(p, foreach_io_endpoint(p, [c \in Channel |-> PrepareChannel(p, c)]))
<1>1. PICK r : r = [c \in Channel |-> PrepareChannel(p, c)]
    OBVIOUS
<1>2. \A c \in Channel : p.ep[c].st = "open" => Local(p, r[c], c)
    BY <1>1, LocalPrepare
<1> QED
    BY <1>1, <1>2, WalkBody

\* The end of the line.
LEMMA WalkHalfclose ==
    ASSUME NEW p \in Proxies, \A c \in Channel : Listed(p.ep[c])
    PROVE  Walks(p, foreach_io_endpoint(p, [c \in Channel |-> halfclose(p, c)]))
<1>1. PICK r : r = [c \in Channel |-> halfclose(p, c)]
    OBVIOUS
<1>2. \A c \in Channel : p.ep[c].st = "open" => Local(p, r[c], c)
    BY <1>1, LocalHalfclose
<1> QED
    BY <1>1, <1>2, WalkBody

\* Endpoints that have become garbage are freed.
LEMMA WalkPurge ==
    ASSUME NEW p \in Proxies, \A c \in Channel : Listed(p.ep[c])
    PROVE  Walks(p, PurgeChannels(p))
<1>1. PICK V : V = {c \in Channel : p.ep[c].st = "garbage"}
    OBVIOUS
<1>2. PICK r, k : /\ r = [c \in V |-> With(p, c, [Discarded(p.ep[c]) EXCEPT !.st = "freed"],
                                           TotalLength(p.ep[c].wqueue))]
                  /\ k = [c \in V |-> r[c].mux.rx_credit - p.mux.rx_credit]
    OBVIOUS
<1>3. Visits(p, V, r, k)
    BY <1>1, <1>2, LocalFree DEF Visits
<1>4. ASSUME NEW c \in V
      PROVE  /\ r[c].ep[c] = [Discarded(p.ep[c]) EXCEPT !.st = "freed"]
             /\ k[c] = TotalLength(p.ep[c].wqueue)
    <2>1. PICK e \in EpRec : e = p.ep[c] /\ c \in Channel
        BY <1>1, <1>4, ProxiesFacts
    <2>2. PICK f \in EpRec : f = [Discarded(e) EXCEPT !.st = "freed"]
        BY DiscardedFacts DEF EpRec
    <2>3. PICK n \in Nat, m \in Nat : n = TotalLength(e.wqueue) /\ m = p.mux.rx_credit
        BY EpFacts, ProxiesFacts
    <2>4. r[c].ep[c] = f /\ r[c].mux.rx_credit = m + n
        BY <1>2, <1>4, <2>1, <2>2, <2>3, WithFacts
    <2>5. (m + n) - m = n
        BY <2>3
    <2> QED
        BY <1>2, <1>4, <2>1, <2>2, <2>3, <2>4, <2>5
<1>5. PurgeChannels(p) = [mux |-> [p.mux EXCEPT !.rx_credit = @ + Total(k)],
                          ep |-> [c \in Channel |-> IF c \in V THEN r[c].ep[c] ELSE p.ep[c]]]
    <2>1. k = [c \in V |-> TotalLength(p.ep[c].wqueue)]
        BY <1>2, <1>4
    <2> QED
        BY <1>1, <1>4, <2>1 DEF PurgeChannels
<1> QED
    BY <1>3, <1>5, WalkOver

\* A walk after a walk.
LEMMA WalkTrans ==
    ASSUME NEW p \in Proxies, NEW q, NEW r, Walks(p, q), Walks(q, r)
    PROVE  Walks(p, r)
<1>1. \A c \in Channel : Moves(p.ep[c], r.ep[c], c)
    BY DEF Walks, Moves, Live
<1>2. r.mux = [p.mux EXCEPT !.rx_credit = r.mux.rx_credit]
    BY ProxiesFacts DEF Walks, MuxRec
<1> QED
    BY <1>1, <1>2 DEF Walks

\* The preparation of all channels.
LEMMA WalkChannels ==
    ASSUME NEW p \in Proxies, \A c \in Channel : Listed(p.ep[c])
    PROVE  Walks(p, PrepareChannels(p))
<1>1. PICK q : q = foreach_io_endpoint(p, [c \in Channel |-> PrepareChannel(p, c)])
    OBVIOUS
<1>2. Walks(p, q)
    BY <1>1, WalkPrepare
<1>3. q \in Proxies /\ \A c \in Channel : Listed(q.ep[c])
    BY <1>2 DEF Walks, Moves
<1>4. Walks(q, PurgeChannels(q))
    BY <1>3, WalkPurge
<1> QED
    BY <1>1, <1>2, <1>4, WalkTrans DEF PrepareChannels
-----------------------------------------------------------------------------
(* The multiplexing endpoint                                                *)

\* What the multiplexing endpoint m has for the line goes on its way, or is lost
\* because writing is shut down.
Conveys(m, n) ==
    /\ (m.freed => ~m.wr) => (n.freed => ~n.wr)
    /\ \/ n.wbuf = m.wbuf /\ n.wqueue = m.wqueue /\ n.wr = m.wr
       \/ /\ m.wr /\ m.wbuf = <<>> /\ m.wqueue # <<>>
          /\ n.wbuf = Head(m.wqueue).data /\ n.wqueue = Tail(m.wqueue) /\ n.wr
       \/ n.wbuf = <<>> /\ n.wqueue = <<>> /\ ~n.wr

\* It takes nothing from the line meanwhile.
Forwards(m, n) == n.rbuf = m.rbuf /\ (n.open => m.open) /\ Conveys(m, n)

\* p becomes q in a round of the loop.
Turns(p, q) ==
    /\ q \in Proxies
    /\ Forwards(p.mux, q.mux)
    /\ \A c \in Channel : Moves(p.ep[c], q.ep[c], c)
    /\ Credit(q) = Credit(p)

\* An endpoint gets credit back.
LEMMA MovesCredit ==
    ASSUME NEW e \in EpRec, Listed(e), NEW n \in Nat, NEW c
    PROVE  /\ [e EXCEPT !.rx_credit = e.rx_credit + n] \in EpRec
           /\ [e EXCEPT !.rx_credit = e.rx_credit + n].wqueue = e.wqueue
           /\ Moves(e, [e EXCEPT !.rx_credit = e.rx_credit + n], c)
<1>1. PICK k \in Nat : k = e.rx_credit + n
    BY EpFacts
<1>2. PICK f \in EpRec : f = [e EXCEPT !.rx_credit = k]
    BY <1>1 DEF EpRec
<1>3. /\ f.rd = e.rd /\ f.wr = e.wr /\ f.wbuf = e.wbuf /\ f.wqueue = e.wqueue /\ f.st = e.st
    BY <1>2 DEF EpRec
<1>4. Moves(e, f, c)
    BY <1>3 DEF Moves, Listed
<1> QED
    BY <1>1, <1>2, <1>3, <1>4

\* The multiplexing endpoint becomes n, and the endpoints become E: some got
\* credit back.
Repaid(p, n, E) ==
    /\ n \in MuxRec /\ Forwards(p.mux, n) /\ n.rx_credit = p.mux.rx_credit
    /\ E = [c \in Channel |-> E[c]]
    /\ \A c \in Channel : \E k \in Nat :
          E[c] = p.ep[c] \/ E[c] = [p.ep[c] EXCEPT !.rx_credit = p.ep[c].rx_credit + k]

\* That is all that may happen in a round.
LEMMA TurnIntro ==
    ASSUME NEW p \in Proxies, \A c \in Channel : Listed(p.ep[c]), NEW n, NEW E, Repaid(p, n, E)
    PROVE  Turns(p, [mux |-> n, ep |-> E])
<1> DEFINE q == [mux |-> n, ep |-> E]
<1>1. \A c \in Channel : /\ q.ep[c] \in EpRec /\ Moves(p.ep[c], q.ep[c], c)
                         /\ q.ep[c].wqueue = p.ep[c].wqueue
    <2>1. TAKE c \in Channel
    <2>2. PICK k \in Nat : \/ q.ep[c] = p.ep[c]
                           \/ q.ep[c] = [p.ep[c] EXCEPT !.rx_credit = p.ep[c].rx_credit + k]
        BY <2>1 DEF Repaid
    <2>3. p.ep[c] \in EpRec /\ Listed(p.ep[c])
        BY <2>1, ProxiesFacts
    <2>4. CASE q.ep[c] = p.ep[c]
        BY <2>3, <2>4 DEF Moves
    <2>5. CASE q.ep[c] = [p.ep[c] EXCEPT !.rx_credit = p.ep[c].rx_credit + k]
        <3>1. PICK e \in EpRec : e = p.ep[c] /\ Listed(e)
            BY <2>3
        <3>2. /\ [e EXCEPT !.rx_credit = e.rx_credit + k] \in EpRec
              /\ [e EXCEPT !.rx_credit = e.rx_credit + k].wqueue = e.wqueue
              /\ Moves(e, [e EXCEPT !.rx_credit = e.rx_credit + k], c)
            BY <3>1, MovesCredit
        <3> QED
            BY <2>5, <3>1, <3>2
    <2> QED
        BY <2>2, <2>4, <2>5
<1>2. q \in Proxies
    <2>1. E \in [Channel -> EpRec]
        BY <1>1 DEF Repaid
    <2> QED
        BY <2>1 DEF Proxies, Repaid
<1>3. Lengths(q) = Lengths(p)
    BY <1>1 DEF Lengths
<1>4. q.mux = n /\ Forwards(p.mux, n) /\ n.rx_credit = p.mux.rx_credit
    BY DEF Repaid
<1> QED
    BY <1>1, <1>2, <1>3, <1>4 DEF Turns, Credit

\* The multiplexing endpoint is shut down for writing.
LEMMA TurnShutdown ==
    ASSUME NEW p \in Proxies, \A c \in Channel : Listed(p.ep[c])
    PROVE  /\ Turns(p, ShutdownMuxWrite(p))
           /\ Turns(p, [ShutdownMuxWrite(p) EXCEPT !.mux.freed = TRUE])
<1>1. PICK w \in Seq(Mbuf) : w = p.mux.wqueue
    BY ProxiesFacts
<1>2. PICK from : from = [c \in Channel |->
          {i \in DOMAIN w : w[i].source # None /\ w[i].source = p.ep[c].addr}]
    OBVIOUS
<1>3. PICK back : back = [c \in Channel |-> Total([i \in from[c] |-> w[i].credit])]
    OBVIOUS
<1>4. ASSUME NEW c \in Channel
      PROVE  back[c] \in Nat
    <2>1. PICK f : f = [i \in from[c] |-> w[i].credit]
        OBVIOUS
    <2>2. from[c] \subseteq DOMAIN w
        BY <1>2, <1>4
    <2>3. IsFiniteSet(DOMAIN w) /\ \A i \in DOMAIN w : w[i].credit \in Nat
        <3>1. DOMAIN w = 1 .. Len(w) /\ Len(w) \in Int /\ 1 \in Int
            BY SeqFacts
        <3>2. \A i \in DOMAIN w : w[i] \in Mbuf
            BY SeqFacts
        <3> QED
            BY <3>1, <3>2, FS_Interval DEF Mbuf
    <2>4. IsFiniteSet(from[c])
        BY <2>2, <2>3, FS_Subset
    <2>5. Numbers(f, from[c])
        BY <2>1, <2>2, <2>3, <2>4 DEF Numbers
    <2> QED
        BY <1>3, <1>4, <2>1, <2>5, TotalNat
<1>5. PICK n \in MuxRec : n = [p.mux EXCEPT !.wr = FALSE, !.wbuf = <<>>, !.wqueue = <<>>]
    <2>1. <<>> \in Seq(Unit) /\ <<>> \in Seq(Mbuf)
        BY EmptySeq
    <2> QED
        BY <2>1, ProxiesFacts DEF MuxRec
<1>6. PICK g \in MuxRec : g = [n EXCEPT !.freed = TRUE]
    BY DEF MuxRec
<1>7. /\ n.wr = FALSE /\ n.wbuf = <<>> /\ n.wqueue = <<>> /\ n.rbuf = p.mux.rbuf
      /\ n.open = p.mux.open /\ n.rx_credit = p.mux.rx_credit
    BY <1>5, ProxiesFacts DEF MuxRec
<1>8. /\ g.wr = FALSE /\ g.wbuf = <<>> /\ g.wqueue = <<>> /\ g.rbuf = p.mux.rbuf
      /\ g.open = p.mux.open /\ g.rx_credit = p.mux.rx_credit
    BY <1>6, <1>7 DEF MuxRec
<1>9. PICK E : E = [c \in Channel |-> IF p.ep[c].st \in {"open", "garbage"}
                                      THEN [p.ep[c] EXCEPT !.rx_credit = @ + back[c]]
                                      ELSE p.ep[c]]
    OBVIOUS
<1>10. ShutdownMuxWrite(p) = [mux |-> n, ep |-> E]
    <2>1. \A c \in Channel : back[c] =
              Total([i \in {i \in DOMAIN w : w[i].source # None /\ w[i].source = p.ep[c].addr}
                     |-> w[i].credit])
        BY <1>2, <1>3
    <2> QED
        BY <1>1, <1>5, <1>9, <2>1, ZenonT(60) DEF ShutdownMuxWrite
<1>11. [ShutdownMuxWrite(p) EXCEPT !.mux.freed = TRUE] = [mux |-> g, ep |-> E]
    <2>1. PICK r : r = ShutdownMuxWrite(p) /\ r = [mux |-> n, ep |-> E]
        BY <1>10
    <2>2. \A v : [r EXCEPT !.mux.freed = v] = [mux |-> [n EXCEPT !.freed = v], ep |-> E]
        BY <2>1, MuxExcept
    <2>3. [r EXCEPT !.mux.freed = TRUE] = [mux |-> [n EXCEPT !.freed = TRUE], ep |-> E]
        BY <2>2, Zenon
    <2> QED
        BY <1>6, <2>1, <2>3
<1>12. \A c \in Channel : \E k \in Nat :
          E[c] = p.ep[c] \/ E[c] = [p.ep[c] EXCEPT !.rx_credit = p.ep[c].rx_credit + k]
    <2>1. TAKE c \in Channel
    <2>2. E[c] = p.ep[c] \/ E[c] = [p.ep[c] EXCEPT !.rx_credit = p.ep[c].rx_credit + back[c]]
        BY <1>9, <2>1
    <2> QED
        BY <1>4, <2>1, <2>2
<1>13. Forwards(p.mux, n) /\ Forwards(p.mux, g)
    BY <1>7, <1>8 DEF Forwards, Conveys
<1>14. Repaid(p, n, E) /\ Repaid(p, g, E)
    <2>1. E = [c \in Channel |-> E[c]]
        BY <1>9
    <2> QED
        BY <1>7, <1>8, <1>12, <1>13, <2>1 DEF Repaid
<1>15. Turns(p, [mux |-> n, ep |-> E]) /\ Turns(p, [mux |-> g, ep |-> E])
    BY <1>14, TurnIntro
<1> QED
    BY <1>10, <1>11, <1>15

\* The preparation of the multiplexing endpoint.
LEMMA TurnMux ==
    ASSUME NEW p \in Proxies, \A c \in Channel : Listed(p.ep[c])
    PROVE  Turns(p, PrepareMux(p))
<1>1. CASE p.mux.wr /\ p.mux.wbuf = <<>> /\ p.mux.wqueue # <<>>
    <2>1. PICK m \in Mbuf, t \in Seq(Mbuf) : m = Head(p.mux.wqueue) /\ t = Tail(p.mux.wqueue)
        BY <1>1, ProxiesFacts, TailFacts
    <2>2. m.data \in Seq(Unit) /\ m.credit \in Nat
        BY DEF Mbuf
    <2>3. PICK n \in MuxRec : n = [p.mux EXCEPT !.wbuf = m.data, !.wqueue = t]
        BY <2>2, ProxiesFacts DEF MuxRec
    <2>4. /\ n.wr = p.mux.wr /\ n.wbuf = m.data /\ n.wqueue = t /\ n.rbuf = p.mux.rbuf
          /\ n.open = p.mux.open /\ n.rx_credit = p.mux.rx_credit /\ n.freed = p.mux.freed
        BY <2>3, ProxiesFacts DEF MuxRec
    <2>5. Forwards(p.mux, n)
        BY <1>1, <2>1, <2>4 DEF Forwards, Conveys
    <2>6. PICK E : E = [c \in Channel |->
              IF m.source # None /\ p.ep[c].addr = m.source /\ p.ep[c].st \in {"open", "garbage"}
              THEN [p.ep[c] EXCEPT !.rx_credit = @ + m.credit] ELSE p.ep[c]]
        OBVIOUS
    <2>7. PrepareMux(p) = [mux |-> n, ep |-> E]
        <3>1. PICK r : r = [mux |-> n, ep |-> p.ep]
            OBVIOUS
        <3>2. r.mux = n /\ r.ep = p.ep /\ [r EXCEPT !.ep = E] = [mux |-> n, ep |-> E]
            BY <3>1
        <3>3. PrepareMux(p) = CreditBack(r, m.source, m.credit)
            BY <1>1, <2>1, <2>3, <3>1 DEF PrepareMux
        <3>4. CreditBack(r, m.source, m.credit) = [r EXCEPT !.ep = E]
            BY <2>6, <3>2 DEF CreditBack
        <3> QED
            BY <3>2, <3>3, <3>4
    <2>8. \A c \in Channel : \E k \in Nat :
              E[c] = p.ep[c] \/ E[c] = [p.ep[c] EXCEPT !.rx_credit = p.ep[c].rx_credit + k]
        <3>1. TAKE c \in Channel
        <3>2. \/ E[c] = p.ep[c]
              \/ E[c] = [p.ep[c] EXCEPT !.rx_credit = p.ep[c].rx_credit + m.credit]
            BY <2>6, <3>1
        <3> QED
            BY <2>2, <3>2
    <2>9. Repaid(p, n, E)
        <3>1. E = [c \in Channel |-> E[c]]
            BY <2>6
        <3> QED
            BY <2>4, <2>5, <2>8, <3>1 DEF Repaid
    <2> QED
        BY <2>7, <2>9, TurnIntro
<1>2. CASE ~(p.mux.wr /\ p.mux.wbuf = <<>> /\ p.mux.wqueue # <<>>) /\ ~p.mux.open /\ ~p.mux.wr
    <2>1. PrepareMux(p) = [ShutdownMuxWrite(p) EXCEPT !.mux.freed = TRUE]
        BY <1>2 DEF PrepareMux
    <2> QED
        BY <2>1, TurnShutdown
<1>3. CASE ~(p.mux.wr /\ p.mux.wbuf = <<>> /\ p.mux.wqueue # <<>>) /\ ~(~p.mux.open /\ ~p.mux.wr)
    <2>1. PrepareMux(p) = p
        BY <1>3 DEF PrepareMux
    <2>2. Turns(p, p)
        BY DEF Turns, Forwards, Conveys, Moves
    <2> QED
        BY <2>1, <2>2
<1> QED
    BY <1>1, <1>2, <1>3

\* The preparation of both, in either order.
LEMMA TurnBoth ==
    ASSUME NEW p \in Proxies, \A c \in Channel : Listed(p.ep[c])
    PROVE  Turns(p, PrepareChannels(PrepareMux(p))) /\ Turns(p, PrepareMux(PrepareChannels(p)))
<1>1. ASSUME NEW q, NEW r, Turns(p, q), Walks(q, r)
      PROVE  Turns(p, r)
    <2>1. \A c \in Channel : Moves(p.ep[c], r.ep[c], c)
        BY <1>1 DEF Turns, Walks, Moves, Live
    <2>2. Forwards(p.mux, r.mux)
        <3>1. /\ r.mux.wbuf = q.mux.wbuf /\ r.mux.wqueue = q.mux.wqueue /\ r.mux.wr = q.mux.wr
              /\ r.mux.freed = q.mux.freed /\ r.mux.rbuf = q.mux.rbuf /\ r.mux.open = q.mux.open
            BY <1>1, ProxiesFacts DEF Turns, Walks, MuxRec
        <3> QED
            BY <1>1, <3>1 DEF Turns, Forwards, Conveys
    <2> QED
        BY <1>1, <2>1, <2>2 DEF Turns, Walks
<1>2. ASSUME NEW q, NEW r, Walks(p, q), Turns(q, r)
      PROVE  Turns(p, r)
    <2>1. \A c \in Channel : Moves(p.ep[c], r.ep[c], c)
        BY <1>2 DEF Turns, Walks, Moves, Live
    <2>2. Forwards(p.mux, r.mux)
        <3>1. /\ q.mux.wbuf = p.mux.wbuf /\ q.mux.wqueue = p.mux.wqueue /\ q.mux.wr = p.mux.wr
              /\ q.mux.freed = p.mux.freed /\ q.mux.rbuf = p.mux.rbuf /\ q.mux.open = p.mux.open
            BY <1>2, ProxiesFacts DEF Turns, Walks, MuxRec
        <3> QED
            BY <1>2, <3>1 DEF Turns, Forwards, Conveys
    <2> QED
        BY <1>2, <2>1, <2>2 DEF Turns, Walks
<1>3. Turns(p, PrepareChannels(PrepareMux(p)))
    <2>1. Turns(p, PrepareMux(p))
        BY TurnMux
    <2>2. PrepareMux(p) \in Proxies /\ \A c \in Channel : Listed(PrepareMux(p).ep[c])
        BY <2>1 DEF Turns, Moves
    <2> QED
        BY <1>1, <2>1, <2>2, WalkChannels
<1>4. Turns(p, PrepareMux(PrepareChannels(p)))
    <2>1. Walks(p, PrepareChannels(p))
        BY WalkChannels
    <2>2. PrepareChannels(p) \in Proxies /\ \A c \in Channel : Listed(PrepareChannels(p).ep[c])
        BY <2>1 DEF Walks, Moves
    <2> QED
        BY <1>2, <2>1, <2>2, TurnMux
<1> QED
    BY <1>3, <1>4
-----------------------------------------------------------------------------
(* The two directions of a step of one side                                 *)

\* A step of side s conveys what was on its way to the other side, o: nothing of
\* side o changes.
Sent(s, o) ==
    /\ ep'[o] = ep[o] /\ mux'[o] = mux[o] /\ sock'[o] = sock[o]
    /\ (Running(o)' => Running(o))
    /\ next_channel_id' \in Int /\ next_channel_id <= next_channel_id'
    /\ o = "guest" => next_channel_id' = next_channel_id
    /\ Framed(Stream(o), mux[s].wr) => Framed(Stream(o)', mux'[s].wr)
    /\ \A c \in Channel :
          /\ \A d \in Nat :
                Flow(Stream(o), mux[s].wqueue, mux[s].wr, c, d, sock[s][c].taken)
                    => Flow(Stream(o)', mux'[s].wqueue, mux'[s].wr, c, d, sock'[s][c].taken)
          /\ Opening(Stream(o), mux[s].wqueue, mux[s].wr, c, ep[o][c].st = "none",
                     o = "host" /\ c < next_channel_id)
                => Opening(Stream(o)', mux'[s].wqueue, mux'[s].wr, c, ep[o][c].st = "none",
                           o = "host" /\ c < next_channel_id')

\* An endpoint e with the program k becomes f with l; what was queued to the
\* program arrives or is lost.
Advances(e, k, f, l, c) ==
    /\ f.st = "none" <=> e.st = "none"
    /\ Listed(f)
    /\ f.wr => e.wr
    /\ e.st = "none" =>
          f.wbuf = e.wbuf /\ f.wqueue = e.wqueue /\ l.got = k.got /\ l.taken = k.taken
    /\ Live(f) => \A d \in Nat : Arrived(e, k.got, c, d) => Arrived(f, l.got, c, d)

\* A step of side s leaves alone what is on its way to it.
Kept(s) ==
    LET o == Other(s) IN
    /\ mux'[o] = mux[o] /\ sock'[o] = sock[o] /\ line'[o] = line[o]
    /\ mux'[s].rbuf = mux[s].rbuf
    /\ (Running(s)' => Running(s))
    /\ next_channel_id' = next_channel_id
    /\ \A c \in Channel : Advances(ep[s][c], sock[s][c], ep'[s][c], sock'[s][c], c)

\* What the invariant says of what is on its way to side s.
Incoming(s) ==
    /\ Running(s) =>
          /\ Framed(Stream(s), mux[Other(s)].wr)
          /\ mux[s].rbuf # <<>> => Len(mux[s].rbuf) <= PacketSize(mux[s].rbuf)
    /\ EndpointInv(s) /\ OpenInv(s) /\ ChannelInv(s)

\* And of the buffers queued to the line.
Outgoing(s) ==
    /\ \A k \in DOMAIN mux[s].wqueue : Packet(mux[s].wqueue[k].data)
    /\ mux[s].freed => ~mux[s].wr

\* The parts of the invariant.
LEMMA InvParts ==
    ProxyInv <=> /\ ProxyTypeOK /\ InOrder /\ CreditAccounted
                 /\ \A s \in Side : Outgoing(s) /\ Incoming(s)
    BY DEF ProxyInv, FrameInv, Outgoing, Incoming

\* The two sides.
LEMMA SideFacts ==
    ASSUME NEW s \in Side
    PROVE  /\ Other(s) \in Side /\ Other(s) # s /\ Other(Other(s)) = s
           /\ \A x \in Side : x = s \/ x = Other(s)
           /\ s = "host" <=> Other(s) = "guest"
    BY DEF Side, Other

\* The side that does not act.
LEMMA IncomingSent ==
    ASSUME ProxyTypeOK, NEW o \in Side, Incoming(o), Sent(Other(o), o)
    PROVE  Incoming(o)'
<1>1. PICK s \in Side : s = Other(o) /\ o = Other(s) /\ o # s
    BY SideFacts
<1>2. /\ ep'[o] = ep[o] /\ mux'[o] = mux[o] /\ sock'[o] = sock[o] /\ (Running(o)' => Running(o))
      /\ next_channel_id' \in Int /\ next_channel_id <= next_channel_id'
      /\ o = "guest" => next_channel_id' = next_channel_id
    BY DEF Sent
<1>3. Running(o)' =>
          /\ Framed(Stream(o), mux[Other(o)].wr)'
          /\ (mux[o].rbuf # <<>> => Len(mux[o].rbuf) <= PacketSize(mux[o].rbuf))'
    BY <1>2 DEF Incoming, Sent
<1>4. EndpointInv(o)'
    <2>1. ASSUME NEW c \in Channel, c < next_channel_id
          PROVE  c < next_channel_id'
        BY <1>2, <2>1 DEF ProxyTypeOK, Channel
    <2>2. ASSUME NEW c \in Channel
          PROVE  /\ ep'[o][c].st = "open" <=> ep'[o][c].rd \/ ep'[o][c].wr
                 /\ ep'[o][c].st = "none" =>
                       /\ ep'[o][c].wbuf = <<>> /\ ep'[o][c].wqueue = <<>>
                       /\ sock'[o][c].got = <<>> /\ sock'[o][c].taken = 0
                 /\ o = "guest" => (ep'[o][c].st = "none" <=> next_channel_id' <= c)
                 /\ ep'[o][c].st # "none" => c < next_channel_id'
        BY <1>2, <2>1, <2>2 DEF Incoming, EndpointInv
    <2> QED
        BY <2>2 DEF EndpointInv
<1>5. OpenInv(o)'
    BY <1>2 DEF Incoming, OpenInv, Sent
<1>6. ChannelInv(o)'
    <2>1. ASSUME NEW c \in Channel, Running(o)', Live(ep'[o][c])
          PROVE  \E d \in Nat :
                     /\ Arrived(ep'[o][c], sock'[o][c].got, c, d)
                     /\ Flow(Stream(o)', mux'[s].wqueue, mux'[s].wr, c, d, sock'[s][c].taken)
        <3>1. PICK d \in Nat :
                  /\ Arrived(ep[o][c], sock[o][c].got, c, d)
                  /\ Flow(Stream(o), mux[s].wqueue, mux[s].wr, c, d, sock[s][c].taken)
            BY <1>1, <1>2, <2>1 DEF Incoming, ChannelInv
        <3>2. Flow(Stream(o)', mux'[s].wqueue, mux'[s].wr, c, d, sock'[s][c].taken)
            BY <1>1, <2>1, <3>1 DEF Sent
        <3> QED
            BY <1>2, <3>1, <3>2
    <2> QED
        BY <1>1, <2>1 DEF ChannelInv
<1> QED
    BY <1>3, <1>4, <1>5, <1>6 DEF Incoming

\* The side that acts, when it takes nothing from the line.
LEMMA IncomingKept ==
    ASSUME ProxyTypeOK, NEW s \in Side, Incoming(s), Kept(s)
    PROVE  Incoming(s)'
<1>1. PICK o \in Side : o = Other(s) /\ s = Other(o) /\ o # s
    BY SideFacts
<1>2. /\ mux'[o] = mux[o] /\ sock'[o] = sock[o] /\ line'[o] = line[o]
      /\ mux'[s].rbuf = mux[s].rbuf /\ (Running(s)' => Running(s))
      /\ next_channel_id' = next_channel_id
      /\ \A c \in Channel : Advances(ep[s][c], sock[s][c], ep'[s][c], sock'[s][c], c)
    BY <1>1 DEF Kept
<1>3. Stream(s)' = Stream(s)
    BY <1>1, <1>2 DEF Stream
<1>4. Running(s)' =>
          /\ Framed(Stream(s)', mux'[o].wr)
          /\ mux'[s].rbuf # <<>> => Len(mux'[s].rbuf) <= PacketSize(mux'[s].rbuf)
    BY <1>1, <1>2, <1>3 DEF Incoming
<1>5. EndpointInv(s)'
    <2>1. ASSUME NEW c \in Channel
          PROVE  /\ ep'[s][c].st = "open" <=> ep'[s][c].rd \/ ep'[s][c].wr
                 /\ ep'[s][c].st = "none" =>
                       /\ ep'[s][c].wbuf = <<>> /\ ep'[s][c].wqueue = <<>>
                       /\ sock'[s][c].got = <<>> /\ sock'[s][c].taken = 0
                 /\ s = "guest" => (ep'[s][c].st = "none" <=> next_channel_id' <= c)
                 /\ ep'[s][c].st # "none" => c < next_channel_id'
        BY <1>2, <2>1 DEF Incoming, EndpointInv, Advances, Listed
    <2> QED
        BY <2>1 DEF EndpointInv
<1>6. OpenInv(s)'
    <2>1. ASSUME NEW c \in Channel
          PROVE  (ep'[s][c].st = "none") = (ep[s][c].st = "none")
        BY <1>2, <2>1 DEF Advances
    <2>2. ASSUME NEW c \in Channel, Running(s)'
          PROVE  Opening(Stream(s)', mux'[o].wqueue, mux'[o].wr, c, ep'[s][c].st = "none",
                         s = "host" /\ c < next_channel_id')
        <3>1. Opening(Stream(s), mux[o].wqueue, mux[o].wr, c, ep[s][c].st = "none",
                      s = "host" /\ c < next_channel_id)
            BY <1>1, <1>2, <2>2 DEF Incoming, OpenInv
        <3> QED
            BY <1>2, <1>3, <2>1, <2>2, <3>1
    <2> QED
        BY <1>1, <2>2 DEF OpenInv
<1>7. ChannelInv(s)'
    <2>1. ASSUME NEW c \in Channel, Running(s)', Live(ep'[s][c])
          PROVE  \E d \in Nat :
                     /\ Arrived(ep'[s][c], sock'[s][c].got, c, d)
                     /\ Flow(Stream(s)', mux'[o].wqueue, mux'[o].wr, c, d, sock'[o][c].taken)
        <3>1. Advances(ep[s][c], sock[s][c], ep'[s][c], sock'[s][c], c)
            BY <1>2, <2>1
        <3>2. Live(ep[s][c])
            BY <2>1, <3>1 DEF Advances, Live
        <3>3. PICK d \in Nat :
                  /\ Arrived(ep[s][c], sock[s][c].got, c, d)
                  /\ Flow(Stream(s), mux[o].wqueue, mux[o].wr, c, d, sock[o][c].taken)
            BY <1>1, <1>2, <2>1, <3>2 DEF Incoming, ChannelInv
        <3>4. Arrived(ep'[s][c], sock'[s][c].got, c, d)
            BY <2>1, <3>1, <3>3 DEF Advances
        <3> QED
            BY <1>2, <1>3, <3>3, <3>4
    <2> QED
        BY <1>1, <2>1 DEF ChannelInv
<1> QED
    BY <1>1, <1>4, <1>5, <1>6, <1>7 DEF Incoming
-----------------------------------------------------------------------------
(* What a step of a side sends                                              *)

\* The other side, o, and its programs are left alone.
Aside(o) ==
    /\ ep'[o] = ep[o] /\ mux'[o] = mux[o] /\ sock'[o] = sock[o]
    /\ line'[Other(o)] = line[Other(o)]
    /\ (Running(o)' => Running(o))

\* The multiplexing endpoint of side s, what is on the line from it, and what
\* was taken from its programs.
LEMMA SideTypes ==
    ASSUME ProxyTypeOK, NEW s \in Side
    PROVE  /\ mux[s] \in MuxRec /\ mux[s].rbuf \in Seq(Unit) /\ mux[s].wbuf \in Seq(Unit)
           /\ mux[s].wqueue \in Seq(Mbuf) /\ mux[s].wr \in BOOLEAN
           /\ mux[s].open \in BOOLEAN /\ mux[s].freed \in BOOLEAN /\ mux[s].rx_credit \in Nat
           /\ line[s] \in Seq(Unit) /\ Stream(s) \in Seq(Unit)
           /\ \A c \in Channel : /\ ep[s][c] \in EpRec /\ sock[s][c] \in SockRec
                                 /\ sock[s][c].taken \in Nat /\ sock[s][c].sent \in Nat
                                 /\ sock[s][c].got \in Seq(Byte)
<1>1. PICK m \in MuxRec : m = mux[s]
    BY DEF ProxyTypeOK
<1>2. /\ m.rbuf \in Seq(Unit) /\ m.wbuf \in Seq(Unit) /\ m.wqueue \in Seq(Mbuf)
      /\ m.wr \in BOOLEAN /\ m.open \in BOOLEAN /\ m.freed \in BOOLEAN /\ m.rx_credit \in Nat
    BY DEF MuxRec
<1>3. line[s] \in Seq(Unit)
    BY DEF ProxyTypeOK
<1>4. Stream(s) \in Seq(Unit)
    <2>1. PICK o \in Side : o = Other(s)
        BY SideFacts
    <2>2. mux[o].wbuf \in Seq(Unit) /\ line[o] \in Seq(Unit)
        BY <2>1 DEF ProxyTypeOK, MuxRec
    <2>3. mux[s].rbuf \o line[o] \in Seq(Unit)
        BY <1>1, <1>2, <2>2, ConcatProperties
    <2> QED
        BY <2>1, <2>2, <2>3, ConcatProperties DEF Stream
<1>5. ASSUME NEW c \in Channel
      PROVE  /\ ep[s][c] \in EpRec /\ sock[s][c] \in SockRec
             /\ sock[s][c].taken \in Nat /\ sock[s][c].sent \in Nat
             /\ sock[s][c].got \in Seq(Byte)
    <2>1. PICK k \in SockRec : k = sock[s][c]
        BY <1>5 DEF ProxyTypeOK
    <2>2. \A n \in 0 .. MaxBytes : n \in Nat
        BY UnitFacts
    <2>3. k.taken \in Nat /\ k.sent \in Nat /\ k.got \in Seq(Byte)
        BY <2>2 DEF SockRec
    <2> QED
        BY <1>5, <2>1, <2>3 DEF ProxyTypeOK
<1> QED
    BY <1>1, <1>2, <1>3, <1>4, <1>5

\* What is on its way to side s, with the buffer that its partner o writes.
LEMMA StreamParts ==
    ASSUME ProxyTypeOK, NEW s \in Side, NEW o \in Side, o = Other(s), NEW b \in Seq(Unit)
    PROVE  /\ mux[s].rbuf \o line[o] \in Seq(Unit)
           /\ mux[s].rbuf \o line[o] \o b \in Seq(Unit)
           /\ Splits(mux[s].rbuf \o line[o] \o b, mux[s].rbuf \o line[o], b)
           /\ mux[s].rbuf \o line[o] \o <<>> = mux[s].rbuf \o line[o]
<1>1. PICK p : p = mux[s].rbuf \o line[o]
    OBVIOUS
<1>2. p \in Seq(Unit)
    BY <1>1, SideTypes, ConcatProperties
<1>3. p \o b \in Seq(Unit) /\ Splits(p \o b, p, b)
    BY <1>2, ConcatSplits
<1>4. p \o <<>> = p
    BY <1>2, ConcatEmptySeq
<1> QED
    BY <1>1, <1>2, <1>3, <1>4

\* All that is known of the beginning of a stream.
LEMMA CutOff ==
    ASSUME NEW U \in Seq(Unit), NEW p \in Seq(Unit), NEW V \in Seq(Unit), Splits(U, p, V)
    PROVE  /\ \A w, live, c : \A d, t \in Nat :
                 Flow(U, w, live, c, d, t) => Flow(p, <<>>, FALSE, c, d, t)
           /\ \A w, live, c, new, due :
                 Opening(U, w, live, c, new, due) => Opening(p, <<>>, FALSE, c, new, due)
<1>1. ASSUME NEW w, NEW live, NEW c, NEW d \in Nat, NEW t \in Nat, Flow(U, w, live, c, d, t)
      PROVE  Flow(p, <<>>, FALSE, c, d, t)
    <2>1. \A v : Flow(p, v, FALSE, c, d, t)
        BY <1>1, FlowCut
    <2> QED
        BY <2>1
<1>2. ASSUME NEW w, NEW live, NEW c, NEW new, NEW due, Opening(U, w, live, c, new, due)
      PROVE  Opening(p, <<>>, FALSE, c, new, due)
    BY <1>2, OpeningCut
<1> QED
    BY <1>1, <1>2

\* A buffer of the multiplexing endpoint goes to the line, or its buffers are
\* lost.
LEMMA SentConveyed ==
    ASSUME ProxyTypeOK, NEW o \in Side, NEW s \in Side, s = Other(o), Aside(o), Outgoing(s),
           next_channel_id' = next_channel_id, line'[s] = line[s],
           Conveys(mux[s], mux'[s]), \A c \in Channel : sock'[s][c].taken = sock[s][c].taken
    PROVE  Sent(s, o) /\ Outgoing(s)'
<1>1. o = Other(s)
    BY SideFacts
<1>2. PICK R \in Seq(Unit) : R = mux[o].rbuf \o line[s]
    BY SideTypes, ConcatProperties
<1>3. Stream(o) = R \o mux[s].wbuf /\ Stream(o)' = R \o mux'[s].wbuf
    BY <1>2 DEF Stream, Aside
<1>4. /\ ep'[o] = ep[o] /\ mux'[o] = mux[o] /\ sock'[o] = sock[o]
      /\ Running(o)' => Running(o)
      /\ next_channel_id' \in Int
      /\ next_channel_id <= next_channel_id'
      /\ o = "guest" => next_channel_id' = next_channel_id
    BY DEF Aside, ProxyTypeOK
<1>5. /\ mux[s].wbuf \in Seq(Unit) /\ mux[s].wqueue \in Seq(Mbuf) /\ Stream(o) \in Seq(Unit)
      /\ mux[s].wr \in BOOLEAN
      /\ \A c \in Channel : sock[s][c].taken \in Nat
    BY SideTypes
<1>6. mux'[s].freed => ~mux'[s].wr
    BY DEF Outgoing, Conveys
<1>7. CASE mux'[s].wbuf = mux[s].wbuf /\ mux'[s].wqueue = mux[s].wqueue /\ mux'[s].wr = mux[s].wr
    <2>1. Stream(o)' = Stream(o)
        BY <1>3, <1>7
    <2>2. Sent(s, o)
        BY <1>4, <1>7, <2>1 DEF Sent
    <2> QED
        BY <1>6, <1>7, <2>2 DEF Outgoing
<1>8. CASE /\ mux[s].wr /\ mux[s].wbuf = <<>> /\ mux[s].wqueue # <<>>
           /\ mux'[s].wbuf = Head(mux[s].wqueue).data /\ mux'[s].wqueue = Tail(mux[s].wqueue)
           /\ mux'[s].wr
    <2>1. PICK w \in Seq(Mbuf) : w = mux[s].wqueue /\ w # <<>>
        BY <1>5, <1>8
    <2>2. Head(w) \in Mbuf /\ Head(w) = w[1] /\ 1 \in DOMAIN w
        BY <2>1, TailFacts
    <2>3. PICK d \in Seq(Unit) : d = Head(w).data
        BY <2>2 DEF Mbuf
    <2>4. Packet(Head(w).data)
        BY <2>1, <2>2 DEF Outgoing
    <2>5. PICK W \in Seq(Unit) : W = R \o d /\ Splits(W, R, d)
        BY ConcatSplits
    <2>6. Stream(o) = R /\ Stream(o)' = W
        BY <1>3, <1>8, <2>1, <2>3, <2>5, ConcatEmptySeq
    <2>7. Framed(R, TRUE) => Framed(W, TRUE)
        BY <2>3, <2>4, <2>5, FramedAppend
    <2>8. ASSUME NEW c \in Channel
          PROVE  /\ \A e \in Nat : Flow(R, w, TRUE, c, e, sock[s][c].taken)
                        => Flow(W, Tail(w), TRUE, c, e, sock[s][c].taken)
                 /\ \A new \in BOOLEAN, due \in BOOLEAN :
                        Opening(R, w, TRUE, c, new, due) => Opening(W, Tail(w), TRUE, c, new, due)
        <3>1. sock[s][c].taken \in Nat
            BY <1>5, <2>8
        <3>2. \A e \in Nat : Flow(R, w, TRUE, c, e, sock[s][c].taken)
                        => Flow(W, Tail(w), TRUE, c, e, sock[s][c].taken)
            BY <2>1, <2>3, <2>4, <2>5, <3>1, FlowToLine
        <3>3. ASSUME NEW new \in BOOLEAN, NEW due \in BOOLEAN, Opening(R, w, TRUE, c, new, due)
              PROVE  Opening(W, Tail(w), TRUE, c, new, due)
            <4>1. Splits(W, R, Head(w).data)
                BY <2>3, <2>5
            <4>2. w # <<>> /\ w \in Seq(Mbuf) /\ W \in Seq(Unit) /\ R \in Seq(Unit)
                BY <1>2, <2>1, <2>5
            <4> QED
                BY <2>4, <3>3, <4>1, <4>2, OpeningToLine
        <3> QED
            BY <3>2, <3>3
    <2>9. mux[s].wr = TRUE /\ mux'[s].wr = TRUE
        BY <1>5, <1>8, <1>6
    <2>10. mux'[s].wqueue = Tail(w)
        BY <1>8, <2>1
    <2>11. Sent(s, o)
        <3>1. Framed(Stream(o), mux[s].wr) => Framed(Stream(o)', mux'[s].wr)
            BY <2>6, <2>7, <2>9
        <3>2. ASSUME NEW c \in Channel
              PROVE  /\ \A d1 \in Nat :
                           Flow(Stream(o), mux[s].wqueue, mux[s].wr, c, d1, sock[s][c].taken)
                               => Flow(Stream(o)', mux'[s].wqueue, mux'[s].wr, c, d1,
                                       sock'[s][c].taken)
                     /\ Opening(Stream(o), mux[s].wqueue, mux[s].wr, c, ep[o][c].st = "none",
                                o = "host" /\ c < next_channel_id)
                           => Opening(Stream(o)', mux'[s].wqueue, mux'[s].wr, c,
                                      ep[o][c].st = "none", o = "host" /\ c < next_channel_id')
            BY <2>1, <2>6, <2>8, <2>9, <2>10, <3>2
        <3> QED
            BY <1>4, <3>1, <3>2 DEF Sent
    <2>12. \A k \in DOMAIN Tail(w) : Packet(Tail(w)[k].data)
        <3>1. \A k \in DOMAIN w : Packet(w[k].data)
            BY <2>1 DEF Outgoing
        <3> QED
            BY <2>1, <3>1, TailFacts
    <2> QED
        BY <1>6, <2>10, <2>11, <2>12 DEF Outgoing
<1>9. CASE mux'[s].wbuf = <<>> /\ mux'[s].wqueue = <<>> /\ ~mux'[s].wr
    <2>1. PICK U, b, w, l :
              /\ U \in Seq(Unit) /\ b \in Seq(Unit)
              /\ U = Stream(o) /\ b = mux[s].wbuf /\ Splits(U, R, b)
              /\ w = mux[s].wqueue /\ l = mux[s].wr
        BY <1>3, <1>5, ConcatSplits
    <2>2. Stream(o)' = R
        BY <1>3, <1>9, ConcatEmptySeq
    <2>7. Splits(U, R, b) /\ R \in Seq(Unit) /\ U \in Seq(Unit) /\ b \in Seq(Unit)
        BY <1>2, <2>1
    <2>3. Framed(U, l) => Framed(R, FALSE)
        BY <2>1, FramedPrefix
    <2>4. ASSUME NEW c \in Channel
          PROVE  /\ \A e \in Nat : Flow(U, w, l, c, e, sock[s][c].taken)
                        => Flow(R, <<>>, FALSE, c, e, sock[s][c].taken)
                 /\ \A new, due :
                        Opening(U, w, l, c, new, due) => Opening(R, <<>>, FALSE, c, new, due)
        <3>1. PICK t \in Nat : t = sock[s][c].taken
            BY <1>5, <2>4
        <3>2. \A e \in Nat : Flow(U, w, l, c, e, t) => Flow(R, <<>>, FALSE, c, e, t)
            BY <2>7, <3>1, CutOff, ZenonT(60)
        <3>3. \A new, due : Opening(U, w, l, c, new, due) => Opening(R, <<>>, FALSE, c, new, due)
            BY <2>7, CutOff
        <3> QED
            BY <3>1, <3>2, <3>3
    <2>5. mux'[s].wr = FALSE
        BY <1>9
    <2>6. Sent(s, o)
        <3>1. Framed(Stream(o), mux[s].wr) => Framed(Stream(o)', mux'[s].wr)
            BY <2>1, <2>2, <2>3, <2>5
        <3>2. ASSUME NEW c \in Channel
              PROVE  /\ \A d1 \in Nat :
                           Flow(Stream(o), mux[s].wqueue, mux[s].wr, c, d1, sock[s][c].taken)
                               => Flow(Stream(o)', mux'[s].wqueue, mux'[s].wr, c, d1,
                                       sock'[s][c].taken)
                     /\ Opening(Stream(o), mux[s].wqueue, mux[s].wr, c, ep[o][c].st = "none",
                                o = "host" /\ c < next_channel_id)
                           => Opening(Stream(o)', mux'[s].wqueue, mux'[s].wr, c,
                                      ep[o][c].st = "none", o = "host" /\ c < next_channel_id')
            BY <1>9, <2>1, <2>2, <2>4, <2>5, <3>2
        <3> QED
            BY <1>4, <3>1, <3>2 DEF Sent
    <2> QED
        BY <1>6, <1>9, <2>6 DEF Outgoing
<1> QED
    BY <1>7, <1>8, <1>9 DEF Conveys
\* The buffer m is one packet, and holds the bytes that were taken from the
\* programs of side s in this step.
Takes(s, m) ==
    /\ m \in Mbuf /\ Packet(m.data)
    /\ \A c \in Channel : /\ sock[s][c].taken <= sock'[s][c].taken
                          /\ sock'[s][c].taken \in Nat
                          /\ \A x : x \in In(m.data, c)
                                <=> x \in sock[s][c].taken + 1 .. sock'[s][c].taken

\* It opens no channel, and has bytes of open channels only.
Later(s, m) ==
    /\ m.data[1].cmd # "OPEN"
    /\ \A c \in Channel : In(m.data, c) # {} => ep[s][c].st # "none"

\* A channel is open at one side when its endpoint at the other is not new.
LEMMA DueOrOpen ==
    ASSUME ProxyTypeOK, NEW o \in Side, NEW s, s = Other(o), EndpointInv(o), EndpointInv(s),
           NEW c \in Channel, ep[s][c].st # "none"
    PROVE  (o = "host" /\ c < next_channel_id) \/ ep[o][c].st # "none"
<1>1. c < next_channel_id
    BY DEF EndpointInv
<1>2. CASE o = "host"
    BY <1>1, <1>2
<1>3. CASE o = "guest"
    <2>1. ~(next_channel_id <= c)
        BY <1>1 DEF ProxyTypeOK, Channel
    <2> QED
        BY <1>3, <2>1 DEF EndpointInv
<1> QED
    BY <1>2, <1>3 DEF Side

\* A buffer is queued to the line.
LEMMA SentQueued ==
    ASSUME ProxyTypeOK, NEW o \in Side, NEW s \in Side, s = Other(o), Aside(o), Outgoing(s),
           EndpointInv(o), EndpointInv(s), next_channel_id' = next_channel_id,
           mux'[s].wbuf = mux[s].wbuf, mux'[s].wr = mux[s].wr, mux'[s].freed = mux[s].freed,
           NEW m, mux'[s].wqueue = Append(mux[s].wqueue, m), line'[s] = line[s],
           Takes(s, m), Later(s, m)
    PROVE  Sent(s, o) /\ Outgoing(s)'
<1>1. o = Other(s)
    BY SideFacts
<1>2. PICK w \in Seq(Mbuf), U \in Seq(Unit), l \in BOOLEAN :
          w = mux[s].wqueue /\ U = Stream(o) /\ l = mux[s].wr
    BY SideTypes
<1>3. Stream(o)' = U
    BY <1>2 DEF Stream, Aside
<1>4. /\ ep'[o] = ep[o] /\ mux'[o] = mux[o] /\ sock'[o] = sock[o]
      /\ Running(o)' => Running(o)
      /\ next_channel_id' \in Int
      /\ next_channel_id <= next_channel_id'
      /\ o = "guest" => next_channel_id' = next_channel_id
    BY DEF Aside, ProxyTypeOK
<1>5. m \in Mbuf /\ Packet(m.data)
    BY DEF Takes
<1>6. ASSUME NEW c \in Channel
      PROVE  /\ \A e \in Nat : Flow(U, w, l, c, e, sock[s][c].taken)
                    => Flow(U, Append(w, m), l, c, e, sock'[s][c].taken)
             /\ Opening(U, w, l, c, ep[o][c].st = "none", o = "host" /\ c < next_channel_id)
                    => Opening(U, Append(w, m), l, c, ep[o][c].st = "none",
                               o = "host" /\ c < next_channel_id)
    <2>1. PICK t \in Nat, t2 \in Nat : t = sock[s][c].taken /\ t2 = sock'[s][c].taken
        BY <1>6, SideTypes DEF Takes
    <2>2. t <= t2 /\ \A x : x \in In(m.data, c) <=> x \in t + 1 .. t2
        BY <1>6, <2>1 DEF Takes
    <2>3. \A e \in Nat : Flow(U, w, l, c, e, t) => Flow(U, Append(w, m), l, c, e, t2)
        BY <1>5, <2>2, FlowEnqueue
    <2>4. PICK new \in BOOLEAN, due \in BOOLEAN :
              new = (ep[o][c].st = "none") /\ due = (o = "host" /\ c < next_channel_id)
        OBVIOUS
    <2>5. ~IsOpen(m.data[1], c)
        BY DEF Later, IsOpen
    <2>6. In(m.data, c) # {} => due \/ ~new
        BY <1>6, <2>4, DueOrOpen DEF Later
    <2>7. Opening(U, w, l, c, new, due) => Opening(U, Append(w, m), l, c, new, due)
        BY <1>5, <2>5, <2>6, OpeningEnqueue
    <2> QED
        BY <2>1, <2>3, <2>4, <2>7
<1>7. Sent(s, o)
    BY <1>2, <1>3, <1>4, <1>6 DEF Sent
<1>8. \A k \in DOMAIN Append(w, m) : Packet(Append(w, m)[k].data)
    <2>1. \A k \in DOMAIN w : Packet(w[k].data)
        BY <1>2 DEF Outgoing
    <2> QED
        BY <1>5, <2>1, AppendFacts
<1> QED
    BY <1>2, <1>7, <1>8 DEF Outgoing

\* What a program sent is lost when nothing is written to the line any more.
LEMMA SentLost ==
    ASSUME ProxyTypeOK, NEW o \in Side, NEW s \in Side, s = Other(o), Aside(o), Outgoing(s),
           next_channel_id' = next_channel_id, line'[s] = line[s],
           mux[s].freed, mux'[s].wqueue = mux[s].wqueue, mux'[s].wbuf = mux[s].wbuf,
           mux'[s].wr = mux[s].wr,
           \A c \in Channel : sock[s][c].taken <= sock'[s][c].taken /\ sock'[s][c].taken \in Nat
    PROVE  Sent(s, o) /\ Outgoing(s)'
<1>1. o = Other(s)
    BY SideFacts
<1>2. PICK U \in Seq(Unit) : U = Stream(o)
    BY SideTypes
<1>3. Stream(o)' = U
    BY <1>2 DEF Stream, Aside
<1>4. /\ ep'[o] = ep[o] /\ mux'[o] = mux[o] /\ sock'[o] = sock[o]
      /\ Running(o)' => Running(o)
      /\ next_channel_id' \in Int
      /\ next_channel_id <= next_channel_id'
      /\ o = "guest" => next_channel_id' = next_channel_id
    BY DEF Aside, ProxyTypeOK
<1>5. mux[s].wr = FALSE
    BY SideTypes DEF Outgoing
<1>6. ASSUME NEW c \in Channel, NEW e \in Nat, Flow(U, mux[s].wqueue, FALSE, c, e, sock[s][c].taken)
      PROVE  Flow(U, mux'[s].wqueue, mux'[s].wr, c, e, sock'[s][c].taken)
    <2>1. PICK t \in Nat, t2 \in Nat : t = sock[s][c].taken /\ t2 = sock'[s][c].taken
        BY <1>6, SideTypes
    <2>2. t <= t2
        BY <1>6, <2>1
    <2>3. \A x \in In(U, c) : x \in Nat
        BY DEF In
    <2>4. Flow(U, mux[s].wqueue, FALSE, c, e, t2)
        BY <1>6, <2>1, <2>2, <2>3 DEF Flow
    <2> QED
        BY <1>5, <2>1, <2>4
<1>7. Sent(s, o)
    <2>1. ASSUME NEW c \in Channel
          PROVE  /\ \A e \in Nat :
                       Flow(Stream(o), mux[s].wqueue, mux[s].wr, c, e, sock[s][c].taken)
                           => Flow(Stream(o)', mux'[s].wqueue, mux'[s].wr, c, e, sock'[s][c].taken)
                 /\ Opening(Stream(o), mux[s].wqueue, mux[s].wr, c, ep[o][c].st = "none",
                            o = "host" /\ c < next_channel_id)
                       => Opening(Stream(o)', mux'[s].wqueue, mux'[s].wr, c,
                                  ep[o][c].st = "none", o = "host" /\ c < next_channel_id')
        BY <1>2, <1>3, <1>5, <1>6, <2>1
    <2>2. Framed(Stream(o), mux[s].wr) => Framed(Stream(o)', mux'[s].wr)
        BY <1>2, <1>3
    <2> QED
        BY <1>4, <2>1, <2>2 DEF Sent
<1> QED
    BY <1>7 DEF Outgoing
-----------------------------------------------------------------------------
(* Steps                                                                    *)

\* The proxy of a side.
LEMMA ProxyFacts ==
    ASSUME ProxyTypeOK, NEW s \in Side
    PROVE  /\ Proxy(s) \in Proxies /\ Proxy(s).mux = mux[s] /\ Proxy(s).ep = ep[s]
           /\ EndpointInv(s) => \A c \in Channel : Listed(Proxy(s).ep[c])
           /\ Credit(Proxy(s))
                 = mux[s].rx_credit + Total([c \in Channel |-> TotalLength(ep[s][c].wqueue)])
    BY DEF Proxy, Proxies, ProxyTypeOK, EndpointInv, Listed, Credit, Lengths

\* The proxy of side s becomes q.
LEMMA BecomesFacts ==
    ASSUME ProxyTypeOK, NEW s \in Side, NEW q \in Proxies, Becomes(s, q)
    PROVE  /\ mux' \in [Side -> MuxRec] /\ ep' \in [Side -> [Channel -> EpRec]]
           /\ mux'[s] = q.mux /\ ep'[s] = q.ep
           /\ mux'[Other(s)] = mux[Other(s)] /\ ep'[Other(s)] = ep[Other(s)]
<1>1. PICK m \in MuxRec, e \in [Channel -> EpRec] : m = q.mux /\ e = q.ep
    BY ProxiesFacts
<1>2. mux' = [mux EXCEPT ![s] = m] /\ ep' = [ep EXCEPT ![s] = e]
    BY <1>1 DEF Becomes
<1>3. Other(s) \in Side /\ Other(s) # s
    BY SideFacts
<1> QED
    BY <1>1, <1>2, <1>3 DEF ProxyTypeOK

\* A descriptor is handled.
LEMMA HandleFacts ==
    ASSUME ProxyTypeOK, NEW s \in Side, NEW what, NEW x, Handle(s, what, x)
    PROVE  Running(s) /\ poll' \in [Side -> PollRec]
<1>1. PICK r : r = poll[s].events \ {<<what, x>>}
    OBVIOUS
<1>2. r \in SUBSET Event
    BY <1>1 DEF ProxyTypeOK, PollRec
<1>3. PICK a \in {"prepare", "handle"} : poll' = [poll EXCEPT ![s] = [at |-> a, events |-> r]]
    BY <1>1 DEF Handle
<1>4. [at |-> a, events |-> r] \in PollRec
    BY <1>2, <1>3 DEF PollRec
<1> QED
    BY <1>3, <1>4 DEF Handle, ProxyTypeOK

\* Nothing changes that the invariant is about.
LEMMA StillStep ==
    ASSUME ProxyInv, ProxyTypeOK', UNCHANGED <<mux, ep, next_channel_id, line, aborted>>,
           \A s \in Side, c \in Channel :
              sock'[s][c].got = sock[s][c].got /\ sock'[s][c].taken = sock[s][c].taken
    PROVE  ProxyInv'
<1>1. \A s \in Side : Other(s) \in Side
    BY SideFacts
<1>2. InOrder'
    BY <1>1 DEF ProxyInv, InOrder
<1>3. CreditAccounted'
    BY DEF ProxyInv, CreditAccounted, Running
<1>4. ASSUME NEW s \in Side
      PROVE  FrameInv(s)' /\ EndpointInv(s)' /\ OpenInv(s)' /\ ChannelInv(s)'
    <2>1. Stream(s)' = Stream(s) /\ Running(s)' = Running(s)
        BY DEF Stream, Running
    <2>2. FrameInv(s)'
        BY <1>4, <2>1 DEF ProxyInv, FrameInv
    <2>3. EndpointInv(s)'
        BY <1>4 DEF ProxyInv, EndpointInv
    <2>4. OpenInv(s)'
        BY <1>4, <2>1 DEF ProxyInv, OpenInv
    <2>5. ChannelInv(s)'
        <3>1. ASSUME NEW c \in Channel, Running(s), Live(ep[s][c])
              PROVE  \E d \in Nat :
                        /\ Arrived(ep[s][c], sock'[s][c].got, c, d)
                        /\ Flow(Stream(s), mux[Other(s)].wqueue, mux[Other(s)].wr, c, d,
                                sock'[Other(s)][c].taken)
            <4>1. PICK o \in Side : o = Other(s)
                BY <1>1, <1>4
            <4>2. sock'[s][c].got = sock[s][c].got /\ sock'[o][c].taken = sock[o][c].taken
                BY <1>4, <3>1, <4>1
            <4> QED
                BY <1>4, <3>1, <4>1, <4>2 DEF ProxyInv, ChannelInv
        <3> QED
            BY <2>1, <3>1 DEF ChannelInv
    <2> QED
        BY <2>2, <2>3, <2>4, <2>5
<1> QED
    BY <1>2, <1>3, <1>4 DEF ProxyInv

\* What the programs of side s have got is in order, after a step of side s.
Orders(s) ==
    \A c \in Channel :
        /\ sock[s][c].taken <= sock'[s][c].taken
        /\ \/ sock'[s][c].got = sock[s][c].got
           \/ /\ sock'[s][c].got = Bytes(c, 0, Len(sock'[s][c].got))
              /\ Len(sock'[s][c].got) <= sock[Other(s)][c].taken

\* A step of side s is one of both directions.
LEMMA SideStep ==
    ASSUME ProxyInv, ProxyTypeOK', NEW s \in Side, Sent(s, Other(s)), Outgoing(s)', Incoming(s)',
           Orders(s), mux'[s].open /\ Running(s)' =>
              mux'[s].rx_credit + Total([c \in Channel |-> TotalLength(ep'[s][c].wqueue)])
                  = MultiplexCredit
    PROVE  ProxyInv'
<1>1. PICK o \in Side : o = Other(s) /\ s = Other(o) /\ o # s /\ \A x \in Side : x = s \/ x = o
    BY SideFacts
<1>2. ProxyTypeOK /\ Incoming(o) /\ Outgoing(o) /\ InOrder /\ CreditAccounted
    BY InvParts
<1>3. Incoming(o)'
    BY <1>1, <1>2, IncomingSent
<1>4. /\ ep'[o] = ep[o] /\ mux'[o] = mux[o] /\ sock'[o] = sock[o]
      /\ (Running(o)' => Running(o))
    BY <1>1 DEF Sent
<1>5. Outgoing(o)'
    BY <1>2, <1>4 DEF Outgoing
<1>6. ASSUME NEW c \in Channel
      PROVE  /\ sock'[s][c].got = Bytes(c, 0, Len(sock'[s][c].got))
             /\ Len(sock'[s][c].got) <= sock'[o][c].taken
             /\ sock'[o][c].got = Bytes(c, 0, Len(sock'[o][c].got))
             /\ Len(sock'[o][c].got) <= sock'[s][c].taken
    <2>1. /\ sock[s][c].got = Bytes(c, 0, Len(sock[s][c].got))
          /\ Len(sock[s][c].got) <= sock[o][c].taken
          /\ sock[o][c].got = Bytes(c, 0, Len(sock[o][c].got))
          /\ Len(sock[o][c].got) <= sock[s][c].taken
        BY <1>1, <1>2, <1>6 DEF InOrder
    <2>2. sock[s][c].taken \in Nat /\ Len(sock[o][c].got) \in Nat
        BY <1>1, <1>2, <1>6, SideTypes, LenProperties
    <2>3. sock'[s][c].taken \in Nat
        BY <1>6, UnitFacts DEF ProxyTypeOK, SockRec
    <2>4. sock[s][c].taken <= sock'[s][c].taken
        BY <1>6 DEF Orders
    <2>5. Len(sock[o][c].got) <= sock'[s][c].taken
        BY <2>1, <2>2, <2>3, <2>4
    <2>6. \/ sock'[s][c].got = sock[s][c].got
          \/ /\ sock'[s][c].got = Bytes(c, 0, Len(sock'[s][c].got))
             /\ Len(sock'[s][c].got) <= sock[o][c].taken
        BY <1>1, <1>6 DEF Orders
    <2> QED
        BY <1>4, <2>1, <2>5, <2>6
<1>7. InOrder'
    BY <1>1, <1>6 DEF InOrder
<1>8. CreditAccounted'
    <2>1. mux'[o].open /\ Running(o)' =>
              mux'[o].rx_credit + Total([c \in Channel |-> TotalLength(ep'[o][c].wqueue)])
                  = MultiplexCredit
        BY <1>2, <1>4 DEF CreditAccounted
    <2> QED
        BY <1>1, <2>1 DEF CreditAccounted
<1>9. \A x \in Side : Incoming(x)' /\ Outgoing(x)'
    BY <1>1, <1>3, <1>5
<1> QED
    BY <1>7, <1>8, <1>9 DEF ProxyInv, FrameInv, Outgoing, Incoming
\* A program that got nothing in this step.
LEMMA MovesAdvances ==
    ASSUME NEW e, NEW f, NEW k, NEW l, NEW c, Moves(e, f, c), Len(k.got) \in Nat,
           l.got = k.got, e.st = "none" => l.taken = k.taken
    PROVE  Advances(e, k, f, l, c)
    BY DEF Moves, Advances, Arrived

\* A step of one endpoint as one of all.
LEMMA LocalWalks ==
    ASSUME NEW p \in Proxies, \A c \in Channel : Listed(p.ep[c]),
           NEW q, NEW c \in Channel, Local(p, q, c)
    PROVE  Walks(p, q)
<1>1. PICK f \in [Channel -> EpRec], g \in [Channel -> EpRec] : f = p.ep /\ g = q.ep
    BY ProxiesFacts DEF Local
<1>2. PICK n \in Nat, m \in Nat : n = q.mux.rx_credit /\ m = p.mux.rx_credit
    BY ProxiesFacts DEF Local
<1>3. q.mux = [p.mux EXCEPT !.rx_credit = m + (n - m)] /\ g = [f EXCEPT ![c] = g[c]]
    <2>1. q = With(p, c, g[c], n - m)
        BY <1>1, <1>2 DEF Local
    <2> QED
        BY <1>1, <1>2, <2>1 DEF With
<1>4. q.mux = [p.mux EXCEPT !.rx_credit = q.mux.rx_credit]
    BY <1>2, <1>3
<1>5. \A x \in Channel : x # c => g[x] = f[x]
    BY <1>3
<1>6. \A x \in Channel : Moves(f[x], g[x], x)
    <2>1. TAKE x \in Channel
    <2>2. Listed(f[x])
        BY <1>1, <2>1
    <2>3. CASE x = c
        BY <1>1, <2>3 DEF Local
    <2>4. CASE x # c
        BY <1>5, <2>1, <2>2, <2>4 DEF Moves
    <2> QED
        BY <2>3, <2>4
<1>7. Credit(q) = Credit(p)
    <2>1. PICK a, b, r : /\ a = Lengths(p) /\ b = Lengths(q)
                         /\ r = [x \in Channel \ {c} |-> Lengths(p)[x]]
        OBVIOUS
    <2>2. Numbers(a, Channel) /\ Numbers(b, Channel)
        BY <2>1, LengthsNumbers DEF Local
    <2>3. DOMAIN r = Channel \ {c} /\ \A x \in Channel \ {c} : r[x] = a[x] /\ r[x] = b[x]
        BY <1>1, <1>5, <2>1 DEF Lengths
    <2>4. Channel = (Channel \ {c}) \cup {c} /\ c \notin Channel \ {c}
        OBVIOUS
    <2>5. PICK T : T = Channel \ {c}
        OBVIOUS
    <2>6. Numbers(r, T) /\ Total(a) = Total(r) + a[c]
        BY <2>2, <2>3, <2>4, <2>5, TotalRest, SMTT(40)
    <2>7. Total(b) = Total(r) + b[c]
        BY <2>2, <2>3, <2>4, <2>5, TotalRest, SMTT(40)
    <2>8. PICK i \in Nat, j \in Nat : i = a[c] /\ j = b[c]
        BY <2>2 DEF Numbers
    <2>9. n + j = m + i
        BY <1>1, <1>2, <2>1, <2>8 DEF Local, Lengths
    <2>10. PICK u \in Nat : u = Total(r)
        BY <2>6, TotalNat
    <2>11. Credit(q) = n + (u + j) /\ Credit(p) = m + (u + i)
        BY <1>2, <2>1, <2>6, <2>7, <2>8, <2>10 DEF Credit
    <2> QED
        BY <2>9, <2>11
<1> QED
    BY <1>1, <1>4, <1>6, <1>7 DEF Walks, Local

\* A walk is all that may happen in a round, as well.
LEMMA WalkTurns ==
    ASSUME NEW p \in Proxies, NEW q, Walks(p, q)
    PROVE  /\ Turns(p, q)
           /\ q.mux.wqueue = p.mux.wqueue /\ q.mux.wbuf = p.mux.wbuf /\ q.mux.wr = p.mux.wr
           /\ q.mux.freed = p.mux.freed /\ q.mux.open = p.mux.open
<1>1. /\ q.mux.rbuf = p.mux.rbuf /\ q.mux.open = p.mux.open /\ q.mux.freed = p.mux.freed
      /\ q.mux.wqueue = p.mux.wqueue /\ q.mux.wbuf = p.mux.wbuf /\ q.mux.wr = p.mux.wr
    BY ProxiesFacts DEF Walks, MuxRec
<1> QED
    BY <1>1 DEF Walks, Turns, Forwards, Conveys

\* The credit of a side, from that of its proxy.
LEMMA CreditKept ==
    ASSUME ProxyInv, NEW s \in Side, NEW q \in Proxies, Credit(q) = Credit(Proxy(s)),
           q.mux.open => mux[s].open, ep'[s] = q.ep, mux'[s].rx_credit = q.mux.rx_credit,
           mux'[s].open = q.mux.open, Running(s)
    PROVE  mux'[s].open /\ Running(s)' =>
              mux'[s].rx_credit + Total([c \in Channel |-> TotalLength(ep'[s][c].wqueue)])
                  = MultiplexCredit
<1>1. ProxyTypeOK /\ CreditAccounted
    BY DEF ProxyInv
<1>2. Credit(Proxy(s)) = mux[s].rx_credit + Total([c \in Channel |-> TotalLength(ep[s][c].wqueue)])
    BY <1>1, ProxyFacts
<1>3. Credit(q) = mux'[s].rx_credit + Total([c \in Channel |-> TotalLength(ep'[s][c].wqueue)])
    BY DEF Credit, Lengths
<1>4. mux[s].open => Credit(Proxy(s)) = MultiplexCredit
    BY <1>1, <1>2 DEF CreditAccounted
<1> QED
    BY <1>3, <1>4

\* A step of the loop that sends what was queued to the line before, takes
\* nothing from the line, and gives nothing to a program.
LEMMA TurnStep ==
    ASSUME ProxyInv, NEW s \in Side, NEW q, Turns(Proxy(s), q), Becomes(s, q), Running(s),
           UNCHANGED <<next_channel_id, line, lineOpen, sock, aborted>>, poll' \in [Side -> PollRec]
    PROVE  ProxyInv'
<1>1. ProxyTypeOK /\ Outgoing(s) /\ Incoming(s)
    BY InvParts
<1>2. PICK o \in Side : o = Other(s) /\ s = Other(o) /\ o # s
    BY SideFacts
<1>3. /\ q \in Proxies /\ Forwards(mux[s], q.mux) /\ Credit(q) = Credit(Proxy(s))
      /\ \A c \in Channel : Moves(ep[s][c], q.ep[c], c)
    BY <1>1, ProxyFacts DEF Turns
<1>4. /\ mux' \in [Side -> MuxRec] /\ ep' \in [Side -> [Channel -> EpRec]]
      /\ mux'[s] = q.mux /\ ep'[s] = q.ep /\ mux'[o] = mux[o] /\ ep'[o] = ep[o]
    BY <1>1, <1>2, <1>3, BecomesFacts
<1>5. ProxyTypeOK'
    BY <1>1, <1>4 DEF ProxyTypeOK
<1>6. Aside(o)
    BY <1>2, <1>4 DEF Aside, Running
<1>7. Sent(s, o) /\ Outgoing(s)'
    <2>1. Conveys(mux[s], mux'[s])
        BY <1>3, <1>4 DEF Forwards
    <2> QED
        BY <1>1, <1>2, <1>6, <2>1, SentConveyed
<1>8. Kept(s)
    <2>1. mux'[s].rbuf = mux[s].rbuf
        BY <1>3, <1>4 DEF Forwards
    <2>2. ASSUME NEW c \in Channel
          PROVE  Advances(ep[s][c], sock[s][c], ep'[s][c], sock'[s][c], c)
        <3>1. Moves(ep[s][c], ep'[s][c], c) /\ sock'[s][c] = sock[s][c]
            BY <1>3, <1>4, <2>2
        <3>2. Len(sock[s][c].got) \in Nat
            BY <1>1, <2>2, SideTypes, LenProperties
        <3> QED
            BY <3>1, <3>2, MovesAdvances
    <2> QED
        BY <1>2, <1>4, <2>1, <2>2 DEF Kept, Running
<1>9. Incoming(s)'
    BY <1>1, <1>8, IncomingKept
<1>10. Orders(s)
    <2>1. \A c \in Channel : sock[s][c].taken \in Nat
        BY <1>1, SideTypes
    <2> QED
        BY <2>1 DEF Orders
<1>11. mux'[s].open /\ Running(s)' =>
           mux'[s].rx_credit + Total([c \in Channel |-> TotalLength(ep'[s][c].wqueue)])
               = MultiplexCredit
    <2>1. q.mux.open => mux[s].open
        BY <1>3 DEF Forwards
    <2> QED
        BY <1>3, <1>4, <2>1, CreditKept
<1> QED
    BY <1>2, <1>5, <1>7, <1>9, <1>10, <1>11, SideStep
\* A buffer is queued to the line.
LEMMA QueueToLineFacts ==
    ASSUME NEW p \in Proxies, NEW m \in Mbuf
    PROVE  /\ QueueToLine(p, m) \in Proxies /\ QueueToLine(p, m).ep = p.ep
           /\ QueueToLine(p, m).mux.wqueue = Append(p.mux.wqueue, m)
           /\ QueueToLine(p, m).mux = [p.mux EXCEPT !.wqueue = Append(p.mux.wqueue, m)]
<1>1. PICK x \in MuxRec, y \in [Channel -> EpRec] :
          p = [mux |-> x, ep |-> y] /\ x = p.mux /\ y = p.ep
    BY DEF Proxies
<1>2. PICK w \in Seq(Mbuf) : w = Append(p.mux.wqueue, m)
    <2>1. p.mux.wqueue \in Seq(Mbuf)
        BY ProxiesFacts
    <2> QED
        BY <2>1, AppendProperties
<1>3. PICK n \in MuxRec : n = [x EXCEPT !.wqueue = w] /\ n.wqueue = w
    <2>1. [x EXCEPT !.wqueue = w] \in MuxRec
        BY <1>1, <1>2 DEF MuxRec
    <2>2. [x EXCEPT !.wqueue = w].wqueue = w
        BY <1>1 DEF MuxRec
    <2> QED
        BY <2>1, <2>2
<1>4. PICK q : q = [p EXCEPT !.mux.wqueue = w]
    OBVIOUS
<1>5. q = [mux |-> n, ep |-> y]
    <2>1. PICK r : r = [mux |-> x, ep |-> y]
        OBVIOUS
    <2>2. [r EXCEPT !.mux.wqueue = w] = [mux |-> [x EXCEPT !.wqueue = w], ep |-> y]
        BY <2>1, MuxExcept
    <2> QED
        BY <1>1, <1>3, <1>4, <2>1, <2>2
<1>6. QueueToLine(p, m) = q
    BY <1>2, <1>4 DEF QueueToLine
<1>7. q \in Proxies /\ q.ep = y /\ q.mux = n
    BY <1>1, <1>3, <1>5 DEF Proxies
<1> QED
    BY <1>1, <1>2, <1>3, <1>6, <1>7

\* A step that takes m from the programs and queues it to the line.
LEMMA QueueStep ==
    ASSUME ProxyInv, NEW s \in Side, NEW p, Walks(Proxy(s), p), Running(s),
           NEW m, Takes(s, m), Later(s, m), Queue(s, p, m),
           UNCHANGED <<next_channel_id, line, lineOpen>>, poll' \in [Side -> PollRec],
           sock' \in [Side -> [Channel -> SockRec]], sock'[Other(s)] = sock[Other(s)],
           \A c \in Channel : sock'[s][c].got = sock[s][c].got
                              /\ (ep[s][c].st = "none" => sock'[s][c].taken = sock[s][c].taken)
    PROVE  ProxyInv'
<1>1. ProxyTypeOK /\ Outgoing(s) /\ Incoming(s)
    BY InvParts
<1>2. PICK o \in Side : o = Other(s) /\ s = Other(o) /\ o # s
    BY SideFacts
<1>3. /\ p \in Proxies /\ Credit(p) = Credit(Proxy(s))
      /\ \A c \in Channel : Moves(ep[s][c], p.ep[c], c)
    BY <1>1, ProxyFacts DEF Walks
<1>4. /\ p.mux.wqueue = mux[s].wqueue /\ p.mux.wbuf = mux[s].wbuf /\ p.mux.wr = mux[s].wr
      /\ p.mux.freed = mux[s].freed /\ p.mux.open = mux[s].open /\ p.mux.rbuf = mux[s].rbuf
    <2>1. PICK z \in Proxies : z = Proxy(s) /\ z.mux = mux[s] /\ Walks(z, p)
        BY <1>1, ProxyFacts
    <2>2. Turns(z, p) /\ p.mux.wqueue = z.mux.wqueue /\ p.mux.wbuf = z.mux.wbuf
          /\ p.mux.wr = z.mux.wr /\ p.mux.freed = z.mux.freed /\ p.mux.open = z.mux.open
        BY <2>1, WalkTurns
    <2>3. p.mux.rbuf = z.mux.rbuf
        BY <2>2 DEF Turns, Forwards
    <2> QED
        BY <2>1, <2>2, <2>3
<1>5. m \in Mbuf
    BY DEF Takes
<1>6. PICK q : /\ q \in Proxies /\ Becomes(s, q) /\ q.ep = p.ep
               /\ q.mux.wbuf = p.mux.wbuf /\ q.mux.wr = p.mux.wr /\ q.mux.freed = p.mux.freed
               /\ q.mux.open = p.mux.open /\ q.mux.rbuf = p.mux.rbuf
               /\ q.mux.rx_credit = p.mux.rx_credit
               /\ \/ q.mux.wqueue = Append(p.mux.wqueue, m)
                  \/ mux[s].freed /\ q.mux.wqueue = p.mux.wqueue
    <2>1. CASE ~mux[s].freed
        <3>1. PICK w \in Seq(Mbuf) : w = Append(p.mux.wqueue, m)
            <4>1. p.mux.wqueue \in Seq(Mbuf)
                BY <1>3, ProxiesFacts
            <4> QED
                BY <1>5, <4>1, AppendProperties
        <3>2. PICK n : n = [p.mux EXCEPT !.wqueue = w]
            OBVIOUS
        <3>3. /\ n.wqueue = w /\ n.wbuf = p.mux.wbuf /\ n.wr = p.mux.wr /\ n.freed = p.mux.freed
              /\ n.open = p.mux.open /\ n.rbuf = p.mux.rbuf /\ n.rx_credit = p.mux.rx_credit
            BY <1>3, <3>2, ProxiesFacts DEF MuxRec
        <3>4. PICK q : q = QueueToLine(p, m)
            OBVIOUS
        <3>5. q \in Proxies /\ q.mux = n /\ q.ep = p.ep
            BY <1>3, <1>5, <3>1, <3>2, <3>4, QueueToLineFacts
        <3>7. Becomes(s, q)
            BY <2>1, <3>4 DEF Queue
        <3> QED
            BY <3>1, <3>3, <3>5, <3>7
    <2>2. CASE mux[s].freed
        BY <1>3, <2>2 DEF Queue
    <2> QED
        BY <2>1, <2>2
<1>7. /\ mux' \in [Side -> MuxRec] /\ ep' \in [Side -> [Channel -> EpRec]]
      /\ mux'[s] = q.mux /\ ep'[s] = p.ep /\ mux'[o] = mux[o] /\ ep'[o] = ep[o]
    BY <1>1, <1>2, <1>6, BecomesFacts
<1>8. aborted' \in SUBSET Side /\ aborted \subseteq aborted'
    BY <1>1 DEF Queue, ProxyTypeOK
<1>9. ProxyTypeOK'
    BY <1>1, <1>7, <1>8 DEF ProxyTypeOK
<1>10. Aside(o)
    BY <1>2, <1>7, <1>8 DEF Aside, Running
<1>11. Sent(s, o) /\ Outgoing(s)'
    <2>1. /\ mux'[s].wbuf = mux[s].wbuf /\ mux'[s].wr = mux[s].wr /\ mux'[s].freed = mux[s].freed
        BY <1>4, <1>6, <1>7
    <2>2. CASE mux'[s].wqueue = Append(mux[s].wqueue, m)
        <3>1. EndpointInv(s) /\ EndpointInv(o)
            BY InvParts DEF Incoming
        <3> QED
            BY <1>1, <1>2, <1>10, <2>1, <2>2, <3>1, SentQueued
    <2>3. CASE mux[s].freed /\ mux'[s].wqueue = mux[s].wqueue
        <3>1. \A c \in Channel : sock[s][c].taken <= sock'[s][c].taken /\ sock'[s][c].taken \in Nat
            BY DEF Takes
        <3> QED
            BY <1>1, <1>2, <1>10, <2>1, <2>3, <3>1, SentLost
    <2> QED
        BY <1>4, <1>6, <1>7, <2>2, <2>3
<1>12. Kept(s)
    <2>1. mux'[s].rbuf = mux[s].rbuf
        BY <1>4, <1>6, <1>7
    <2>2. ASSUME NEW c \in Channel
          PROVE  Advances(ep[s][c], sock[s][c], ep'[s][c], sock'[s][c], c)
        <3>1. Moves(ep[s][c], ep'[s][c], c)
            BY <1>3, <1>7, <2>2
        <3>2. Len(sock[s][c].got) \in Nat
            BY <1>1, <2>2, SideTypes, LenProperties
        <3> QED
            BY <2>2, <3>1, <3>2, MovesAdvances
    <2>3. Running(s)' => Running(s)
        BY <1>8 DEF Running
    <2> QED
        BY <1>2, <1>7, <2>1, <2>2, <2>3 DEF Kept
<1>13. Incoming(s)'
    BY <1>1, <1>12, IncomingKept
<1>14. Orders(s)
    BY DEF Orders, Takes
<1>15. mux'[s].open /\ Running(s)' =>
           mux'[s].rx_credit + Total([c \in Channel |-> TotalLength(ep'[s][c].wqueue)])
               = MultiplexCredit
    BY <1>3, <1>4, <1>6, <1>7, CreditKept
<1> QED
    BY <1>2, <1>9, <1>11, <1>13, <1>14, <1>15, SideStep
-----------------------------------------------------------------------------
(* The programs, and what the loop does for the line                        *)

\* One program's end of a connection changes.
LEMMA SockFacts ==
    ASSUME ProxyTypeOK, NEW s \in Side, NEW c \in Channel, NEW k \in SockRec,
           sock' = [sock EXCEPT ![s][c] = k]
    PROVE  /\ sock' \in [Side -> [Channel -> SockRec]] /\ sock'[s][c] = k
           /\ \A x \in Channel : x # c => sock'[s][x] = sock[s][x]
           /\ sock'[Other(s)] = sock[Other(s)]
    BY SideFacts DEF ProxyTypeOK

\* A program's end changes in what the invariant does not mention.
LEMMA ProgramStep ==
    ASSUME ProxyInv, NEW s \in Side, NEW c \in Channel, NEW k \in SockRec,
           sock' = [sock EXCEPT ![s][c] = k], k.got = sock[s][c].got, k.taken = sock[s][c].taken,
           UNCHANGED <<mux, ep, next_channel_id, line, lineOpen, poll, aborted>>
    PROVE  ProxyInv'
<1>1. ProxyTypeOK
    BY DEF ProxyInv
<1>2. /\ sock' \in [Side -> [Channel -> SockRec]] /\ sock'[s][c] = k
      /\ \A x \in Channel : x # c => sock'[s][x] = sock[s][x]
      /\ sock'[Other(s)] = sock[Other(s)]
    BY <1>1, SockFacts
<1>3. \A x \in Side : x = s \/ x = Other(s)
    BY SideFacts
<1>4. \A x \in Side, y \in Channel :
          sock'[x][y].got = sock[x][y].got /\ sock'[x][y].taken = sock[x][y].taken
    BY <1>2, <1>3
<1>5. ProxyTypeOK'
    BY <1>1, <1>2 DEF ProxyTypeOK
<1> QED
    BY <1>4, <1>5, StillStep

\* A program sends.
LEMMA ProgramSendsInv ==
    ASSUME ProxyInv, NEW s \in Side, NEW c \in Channel, ProgramSends(s, c)
    PROVE  ProxyInv'
<1>1. PICK k \in SockRec : k = sock[s][c]
    BY DEF ProxyInv, ProxyTypeOK
<1>2. PICK n \in 1 .. MaxSend[s] - k.sent : sock' = [sock EXCEPT ![s][c].sent = @ + n]
    BY <1>1 DEF ProgramSends
<1>3. k.sent + n \in 0 .. MaxBytes
    <2>1. MaxSend[s] \in Nat /\ MaxBytes \in Nat /\ MaxSend[s] <= MaxBytes
        BY ProxyAssumption DEF MaxBytes, Side
    <2>2. k.sent \in 0 .. MaxBytes
        BY DEF SockRec
    <2> QED
        BY <2>1, <2>2
<1>4. PICK l : l = [k EXCEPT !.sent = k.sent + n]
    OBVIOUS
<1>5. l \in SockRec /\ l.got = k.got /\ l.taken = k.taken
    BY <1>3, <1>4 DEF SockRec
<1>6. sock' = [sock EXCEPT ![s][c] = [sock[s][c] EXCEPT !.sent = sock[s][c].sent + n]]
    BY <1>2
<1> QED
    BY <1>1, <1>4, <1>5, <1>6, ProgramStep DEF ProgramSends

\* A program reads.
LEMMA ProgramReadsInv ==
    ASSUME ProxyInv, NEW s \in Side, NEW c \in Channel, ProgramReads(s, c)
    PROVE  ProxyInv'
<1>1. PICK k \in SockRec : k = sock[s][c]
    BY DEF ProxyInv, ProxyTypeOK
<1>2. PICK l : l = [k EXCEPT !.unread = 0]
    OBVIOUS
<1>3. 0 \in 0 .. SockSize
    BY ProxyAssumption
<1>4. l \in SockRec /\ l.got = k.got /\ l.taken = k.taken
    BY <1>2, <1>3 DEF SockRec
<1>5. sock' = [sock EXCEPT ![s][c] = [sock[s][c] EXCEPT !.unread = 0]]
    BY DEF ProgramReads
<1>6. sock' = [sock EXCEPT ![s][c] = l] /\ l.got = sock[s][c].got /\ l.taken = sock[s][c].taken
    BY <1>1, <1>2, <1>4, <1>5
<1> QED
    BY <1>4, <1>6, ProgramStep, ZenonT(60) DEF ProgramReads

\* A program closes its connection.
LEMMA ProgramClosesInv ==
    ASSUME ProxyInv, NEW s \in Side, NEW c \in Channel, ProgramCloses(s, c)
    PROVE  ProxyInv'
<1>1. PICK k \in SockRec : k = sock[s][c]
    BY DEF ProxyInv, ProxyTypeOK
<1>2. PICK l : l = [k EXCEPT !.st = "closed"]
    OBVIOUS
<1>3. l \in SockRec /\ l.got = k.got /\ l.taken = k.taken
    BY <1>2 DEF SockRec
<1>4. sock' = [sock EXCEPT ![s][c] = [sock[s][c] EXCEPT !.st = "closed"]]
    BY DEF ProgramCloses
<1>5. sock' = [sock EXCEPT ![s][c] = l] /\ l.got = sock[s][c].got /\ l.taken = sock[s][c].taken
    BY <1>1, <1>2, <1>3, <1>4
<1>6. UNCHANGED <<mux, ep, next_channel_id, line, lineOpen, poll, aborted>>
    BY DEF ProgramCloses
<1> QED
    BY <1>3, <1>5, <1>6, ProgramStep

\* The line closes.
LEMMA LineClosesInv ==
    ASSUME ProxyInv, LineCloses
    PROVE  ProxyInv'
<1>1. ProxyTypeOK'
    BY DEF ProxyInv, ProxyTypeOK, LineCloses
<1> QED
    BY <1>1, StillStep DEF LineCloses

\* poll reports what has happened.
LEMMA PollInv ==
    ASSUME ProxyInv, NEW s \in Side, Poll(s)
    PROVE  ProxyInv'
<1>1. PICK r : r = {e \in poll[s].events : Happens(s, e)}
    OBVIOUS
<1>2. r \in SUBSET Event
    BY <1>1 DEF ProxyInv, ProxyTypeOK, PollRec
<1>3. PICK a \in {"prepare", "handle"} : poll' = [poll EXCEPT ![s] = [at |-> a, events |-> r]]
    BY <1>1 DEF Poll
<1>4. [at |-> a, events |-> r] \in PollRec
    BY <1>2, <1>3 DEF PollRec
<1>5. ProxyTypeOK'
    BY <1>3, <1>4 DEF Poll, ProxyInv, ProxyTypeOK
<1> QED
    BY <1>5, StillStep DEF Poll

\* A descriptor is passed over.
LEMMA SkipChannelInv ==
    ASSUME ProxyInv, NEW s \in Side, NEW c \in Channel, SkipChannel(s, c)
    PROVE  ProxyInv'
<1>1. ProxyTypeOK
    BY DEF ProxyInv
<1>2. poll' \in [Side -> PollRec]
    BY <1>1, HandleFacts DEF SkipChannel
<1>3. ProxyTypeOK'
    BY <1>1, <1>2 DEF SkipChannel, ProxyTypeOK
<1> QED
    BY <1>3, StillStep DEF SkipChannel
\* What poll is asked for are events.
LEMMA PollFacts ==
    ASSUME NEW p
    PROVE  PollMux(p) \subseteq Event /\ PollChannels(p) \subseteq Event
<1>1. ASSUME NEW X, X \subseteq Event
      PROVE  WithHangup(X) \subseteq Event
    BY <1>1 DEF WithHangup, Event
<1>2. PICK X : X = {<<"in", m>> : m \in {m \in {m \in {Mux} : p.mux.open} : p.mux.rx_credit > 0}}
                   \cup {<<"out", m>> : m \in {m \in {m \in {Mux} : p.mux.open} :
                                                  p.mux.wr /\ p.mux.wbuf # <<>>}}
    OBVIOUS
<1>3. X \subseteq Event
    BY <1>2 DEF Event
<1>4. PICK P : P = {c \in Channel : p.ep[c].st = "open" /\ p.ep[c].rd}
    OBVIOUS
<1>5. PICK Y : Y = {<<"in", c>> : c \in {c \in P : p.ep[c].rx_credit > 0}}
                   \cup {<<"out", c>> : c \in {c \in P : p.ep[c].wr /\ p.ep[c].wbuf # <<>>}}
    OBVIOUS
<1>6. Y \subseteq Event
    BY <1>4, <1>5 DEF Event
<1>7. PollMux(p) = WithHangup(X)
    BY <1>2 DEF PollMux
<1>8. PollChannels(p) = WithHangup(Y)
    BY <1>4, <1>5 DEF PollChannels
<1> QED
    BY <1>1, <1>3, <1>6, <1>7, <1>8

\* A round of the loop begins.
LEMMA PrepareInv ==
    ASSUME ProxyInv, NEW s \in Side, Prepare(s)
    PROVE  ProxyInv'
<1>1. ProxyTypeOK /\ Incoming(s)
    BY InvParts
<1>2. PICK z \in Proxies : z = Proxy(s) /\ \A c \in Channel : Listed(z.ep[c])
    BY <1>1, ProxyFacts DEF Incoming
<1>3. PICK p, q, E : /\ p = IF s = "guest" THEN PrepareMux(z) ELSE PrepareChannels(z)
                     /\ q = IF s = "guest" THEN PrepareChannels(p) ELSE PrepareMux(p)
                     /\ Becomes(s, q)
                     /\ E = IF s = "guest" THEN PollMux(p) \cup PollChannels(q)
                            ELSE PollChannels(p) \cup PollMux(q)
                     /\ poll' = [poll EXCEPT ![s] = [at |-> "poll", events |-> E]]
    BY <1>2 DEF Prepare
<1>4. Turns(z, q)
    <2>1. q = PrepareChannels(PrepareMux(z)) \/ q = PrepareMux(PrepareChannels(z))
        BY <1>3
    <2> QED
        BY <1>2, <2>1, TurnBoth
<1>5. poll' \in [Side -> PollRec]
    <2>1. E \in SUBSET Event
        BY <1>3, PollFacts
    <2>2. [at |-> "poll", events |-> E] \in PollRec
        BY <2>1 DEF PollRec
    <2> QED
        BY <1>1, <1>3, <2>2 DEF ProxyTypeOK
<1> QED
    BY <1>2, <1>3, <1>4, <1>5, TurnStep DEF Prepare

\* A channel is shut down for writing.
LEMMA ShutdownChannelInv ==
    ASSUME ProxyInv, NEW s \in Side, NEW c \in Channel, ShutdownChannel(s, c)
    PROVE  ProxyInv'
<1>1. ProxyTypeOK /\ Incoming(s)
    BY InvParts
<1>2. PICK z \in Proxies : z = Proxy(s) /\ z.ep = ep[s] /\ \A x \in Channel : Listed(z.ep[x])
    BY <1>1, ProxyFacts DEF Incoming
<1>3. Running(s) /\ poll' \in [Side -> PollRec]
    BY <1>1, HandleFacts DEF ShutdownChannel
<1>4. z.ep[c].st = "open"
    BY <1>2 DEF ShutdownChannel, Listed
<1>5. PICK q : q = ShutdownWrite(z, c)
    OBVIOUS
<1>6. Local(z, q, c)
    BY <1>2, <1>4, <1>5, LocalShutdownWrite
<1>7. Turns(z, q)
    BY <1>2, <1>6, LocalWalks, WalkTurns
<1> QED
    BY <1>2, <1>3, <1>5, <1>7, TurnStep DEF ShutdownChannel

\* Writing to the line fails.
LEMMA ShutdownLineInv ==
    ASSUME ProxyInv, NEW s \in Side, ShutdownLine(s)
    PROVE  ProxyInv'
<1>1. ProxyTypeOK /\ Incoming(s)
    BY InvParts
<1>2. PICK z \in Proxies : z = Proxy(s) /\ \A x \in Channel : Listed(z.ep[x])
    BY <1>1, ProxyFacts DEF Incoming
<1>3. Running(s) /\ poll' \in [Side -> PollRec]
    BY <1>1, HandleFacts DEF ShutdownLine
<1>4. PICK q : q = IF mux[s].wr THEN ShutdownMuxWrite(z) ELSE z
    OBVIOUS
<1>5. Turns(z, q)
    <2>1. Turns(z, z)
        BY <1>2 DEF Turns, Forwards, Conveys, Moves
    <2> QED
        BY <1>2, <1>4, <2>1, TurnShutdown
<1> QED
    BY <1>2, <1>3, <1>4, <1>5, TurnStep DEF ShutdownLine

\* The line ended.
LEMMA LineEofInv ==
    ASSUME ProxyInv, NEW s \in Side, LineEof(s)
    PROVE  ProxyInv'
<1>1. ProxyTypeOK /\ Incoming(s)
    BY InvParts
<1>2. PICK z \in Proxies : z = Proxy(s) /\ \A x \in Channel : Listed(z.ep[x])
    BY <1>1, ProxyFacts DEF Incoming
<1>3. Running(s) /\ poll' \in [Side -> PollRec]
    BY <1>1, HandleFacts DEF LineEof
<1>4. PICK y : /\ y = foreach_io_endpoint(z, [c \in Channel |-> halfclose(z, c)])
               /\ Walks(z, y)
    BY <1>2, WalkHalfclose
<1>5. y \in Proxies
    BY <1>4 DEF Walks
<1>6. PICK n : n = [y.mux EXCEPT !.open = FALSE]
    OBVIOUS
<1>7. /\ n \in MuxRec /\ n.open = FALSE /\ n.wbuf = y.mux.wbuf /\ n.wqueue = y.mux.wqueue
      /\ n.wr = y.mux.wr /\ n.freed = y.mux.freed /\ n.rbuf = y.mux.rbuf
      /\ n.rx_credit = y.mux.rx_credit
    BY <1>5, <1>6, ProxiesFacts DEF MuxRec
<1>8. PICK q : q = [y EXCEPT !.mux.open = FALSE]
    OBVIOUS
<1>9. q = [mux |-> n, ep |-> y.ep]
    <2>1. y \in [mux : MuxRec, ep : [Channel -> EpRec]]
        BY <1>5 DEF Proxies
    <2> QED
        BY <1>6, <1>8, <2>1 DEF MuxRec
<1>10. q \in Proxies /\ q.mux = n /\ q.ep = y.ep
    BY <1>5, <1>7, <1>9, ProxiesFacts DEF Proxies
<1>11. Turns(z, q)
    <2>1. Turns(z, y)
        BY <1>2, <1>4, WalkTurns
    <2>2. Forwards(z.mux, n)
        BY <1>7, <2>1 DEF Turns, Forwards, Conveys
    <2>3. Credit(q) = Credit(y)
        BY <1>7, <1>10 DEF Credit, Lengths
    <2> QED
        BY <1>10, <2>1, <2>2, <2>3 DEF Turns
<1> QED
    BY <1>2, <1>3, <1>4, <1>8, <1>11, TurnStep DEF LineEof
\* Three sequences one after the other.
Three(R, K, b) == R \o K \o b

\* The beginning of what is being written moves to the line.
LEMMA MovedToLine ==
    ASSUME NEW S, NEW R \in Seq(S), NEW K \in Seq(S), NEW a \in Seq(S), NEW r \in Seq(S)
    PROVE  Three(R, K \o a, r) = Three(R, K, a \o r)
<1>1. PICK k \in Seq(S) : k = K \o a
    BY ConcatProperties
<1>2. PICK b \in Seq(S) : b = a \o r
    BY ConcatProperties
<1>3. (K \o a) \o r = K \o (a \o r)
    BY ConcatAssociative, SMTT(60)
<1>4. (R \o k) \o r = R \o (k \o r)
    BY ConcatAssociative, SMTT(60)
<1>5. (R \o K) \o b = R \o (K \o b)
    BY ConcatAssociative, SMTT(60)
<1> QED
    BY <1>1, <1>2, <1>3, <1>4, <1>5 DEF Three

\* What fits is written to the line.
LEMMA WriteLineInv ==
    ASSUME ProxyInv, NEW s \in Side, WriteLine(s)
    PROVE  ProxyInv'
<1>1. ProxyTypeOK /\ Outgoing(s) /\ Incoming(s) /\ CreditAccounted
    BY InvParts
<1>2. PICK o \in Side : o = Other(s) /\ s = Other(o) /\ o # s
    BY SideFacts
<1>3. Running(s) /\ poll' \in [Side -> PollRec]
    BY <1>1, HandleFacts DEF WriteLine
<1>4. PICK R \in Seq(Unit), K \in Seq(Unit), b \in Seq(Unit) :
          R = mux[o].rbuf /\ K = line[s] /\ b = mux[s].wbuf
    BY <1>1, SideTypes
<1>5. Len(K) \in Nat /\ Len(b) \in Nat /\ Len(K) <= LineSize /\ LineSize \in Nat
    BY <1>1, <1>4, LenProperties, ProxyAssumption DEF ProxyTypeOK
<1>6. PICK n \in 0 .. Len(b) : n = Least(Len(b), LineSize - Len(K)) /\ Len(K) + n <= LineSize
    BY <1>5 DEF Least
<1>7. PICK a, r : a = SubSeq(b, 1, n) /\ r = SubSeq(b, n + 1, Len(b))
    OBVIOUS
<1>8. a \in Seq(Unit) /\ r \in Seq(Unit) /\ Len(a) = n /\ a \o r = b
    BY <1>7, CutSplits
<1>9. PICK k \in Seq(Unit) : k = K \o a /\ Len(k) = Len(K) + n
    BY <1>8, ConcatProperties
<1>10. line' = [line EXCEPT ![s] = k]
    BY <1>4, <1>6, <1>7, <1>9 DEF WriteLine
<1>11. line' \in [Side -> Seq(Unit)] /\ line'[s] = k /\ line'[o] = line[o]
    BY <1>1, <1>2, <1>10 DEF ProxyTypeOK
<1>12. PICK m \in MuxRec : m = [mux[s] EXCEPT !.wbuf = r]
    BY <1>1, <1>8, SideTypes DEF MuxRec
<1>13. /\ m.wbuf = r /\ m.wqueue = mux[s].wqueue /\ m.wr = mux[s].wr /\ m.freed = mux[s].freed
       /\ m.rbuf = mux[s].rbuf /\ m.open = mux[s].open /\ m.rx_credit = mux[s].rx_credit
    BY <1>1, <1>12, SideTypes DEF MuxRec
<1>14. mux' = [mux EXCEPT ![s] = m]
    BY <1>4, <1>6, <1>7, <1>12 DEF WriteLine
<1>15. mux' \in [Side -> MuxRec] /\ mux'[s] = m /\ mux'[o] = mux[o]
    BY <1>1, <1>2, <1>14 DEF ProxyTypeOK
<1>16. ep' = ep /\ next_channel_id' = next_channel_id /\ lineOpen' = lineOpen /\ sock' = sock
       /\ aborted' = aborted
    BY DEF WriteLine
<1>17. ProxyTypeOK'
    <2>1. \A x \in Side : Len(line'[x]) <= LineSize
        <3>1. Len(k) <= LineSize
            BY <1>6, <1>9
        <3>2. \A x \in Side : x = s \/ x = o
            BY <1>2, SideFacts
        <3> QED
            BY <1>1, <1>11, <3>1, <3>2 DEF ProxyTypeOK
    <2> QED
        BY <1>1, <1>3, <1>11, <1>15, <1>16, <2>1 DEF ProxyTypeOK
<1>18. Stream(o)' = Stream(o)
    <2>1. Stream(o) = Three(R, K, b) /\ Stream(o)' = Three(R, k, r)
        BY <1>2, <1>4, <1>11, <1>13, <1>15 DEF Stream, Three
    <2>2. R \in Seq(Unit) /\ K \in Seq(Unit) /\ a \in Seq(Unit) /\ r \in Seq(Unit)
        BY <1>4, <1>8
    <2>3. Three(R, K \o a, r) = Three(R, K, a \o r)
        BY <2>2, MovedToLine
    <2> QED
        BY <1>8, <1>9, <2>1, <2>3
<1>19. Running(s)' = Running(s) /\ Running(o)' = Running(o) /\ next_channel_id \in Int
    BY <1>1, <1>16 DEF Running, ProxyTypeOK
<1>20. Sent(s, o)
    BY <1>2, <1>13, <1>15, <1>16, <1>18, <1>19 DEF Sent
<1>21. Outgoing(s)'
    BY <1>1, <1>13, <1>15 DEF Outgoing
<1>22. Kept(s)
    <2>1. ASSUME NEW c \in Channel
          PROVE  Advances(ep[s][c], sock[s][c], ep[s][c], sock[s][c], c)
        BY <1>1, <2>1 DEF Advances, Incoming, EndpointInv, Listed
    <2> QED
        BY <1>2, <1>11, <1>13, <1>15, <1>16, <1>19, <2>1 DEF Kept
<1>23. Incoming(s)'
    BY <1>1, <1>22, IncomingKept
<1>24. Orders(s)
    <2>1. \A c \in Channel : sock[s][c].taken \in Nat
        BY <1>1, SideTypes
    <2> QED
        BY <1>16, <2>1 DEF Orders
<1>25. mux'[s].open /\ Running(s)' =>
           mux'[s].rx_credit + Total([c \in Channel |-> TotalLength(ep'[s][c].wqueue)])
               = MultiplexCredit
    BY <1>1, <1>13, <1>15, <1>16, <1>19 DEF CreditAccounted
<1> QED
    BY <1>2, <1>17, <1>20, <1>21, <1>23, <1>24, <1>25, SideStep

-----------------------------------------------------------------------------
(* Input from the programs                                                  *)

\* A command is a packet without bytes.
LEMMA CommandFacts ==
    ASSUME NEW cmd \in {"OPEN", "CLOSE"}, NEW c \in Channel
    PROVE  /\ Command(cmd, c) \in Mbuf /\ Packet(Command(cmd, c).data)
           /\ Command(cmd, c).data[1] = Header(cmd, c, 0)
           /\ \A x : In(Command(cmd, c).data, x) = {}
<1>1. PICK h \in Unit : h = Header(cmd, c, 0)
    <2>1. 0 \in 0 .. MaxBytes
        BY UnitFacts
    <2> QED
        BY <2>1 DEF Unit, Header
<1>2. PICK d : d = <<h>>
    OBVIOUS
<1>3. d \in Seq(Unit) /\ Len(d) = 1 /\ d[1] = h /\ Head(d) = h /\ DOMAIN d = 1 .. 1 /\ d # <<>>
    BY <1>2
<1>4. h.cmd = cmd /\ h.channel = c /\ h.count = 0
    BY <1>1 DEF Header
<1>5. PICK m : m = Command(cmd, c)
    OBVIOUS
<1>6. m \in Mbuf /\ m.data = d
    BY <1>1, <1>2, <1>3, <1>5 DEF Command, Mbuf
<1>7. Packet(d)
    BY <1>3, <1>4 DEF Packet, PacketSize
<1>8. \A x : In(d, x) = {}
    BY <1>3, <1>4 DEF In, IsByte
<1> QED
    BY <1>1, <1>3, <1>5, <1>6, <1>7, <1>8

\* The n bytes of channel c after the first t, as a packet.
Data(c, t, n) == <<Header("DATA", c, n)>> \o Bytes(c, t, t + n)

\* What d is when it is that packet.
Carries(d, c, t, n) ==
    /\ d \in Seq(Unit) /\ Packet(d) /\ d[1] = Header("DATA", c, n)
    /\ \A x : x \in In(d, c) <=> x \in t + 1 .. t + n
    /\ \A y : y # c => \A x : x \notin In(d, y)

\* Bytes of a channel in a row are one packet.
LEMMA DataFacts ==
    ASSUME NEW c \in Channel, NEW t \in Nat, NEW n \in Nat, n > 0, t + n <= MaxBytes
    PROVE  Carries(Data(c, t, n), c, t, n)
<1> DEFINE d == Data(c, t, n)
<1> HIDE DEF d
<1>1. MaxBytes \in Nat /\ n \in 0 .. MaxBytes
    BY UnitFacts
<1>2. PICK h \in Unit : h = Header("DATA", c, n)
    BY <1>1 DEF Unit, Header
<1>3. h.cmd = "DATA" /\ h.channel = c /\ h.count = n
    BY <1>2 DEF Header
<1>4. PICK p \in Seq(Unit) : p = <<h>> /\ Len(p) = 1 /\ p[1] = h /\ DOMAIN p = 1 .. 1
    <2>1. <<h>> \in Seq(Unit) /\ Len(<<h>>) = 1 /\ <<h>>[1] = h
        OBVIOUS
    <2>2. DOMAIN <<h>> = 1 .. 1
        BY <2>1, LenProperties
    <2> QED
        BY <2>1, <2>2
<1>5. PICK V : V = [i \in 1 .. n |-> Header("BYTE", c, t + i)]
    OBVIOUS
<1>6. V \in Seq(Unit) /\ Len(V) = n /\ DOMAIN V = 1 .. n
    <2>1. \A i \in 1 .. n : Header("BYTE", c, t + i) \in Unit
        <3>1. \A i \in 1 .. n : t + i \in 1 .. MaxBytes
            BY <1>1
        <3> QED
            BY <3>1, UnitFacts DEF Byte, Header
    <2>2. V \in [1 .. n -> Unit]
        BY <1>5, <2>1
    <2>3. V \in Seq(Unit)
        BY <2>2, SeqDef
    <2> QED
        BY <2>2, <2>3, LenProperties
<1>7. Bytes(c, t, t + n) = V
    <2>1. (t + n) - t = n
        OBVIOUS
    <2> QED
        BY <1>5, <2>1 DEF Bytes
<1>8. d \in Seq(Unit) /\ Splits(d, p, V)
    BY <1>2, <1>4, <1>6, <1>7, ConcatSplits DEF d, Data
<1>9. Len(d) = 1 + n /\ DOMAIN d = 1 .. 1 + n /\ d[1] = h /\ Head(d) = h /\ d # <<>>
    <2>1. Len(d) = 1 + n /\ d[1] = h
        BY <1>4, <1>6, <1>8 DEF Splits
    <2>2. d # <<>>
        BY <1>8, <2>1, SeqFacts
    <2> QED
        BY <1>8, <2>1, <2>2, SeqFacts, HeadTailProperties
<1>10. \A j \in DOMAIN d : j # 1 => d[j] = Header("BYTE", c, t + (j - 1))
    <2>1. TAKE j \in DOMAIN d
    <2>2. HAVE j # 1
    <2>3. PICK i \in 1 .. n : i = j - 1 /\ j = 1 + i
        BY <1>9, <2>1, <2>2
    <2>4. d[1 + i] = V[i]
        BY <1>4, <1>6, <1>8, <2>3 DEF Splits
    <2> QED
        BY <1>5, <2>3, <2>4
<1>11. \A j \in DOMAIN d : j # 1 => IsByte(d[j], c) /\ d[j].count = t + (j - 1)
    <2>1. TAKE j \in DOMAIN d
    <2>2. PICK x : x = t + (j - 1)
        OBVIOUS
    <2>3. j # 1 => d[j] = Header("BYTE", c, x)
        BY <1>10, <2>1, <2>2
    <2> QED
        BY <2>2, <2>3 DEF IsByte, Header
<1>12. d[2].count = t + 1
    <2>1. 2 \in DOMAIN d /\ 2 # 1 /\ t + (2 - 1) = t + 1
        BY <1>9
    <2> QED
        BY <1>11, <2>1
<1>13. Packet(d)
    <2>1. Len(d) = PacketSize(d)
        BY <1>3, <1>9 DEF PacketSize
    <2>2. \A j \in DOMAIN d : j # 1 => d[j].count = d[2].count + (j - 2)
        BY <1>9, <1>11, <1>12
    <2> QED
        BY <1>3, <1>9, <1>11, <2>1, <2>2 DEF Packet
<1>14. Holds(d, t + 1, n)
    BY <1>9, <1>12 DEF Holds
<1>15. \A x : x \in In(d, c) <=> x \in t + 1 .. t + n
    <2>1. PICK f \in Nat : f = t + 1 /\ f + n - 1 = t + n
        OBVIOUS
    <2>2. Holds(d, f, n)
        BY <1>14, <2>1
    <2>3. d[1].channel = c => \A x : x \in In(d, c) <=> x \in f .. f + n - 1
        BY <1>8, <1>13, <2>2, InPacket
    <2> QED
        BY <1>3, <1>9, <2>1, <2>3
<1>16. \A y : y # c => \A x : x \notin In(d, y)
    <2>1. PICK f \in Nat : f = t + 1
        OBVIOUS
    <2>2. Holds(d, f, n)
        BY <1>14, <2>1
    <2>3. \A y : d[1].channel # y => \A x : x \notin In(d, y)
        BY <1>8, <1>13, <2>2, InPacket
    <2> QED
        BY <1>3, <1>9, <2>3
<1>17. Carries(d, c, t, n)
    BY <1>2, <1>8, <1>9, <1>13, <1>15, <1>16 DEF Carries
<1> QED
    BY <1>17 DEF d

\* A read takes n bytes, no more than there are and than there is credit for.
LEMMA ReadSome ==
    ASSUME NEW e \in EpRec, NEW k \in SockRec, NEW n,
           n = Least(recv_bufsiz(e.rx_credit), k.sent - k.taken), n > 0
    PROVE  /\ n \in Nat /\ n <= e.rx_credit /\ k.taken + n <= k.sent
           /\ k.taken \in Nat /\ k.taken + n \in 0 .. MaxBytes
<1>1. e.rx_credit \in Nat /\ ReadSize \in Nat /\ MaxBytes \in Nat
    BY EpFacts, ProxyAssumption, UnitFacts
<1>2. k.sent \in 0 .. MaxBytes /\ k.taken \in 0 .. MaxBytes
    BY DEF SockRec
<1>3. PICK a \in Nat : a = recv_bufsiz(e.rx_credit) /\ a <= e.rx_credit
    BY <1>1 DEF recv_bufsiz, Least
<1>4. PICK b \in Int : b = k.sent - k.taken /\ k.sent = k.taken + b
    BY <1>1, <1>2
<1>5. n = Least(a, b) /\ n \in Int
    BY <1>3, <1>4 DEF Least
<1>6. n \in Nat /\ n <= a /\ n <= b
    BY <1>3, <1>4, <1>5 DEF Least
<1> QED
    BY <1>1, <1>2, <1>3, <1>4, <1>6

\* Input from a program is queued to the line.
LEMMA RecvMuxInv ==
    ASSUME ProxyInv, NEW s \in Side, NEW c \in Channel, RecvMux(s, c)
    PROVE  ProxyInv'
<1>1. ProxyTypeOK /\ Incoming(s)
    BY InvParts
<1>2. PICK z \in Proxies : z = Proxy(s) /\ z.ep = ep[s] /\ \A x \in Channel : Listed(z.ep[x])
    BY <1>1, ProxyFacts DEF Incoming
<1>3. PICK e \in EpRec, k \in SockRec : e = ep[s][c] /\ k = sock[s][c]
    BY <1>1, SideTypes
<1>4. PICK n : n = Least(recv_bufsiz(e.rx_credit), k.sent - k.taken) /\ n > 0
    BY <1>3 DEF RecvMux
<1>5. PICK f, d, m : /\ f = [e EXCEPT !.rx_credit = e.rx_credit - n]
                     /\ d = <<Header("DATA", c, n)>> \o Bytes(c, k.taken, k.taken + n)
                     /\ m = [source |-> e.addr, credit |-> n, data |-> d]
    OBVIOUS
<1>6. /\ Handle(s, "in", c) /\ e.rd /\ Queue(s, With(z, c, f, 0), m)
      /\ sock' = [sock EXCEPT ![s][c].taken = @ + n]
      /\ UNCHANGED <<next_channel_id, line, lineOpen>>
    BY <1>2, <1>3, <1>4, <1>5 DEF RecvMux
<1>7. Running(s) /\ poll' \in [Side -> PollRec]
    BY <1>1, <1>6, HandleFacts
<1>8. /\ n \in Nat /\ n <= e.rx_credit /\ k.taken \in Nat /\ k.taken + n \in 0 .. MaxBytes
    BY <1>3, <1>4, ReadSome
<1>9. f \in EpRec /\ f.st = e.st /\ f.rd = e.rd /\ f.wr = e.wr /\ f.wbuf = e.wbuf
      /\ f.wqueue = e.wqueue
    <2>1. e.rx_credit - n \in Nat
        BY <1>3, <1>8, EpFacts
    <2> QED
        BY <1>3, <1>5, <2>1 DEF EpRec
<1>10. e.st = "open" /\ Listed(e)
    BY <1>2, <1>3, <1>6 DEF Listed
<1>11. Walks(z, With(z, c, f, 0))
    <2>1. Moves(e, f, c)
        BY <1>3, <1>9, <1>10, MovesClosed DEF Listed
    <2>2. TotalLength(f.wqueue) + 0 = TotalLength(e.wqueue)
        BY <1>3, <1>9, EpFacts
    <2>3. Local(z, With(z, c, f, 0), c)
        BY <1>2, <1>3, <1>9, <2>1, <2>2, LocalIntro
    <2> QED
        BY <1>2, <2>3, LocalWalks
<1>12. PICK l \in SockRec : /\ l = [k EXCEPT !.taken = k.taken + n]
                            /\ l.taken = k.taken + n /\ l.got = k.got
    <2>1. [k EXCEPT !.taken = k.taken + n] \in SockRec
        BY <1>3, <1>8 DEF SockRec
    <2> QED
        BY <1>3, <2>1 DEF SockRec
<1>13. sock' = [sock EXCEPT ![s][c] = l]
    <2>1. sock' = [sock EXCEPT ![s][c] = [sock[s][c] EXCEPT !.taken = sock[s][c].taken + n]]
        BY <1>6
    <2> QED
        BY <1>3, <1>12, <2>1
<1>14. /\ sock' \in [Side -> [Channel -> SockRec]] /\ sock'[s][c] = l
       /\ \A x \in Channel : x # c => sock'[s][x] = sock[s][x]
       /\ sock'[Other(s)] = sock[Other(s)]
    BY <1>1, <1>12, <1>13, SockFacts, ZenonT(60)
<1>15. /\ d \in Seq(Unit) /\ Packet(d) /\ d[1] = Header("DATA", c, n)
       /\ \A x : x \in In(d, c) <=> x \in k.taken + 1 .. k.taken + n
       /\ \A y : y # c => \A x : x \notin In(d, y)
    <2>1. k.taken + n <= MaxBytes
        BY <1>8, UnitFacts
    <2>2. Carries(Data(c, k.taken, n), c, k.taken, n)
        BY <1>4, <1>8, <2>1, DataFacts
    <2>3. d = Data(c, k.taken, n)
        BY <1>5 DEF Data
    <2> QED
        BY <2>2, <2>3 DEF Carries
<1>16. m \in Mbuf /\ m.data = d
    BY <1>3, <1>5, <1>8, <1>15 DEF Mbuf, EpRec
<1>17. Takes(s, m)
    <2>1. ASSUME NEW y \in Channel
          PROVE  /\ sock[s][y].taken <= sock'[s][y].taken /\ sock'[s][y].taken \in Nat
                 /\ \A x : x \in In(d, y) <=> x \in sock[s][y].taken + 1 .. sock'[s][y].taken
        <3>1. CASE y = c
            <4>1. k.taken <= k.taken + n /\ k.taken + n \in Nat
                BY <1>8
            <4> QED
                BY <1>3, <1>12, <1>14, <1>15, <3>1, <4>1
        <3>2. CASE y # c
            <4>1. PICK t \in Nat : t = sock[s][y].taken /\ t = sock'[s][y].taken
                BY <1>1, <1>14, <2>1, <3>2, SideTypes
            <4>2. t + 1 .. t = {} /\ t <= t
                BY <4>1
            <4> QED
                BY <1>15, <3>2, <4>1, <4>2
        <3> QED
            BY <3>1, <3>2
    <2> QED
        BY <1>15, <1>16, <2>1 DEF Takes
<1>18. Later(s, m)
    <2>1. d[1].cmd # "OPEN"
        BY <1>15 DEF Header
    <2>2. \A y \in Channel : In(d, y) # {} => y = c
        BY <1>15
    <2> QED
        BY <1>3, <1>10, <1>16, <2>1, <2>2 DEF Later
<1>19. \A y \in Channel : sock'[s][y].got = sock[s][y].got
                          /\ (ep[s][y].st = "none" => sock'[s][y].taken = sock[s][y].taken)
    BY <1>3, <1>10, <1>12, <1>14
<1>20. PICK p : p = With(z, c, f, 0)
    OBVIOUS
<1> QED
    BY <1>2, <1>6, <1>7, <1>11, <1>14, <1>17, <1>18, <1>19, <1>20, QueueStep

\* The end of the input from a program is announced.
LEMMA RecvEofInv ==
    ASSUME ProxyInv, NEW s \in Side, NEW c \in Channel, RecvEof(s, c)
    PROVE  ProxyInv'
<1>1. ProxyTypeOK /\ Incoming(s)
    BY InvParts
<1>2. PICK z \in Proxies : z = Proxy(s) /\ z.ep = ep[s] /\ \A x \in Channel : Listed(z.ep[x])
    BY <1>1, ProxyFacts DEF Incoming
<1>3. PICK p, m : p = ShutdownRead(z, c) /\ m = Command("CLOSE", c)
    OBVIOUS
<1>4. /\ Handle(s, "in", c) /\ ep[s][c].rd /\ Queue(s, p, m)
      /\ UNCHANGED <<next_channel_id, line, lineOpen, sock>>
    BY <1>2, <1>3 DEF RecvEof
<1>5. Running(s) /\ poll' \in [Side -> PollRec]
    BY <1>1, <1>4, HandleFacts
<1>6. Walks(z, p)
    <2>1. z.ep[c].st = "open"
        BY <1>2, <1>4 DEF Listed
    <2>2. Local(z, p, c)
        BY <1>2, <1>3, <2>1, LocalShutdownRead
    <2> QED
        BY <1>2, <2>2, LocalWalks
<1>7. /\ m \in Mbuf /\ Packet(m.data) /\ m.data[1] = Header("CLOSE", c, 0)
      /\ \A x : In(m.data, x) = {}
    BY <1>3, CommandFacts
<1>8. sock' \in [Side -> [Channel -> SockRec]] /\ sock' = sock
    BY <1>1, <1>4 DEF ProxyTypeOK
<1>9. Takes(s, m)
    <2>1. ASSUME NEW y \in Channel
          PROVE  /\ sock[s][y].taken <= sock'[s][y].taken /\ sock'[s][y].taken \in Nat
                 /\ \A x : x \in In(m.data, y) <=> x \in sock[s][y].taken + 1 .. sock'[s][y].taken
        <3>1. PICK t \in Nat : t = sock[s][y].taken /\ t = sock'[s][y].taken
            BY <1>1, <1>8, <2>1, SideTypes
        <3>2. t + 1 .. t = {} /\ t <= t
            BY <3>1
        <3> QED
            BY <1>7, <3>1, <3>2
    <2> QED
        BY <1>7, <2>1 DEF Takes
<1>10. Later(s, m)
    BY <1>7 DEF Later, Header
<1> QED
    BY <1>2, <1>4, <1>5, <1>6, <1>8, <1>9, <1>10, QueueStep
-----------------------------------------------------------------------------
(* A new endpoint                                                           *)

\* A new endpoint has nothing to write.
LEMMA EndpointAtFacts ==
    ASSUME NEW a \in Channel
    PROVE  /\ EndpointAt(a) \in EpRec /\ EndpointAt(a).st = "open"
           /\ EndpointAt(a).rd = TRUE /\ EndpointAt(a).wr = TRUE
           /\ EndpointAt(a).wbuf = <<>> /\ EndpointAt(a).wqueue = <<>>
<1>1. SimplexCredit \in Nat
    BY ProxyAssumption
<1>2. <<>> \in Seq(Byte) /\ <<>> \in Seq(Seq(Byte))
    BY EmptySeq
<1> QED
    BY <1>1, <1>2 DEF EndpointAt, NoEndpoint, EpRec

\* p with the endpoint f for channel c, which has the same buffers queued.
LEMMA SameQueue ==
    ASSUME NEW p \in Proxies, NEW c \in Channel, NEW f \in EpRec, f.wqueue = p.ep[c].wqueue
    PROVE  \E q \in Proxies :
              /\ q = With(p, c, f, 0)
              /\ q.ep[c] = f
              /\ \A x \in Channel : x # c => q.ep[x] = p.ep[x]
              /\ q.mux = p.mux
              /\ Credit(q) = Credit(p)
<1>1. PICK q : q = With(p, c, f, 0)
    OBVIOUS
<1>2. /\ q \in Proxies /\ q.ep[c] = f
      /\ \A x \in Channel : x # c => q.ep[x] = p.ep[x]
    <2>1. /\ With(p, c, f, 0) \in Proxies /\ With(p, c, f, 0).ep[c] = f
          /\ \A x \in Channel : x # c => With(p, c, f, 0).ep[x] = p.ep[x]
        BY WithFacts
    <2> QED
        BY <1>1, <2>1
<1>3. q.mux = p.mux
    <2>1. PICK m \in MuxRec : m = p.mux
        BY ProxiesFacts
    <2>2. [m EXCEPT !.rx_credit = m.rx_credit + 0] = m
        BY <2>1 DEF MuxRec
    <2>3. q.mux = [m EXCEPT !.rx_credit = m.rx_credit + 0]
        BY <1>1, <2>1 DEF With
    <2> QED
        BY <2>1, <2>2, <2>3
<1>4. Lengths(q) = Lengths(p)
    <2>1. \A x \in Channel : q.ep[x].wqueue = p.ep[x].wqueue
        BY <1>2
    <2> QED
        BY <2>1 DEF Lengths
<1> QED
    BY <1>1, <1>2, <1>3, <1>4 DEF Credit

\* A program has a new connection.
Connects(s, c) == sock' = [sock EXCEPT ![s][c].st = "open"]

\* The program at the other end of a new endpoint.
LEMMA NewProgram ==
    ASSUME ProxyTypeOK, NEW s \in Side, NEW c \in Channel, Connects(s, c)
    PROVE  /\ sock' \in [Side -> [Channel -> SockRec]] /\ sock'[Other(s)] = sock[Other(s)]
           /\ \A x \in Channel : /\ sock'[s][x].got = sock[s][x].got
                                 /\ sock'[s][x].taken = sock[s][x].taken
<1>1. PICK k \in SockRec : k = sock[s][c]
    BY SideTypes
<1>2. PICK l \in SockRec : l = [k EXCEPT !.st = "open"] /\ l.got = k.got /\ l.taken = k.taken
    <2>1. [k EXCEPT !.st = "open"] \in SockRec
        BY <1>1 DEF SockRec
    <2> QED
        BY <1>1, <2>1 DEF SockRec
<1>3. sock' = [sock EXCEPT ![s][c] = l]
    <2>1. sock' = [sock EXCEPT ![s][c] = [sock[s][c] EXCEPT !.st = "open"]]
        BY DEF Connects
    <2> QED
        BY <1>1, <1>2, <2>1
<1>4. /\ sock' \in [Side -> [Channel -> SockRec]] /\ sock'[s][c] = l
      /\ \A x \in Channel : x # c => sock'[s][x] = sock[s][x]
      /\ sock'[Other(s)] = sock[Other(s)]
    BY <1>2, <1>3, SockFacts
<1> QED
    BY <1>1, <1>2, <1>4

\* The guest announces channel c, which is the next, to the host.
LEMMA SentOpen ==
    ASSUME ProxyTypeOK, NEW s \in Side, NEW o \in Side, s = "guest", o = "host", Aside(o),
           Outgoing(s), EndpointInv(o), NEW c \in Channel, c = next_channel_id,
           next_channel_id' = c + 1,
           mux'[s].wbuf = mux[s].wbuf, mux'[s].wr = mux[s].wr, mux'[s].freed = mux[s].freed,
           mux'[s].wqueue = Append(mux[s].wqueue, Command("OPEN", c)), line'[s] = line[s],
           \A x \in Channel : sock'[s][x].taken = sock[s][x].taken
    PROVE  Sent(s, o) /\ Outgoing(s)'
<1>1. o = Other(s) /\ s = Other(o)
    BY DEF Other
<1>2. PICK w \in Seq(Mbuf), U \in Seq(Unit), l \in BOOLEAN :
          w = mux[s].wqueue /\ U = Stream(o) /\ l = mux[s].wr
    BY SideTypes
<1>3. Stream(o)' = U
    BY <1>1, <1>2 DEF Stream, Aside
<1>4. c \in Nat /\ c < c + 1
    BY ProxyAssumption DEF Channel
<1>5. /\ ep'[o] = ep[o] /\ mux'[o] = mux[o] /\ sock'[o] = sock[o]
      /\ (Running(o)' => Running(o))
      /\ next_channel_id' \in Int
      /\ next_channel_id <= next_channel_id'
    BY <1>4 DEF Aside, ProxyTypeOK
<1>6. PICK m : m = Command("OPEN", c)
    OBVIOUS
<1>7. /\ m \in Mbuf /\ Packet(m.data) /\ m.data[1] = Header("OPEN", c, 0)
      /\ \A x : In(m.data, x) = {}
    BY <1>6, CommandFacts
<1>12. m \in Mbuf
    BY <1>7
<1>8. \A x \in Channel : IsOpen(m.data[1], x) <=> x = c
    BY <1>7 DEF IsOpen, Header
<1>9. ASSUME NEW x \in Channel
      PROVE  /\ \A e \in Nat : Flow(U, w, l, x, e, sock[s][x].taken)
                    => Flow(U, Append(w, m), l, x, e, sock[s][x].taken)
             /\ Opening(U, w, l, x, ep[o][x].st = "none", x < next_channel_id)
                    => Opening(U, Append(w, m), l, x, ep[o][x].st = "none",
                               x < next_channel_id')
    <2>1. PICK t \in Nat : t = sock[s][x].taken /\ t <= t /\ t + 1 .. t = {}
        BY <1>9, SideTypes
    <2>2. \A y : y \in In(m.data, x) <=> y \in t + 1 .. t
        BY <1>7, <2>1
    <2>3. \A e \in Nat : Flow(U, w, l, x, e, t) => Flow(U, Append(w, m), l, x, e, t)
        BY <1>2, <1>7, <2>1, <2>2, FlowEnqueue, SMTT(40)
    <2>9. PICK y \in Nat, n \in Nat, k \in Nat : y = x /\ n = next_channel_id /\ k = next_channel_id'
                                                 /\ n = c /\ k = n + 1
        BY <1>4, <1>9, ProxyAssumption DEF Channel
    <2>4. PICK new \in BOOLEAN, due \in BOOLEAN :
              new = (ep[o][x].st = "none") /\ due = (y < n)
        <3>1. y < n => TRUE = (y < n)
            BY <2>9
        <3>2. ~(y < n) => FALSE = (y < n)
            BY <2>9
        <3>3. PICK due \in BOOLEAN : due = (y < n)
            BY <3>1, <3>2, Zenon
        <3> QED
            BY <3>3, Zenon
    <2>10. PICK due2 \in BOOLEAN : due2 = (y < k)
        <3>1. y < k => TRUE = (y < k)
            BY <2>9
        <3>2. ~(y < k) => FALSE = (y < k)
            BY <2>9
        <3> QED
            BY <3>1, <3>2, Zenon
    <2>5. x = c => ~due /\ due2
        <3>1. y = n => ~(y < n) /\ y < k
            BY <2>9
        <3> QED
            BY <2>4, <2>9, <2>10, <3>1
    <2>6. x # c => (due <=> due2)
        <3>1. y # n => (y < n <=> y < k)
            BY <2>9
        <3> QED
            BY <2>4, <2>9, <2>10, <3>1
    <2>7. ~due => new
        BY <1>9, <2>4, <2>9 DEF EndpointInv
    <2>8. Opening(U, w, l, x, new, due) => Opening(U, Append(w, m), l, x, new, due2)
        <3>1. CASE x = c
            <4>1. Opening(U, w, l, c, TRUE, FALSE) => Opening(U, Append(w, m), l, c, TRUE, TRUE)
                BY <1>2, <1>7, <1>8, OpeningAnnounced
            <4>2. new = TRUE /\ due = FALSE /\ due2 = TRUE
                BY <2>4, <2>5, <2>7, <2>10, <3>1
            <4> QED
                BY <3>1, <4>1, <4>2
        <3>2. CASE x # c
            <4>1. ~IsOpen(m.data[1], x) /\ (In(m.data, x) # {} => due \/ ~new)
                BY <1>7, <1>8, <1>9, <3>2
            <4>2. Opening(U, w, l, x, new, due) => Opening(U, Append(w, m), l, x, new, due)
                BY <1>12, <4>1, OpeningEnqueue
            <4>3. due2 = due
                <5>1. due <=> due2
                    BY <2>6, <3>2
                <5>2. due \in BOOLEAN /\ due2 \in BOOLEAN
                    BY <2>4, <2>10
                <5> QED
                    BY <5>1, <5>2, Zenon
            <4> QED
                BY <4>2, <4>3
        <3> QED
            BY <3>1, <3>2
    <2> QED
        BY <2>1, <2>3, <2>4, <2>8, <2>9, <2>10
<1>10. Sent(s, o)
    BY <1>2, <1>3, <1>5, <1>6, <1>9 DEF Sent
<1>11. \A k \in DOMAIN Append(w, m) : Packet(Append(w, m)[k].data)
    <2>1. \A k \in DOMAIN w : Packet(w[k].data)
        BY <1>2 DEF Outgoing
    <2> QED
        BY <1>2, <1>7, <2>1, AppendFacts
<1> QED
    BY <1>2, <1>6, <1>10, <1>11 DEF Outgoing
\* What is on its way to the guest when it has a new endpoint for channel c.
LEMMA IncomingNew ==
    ASSUME ProxyTypeOK, NEW s \in Side, NEW o \in Side, o = Other(s), Incoming(s),
           NEW c \in Channel, ep[s][c].st = "none", NEW a \in Channel,
           mux'[o] = mux[o], sock'[o] = sock[o], line'[o] = line[o],
           mux'[s].rbuf = mux[s].rbuf, Running(s)' = Running(s),
           next_channel_id' \in Nat, next_channel_id <= next_channel_id', c < next_channel_id',
           s = "guest", \A x \in Channel : x # c => (next_channel_id <= x <=> next_channel_id' <= x),
           ep'[s][c] = EndpointAt(a), \A x \in Channel : x # c => ep'[s][x] = ep[s][x],
           \A x \in Channel : /\ sock'[s][x].got = sock[s][x].got
                              /\ sock'[s][x].taken = sock[s][x].taken
    PROVE  Incoming(s)'
<1>1. Stream(s)' = Stream(s)
    BY DEF Stream
<1>2. Running(s)' =>
          /\ Framed(Stream(s)', mux'[o].wr)
          /\ mux'[s].rbuf # <<>> => Len(mux'[s].rbuf) <= PacketSize(mux'[s].rbuf)
    BY <1>1 DEF Incoming
<1>3. /\ ep'[s][c].st = "open" /\ ep'[s][c].wr /\ ep'[s][c].rd
      /\ ep'[s][c].wbuf = <<>> /\ ep'[s][c].wqueue = <<>>
    BY EndpointAtFacts, ZenonT(60)
<1>4. EndpointInv(s)
    BY DEF Incoming
<1>5. EndpointInv(s)'
    <2>1. ASSUME NEW x \in Channel
          PROVE  /\ ep'[s][x].st = "open" <=> ep'[s][x].rd \/ ep'[s][x].wr
                 /\ ep'[s][x].st = "none" =>
                       /\ ep'[s][x].wbuf = <<>> /\ ep'[s][x].wqueue = <<>>
                       /\ sock'[s][x].got = <<>> /\ sock'[s][x].taken = 0
                 /\ s = "guest" => (ep'[s][x].st = "none" <=> next_channel_id' <= x)
                 /\ ep'[s][x].st # "none" => x < next_channel_id'
        <3>1. PICK y \in Nat, n \in Nat, k \in Nat :
                  y = x /\ n = next_channel_id /\ k = next_channel_id' /\ n <= k
            BY <2>1, ProxyAssumption DEF Channel, ProxyTypeOK
        <3>2. y < n => y < k
            BY <3>1
        <3>3. y < k => ~(k <= y)
            BY <3>1
        <3>4. CASE x = c
            BY <1>3, <3>1, <3>3, <3>4
        <3>5. CASE x # c
            BY <1>4, <2>1, <3>1, <3>2, <3>5 DEF EndpointInv
        <3> QED
            BY <3>4, <3>5
    <2> QED
        BY <2>1 DEF EndpointInv
<1>6. OpenInv(s)'
    <2>1. ASSUME NEW x \in Channel, Running(s)'
          PROVE  Opening(Stream(s)', mux'[o].wqueue, mux'[o].wr, x, ep'[s][x].st = "none",
                         s = "host" /\ x < next_channel_id')
        <3>1. PICK U, w, l : U = Stream(s) /\ w = mux[o].wqueue /\ l = mux[o].wr
            OBVIOUS
        <3>2. Opening(U, w, l, x, ep[s][x].st = "none", s = "host" /\ x < next_channel_id)
            BY <2>1, <3>1 DEF Incoming, OpenInv
        <3>3. (s = "host" /\ x < next_channel_id) = FALSE /\ (s = "host" /\ x < next_channel_id') = FALSE
            OBVIOUS
        <3>4. Opening(U, w, l, x, ep[s][x].st = "none", FALSE)
            BY <3>2, <3>3
        <3>5. Opening(U, w, l, x, ep'[s][x].st = "none", FALSE)
            BY <1>3, <2>1, <3>4 DEF Opening
        <3> QED
            BY <1>1, <3>1, <3>3, <3>5
    <2> QED
        BY <2>1 DEF OpenInv
<1>7. ChannelInv(s)'
    <2>1. ASSUME NEW x \in Channel, Running(s)', Live(ep'[s][x])
          PROVE  \E d \in Nat :
                     /\ Arrived(ep'[s][x], sock'[s][x].got, x, d)
                     /\ Flow(Stream(s)', mux'[o].wqueue, mux'[o].wr, x, d, sock'[o][x].taken)
        <3>1. Live(ep[s][x])
            BY <2>1 DEF Live
        <3>2. PICK d \in Nat :
                  /\ Arrived(ep[s][x], sock[s][x].got, x, d)
                  /\ Flow(Stream(s), mux[o].wqueue, mux[o].wr, x, d, sock[o][x].taken)
            BY <2>1, <3>1 DEF Incoming, ChannelInv
        <3>3. ep'[s][x].wbuf = ep[s][x].wbuf /\ ep'[s][x].wqueue = ep[s][x].wqueue
            BY <1>3, <1>4, <2>1 DEF EndpointInv
        <3>4. Arrived(ep'[s][x], sock'[s][x].got, x, d)
            BY <2>1, <3>2, <3>3 DEF Arrived
        <3> QED
            BY <1>1, <3>2, <3>4
    <2> QED
        BY <2>1 DEF ChannelInv
<1> QED
    BY <1>2, <1>5, <1>6, <1>7 DEF Incoming
\* The guest accepts a connection.
LEMMA AcceptInv ==
    ASSUME ProxyInv, NEW c \in Channel, Accept(c)
    PROVE  ProxyInv'
<1>1. PICK s \in Side, o \in Side : s = "guest" /\ o = "host" /\ o = Other(s) /\ s = Other(o)
    BY DEF Side, Other
<1>2. ProxyTypeOK /\ Outgoing(s) /\ Incoming(s) /\ EndpointInv(s) /\ EndpointInv(o)
    BY InvParts DEF Incoming
<1>3. PICK z \in Proxies : z = Proxy(s) /\ z.mux = mux[s] /\ z.ep = ep[s]
    BY <1>2, ProxyFacts
<1>4. c = next_channel_id /\ next_channel_id' = c + 1 /\ c \in Nat
    BY ProxyAssumption DEF Accept, Channel
<1>5. ep[s][c].st = "none" /\ z.ep[c].wqueue = <<>>
    <2>1. next_channel_id <= c
        BY <1>4
    <2> QED
        BY <1>1, <1>2, <1>3, <2>1 DEF EndpointInv
<1>6. PICK a \in Channel :
          Becomes(s, QueueToLine(With(z, c, EndpointAt(a), 0), Command("OPEN", c)))
    BY <1>1, <1>3 DEF Accept, FreeAddress
<1>7. PICK p \in Proxies : /\ p = With(z, c, EndpointAt(a), 0)
                           /\ p.ep[c] = EndpointAt(a)
                           /\ \A x \in Channel : x # c => p.ep[x] = z.ep[x]
                           /\ p.mux = z.mux /\ Credit(p) = Credit(z)
    <2>1. PICK f \in EpRec : f = EndpointAt(a) /\ f.wqueue = <<>>
        BY <1>6, EndpointAtFacts
    <2>2. f.wqueue = z.ep[c].wqueue
        BY <1>5, <2>1
    <2> QED
        BY <1>3, <2>1, <2>2, SameQueue
<1>8. PICK m \in Mbuf : m = Command("OPEN", c)
    BY CommandFacts
<1>9. PICK q \in Proxies : /\ q = QueueToLine(p, m) /\ q.ep = p.ep
                           /\ q.mux = [p.mux EXCEPT !.wqueue = Append(p.mux.wqueue, m)]
                           /\ q.mux.wqueue = Append(p.mux.wqueue, m)
    BY <1>7, <1>8, QueueToLineFacts
<1>10. /\ q.mux.wbuf = p.mux.wbuf /\ q.mux.wr = p.mux.wr /\ q.mux.freed = p.mux.freed
       /\ q.mux.open = p.mux.open /\ q.mux.rbuf = p.mux.rbuf
       /\ q.mux.rx_credit = p.mux.rx_credit
    BY <1>7, <1>9, ProxiesFacts DEF MuxRec
<1>11. Becomes(s, q)
    BY <1>6, <1>7, <1>8, <1>9
<1>12. /\ mux' \in [Side -> MuxRec] /\ ep' \in [Side -> [Channel -> EpRec]]
       /\ mux'[s] = q.mux /\ ep'[s] = q.ep /\ mux'[o] = mux[o] /\ ep'[o] = ep[o]
    BY <1>1, <1>2, <1>9, <1>11, BecomesFacts
<1>13. Connects(s, c)
    BY <1>1 DEF Accept, Connects
<1>14. /\ sock' \in [Side -> [Channel -> SockRec]] /\ sock'[o] = sock[o]
       /\ \A x \in Channel : /\ sock'[s][x].got = sock[s][x].got
                             /\ sock'[s][x].taken = sock[s][x].taken
    BY <1>1, <1>2, <1>13, NewProgram
<1>15. line' = line /\ lineOpen' = lineOpen /\ aborted' = aborted /\ Running(s)
    BY <1>1 DEF Accept
<1>16. ProxyTypeOK'
    <2>1. poll' \in [Side -> PollRec]
        <3>1. [at |-> "prepare", events |-> {}] \in PollRec
            BY DEF PollRec
        <3> QED
            BY <1>2, <3>1 DEF Accept, ProxyTypeOK
    <2>2. next_channel_id' \in 1 .. (MaxChannel + 1)
        BY <1>4, ProxyAssumption DEF Channel
    <2> QED
        BY <1>2, <1>12, <1>14, <1>15, <2>1, <2>2 DEF ProxyTypeOK
<1>17. Running(s)' = Running(s) /\ (Running(o)' => Running(o))
    BY <1>15 DEF Running
<1>18. Sent(s, o) /\ Outgoing(s)'
    <2>1. Aside(o)
        BY <1>1, <1>12, <1>14, <1>15, <1>17 DEF Aside
    <2>2. mux'[s].wqueue = Append(mux[s].wqueue, Command("OPEN", c))
        BY <1>3, <1>7, <1>8, <1>9, <1>12
    <2> QED
        BY <1>1, <1>2, <1>3, <1>4, <1>7, <1>10, <1>12, <1>14, <1>15, <2>1, <2>2, SentOpen
<1>19. Incoming(s)'
    <2>1. next_channel_id' \in Nat /\ next_channel_id <= next_channel_id' /\ c < next_channel_id'
        BY <1>4
    <2>2. \A x \in Channel : x # c => (next_channel_id <= x <=> next_channel_id' <= x)
        BY <1>4, ProxyAssumption DEF Channel
    <2>3. \A x \in Channel : x # c => ep'[s][x] = ep[s][x]
        BY <1>3, <1>7, <1>9, <1>12
    <2>4. ep'[s][c] = EndpointAt(a)
        BY <1>7, <1>9, <1>12
    <2>5. mux'[s].rbuf = mux[s].rbuf /\ line'[o] = line[o]
        BY <1>3, <1>7, <1>10, <1>12, <1>15
    <2> QED
        BY <1>1, <1>2, <1>5, <1>12, <1>14, <1>17, <2>1, <2>2, <2>3, <2>4, <2>5, IncomingNew
<1>20. Orders(s)
    <2>1. \A x \in Channel : sock[s][x].taken \in Nat
        BY <1>2, SideTypes
    <2> QED
        BY <1>14, <2>1 DEF Orders
<1>21. mux'[s].open /\ Running(s)' =>
           mux'[s].rx_credit + Total([x \in Channel |-> TotalLength(ep'[s][x].wqueue)])
               = MultiplexCredit
    <2>1. Credit(q) = Credit(z)
        BY <1>7, <1>9, <1>10 DEF Credit, Lengths
    <2>2. (q.mux.open => mux[s].open) /\ Credit(q) = Credit(Proxy(s))
        BY <1>3, <1>7, <1>10, <2>1
    <2>3. ep'[s] = q.ep /\ mux'[s].rx_credit = q.mux.rx_credit /\ mux'[s].open = q.mux.open
        BY <1>12
    <2> QED
        BY <1>9, <1>15, <2>2, <2>3, CreditKept
<1> QED
    BY <1>1, <1>16, <1>18, <1>19, <1>20, <1>21, SideStep
\* A program gets what fits.
LEMMA WriteInv ==
    ASSUME ProxyInv, NEW s \in Side, NEW c \in Channel, Write(s, c)
    PROVE  ProxyInv'
<1>1. ProxyTypeOK /\ Outgoing(s) /\ Incoming(s) /\ InOrder
    BY InvParts
<1>2. PICK o \in Side : o = Other(s) /\ s = Other(o) /\ o # s
    BY SideFacts
<1>3. PICK z \in Proxies : z = Proxy(s) /\ z.mux = mux[s] /\ z.ep = ep[s]
                           /\ \A x \in Channel : Listed(z.ep[x])
    BY <1>1, ProxyFacts DEF Incoming
<1>4. PICK e \in EpRec, k \in SockRec : e = ep[s][c] /\ k = sock[s][c] /\ e = z.ep[c]
    BY <1>1, <1>3, SideTypes
<1>5. PICK b \in Seq(Byte), g \in Seq(Byte) : b = e.wbuf /\ g = k.got
    BY <1>1, <1>4, SideTypes, EpFacts
<1>6. PICK n : n = Least(Len(b), SockSize - k.unread)
    OBVIOUS
<1>7. n \in 0 .. Len(b) /\ k.unread + n \in 0 .. SockSize
    <2>1. k.unread \in 0 .. SockSize /\ SockSize \in Nat /\ Len(b) \in Nat
        BY <1>4, <1>5, ProxyAssumption, LenProperties DEF SockRec
    <2> QED
        BY <1>6, <2>1 DEF Least
<1>8. PICK r, more, f, l : /\ r = SubSeq(b, n + 1, Len(b)) /\ more = g \o SubSeq(b, 1, n)
                           /\ f = [e EXCEPT !.wbuf = r]
                           /\ l = [k EXCEPT !.got = more, !.unread = k.unread + n]
    OBVIOUS
<1>9. /\ Handle(s, "out", c) /\ e.wr /\ sock' = [sock EXCEPT ![s][c] = l]
      /\ Becomes(s, With(z, c, f, 0))
      /\ UNCHANGED <<next_channel_id, line, lineOpen, aborted>>
    BY <1>3, <1>4, <1>5, <1>6, <1>8 DEF Write
<1>10. Running(s) /\ poll' \in [Side -> PollRec]
    BY <1>1, <1>9, HandleFacts
<1>11. r \in Seq(Byte) /\ SubSeq(b, 1, n) \in Seq(Byte)
    BY <1>5, <1>7, <1>8, CutSplits
<1>12. more \in Seq(Byte)
    BY <1>5, <1>8, <1>11, ConcatProperties
<1>13. /\ f \in EpRec /\ f.wbuf = r /\ f.wqueue = e.wqueue /\ f.st = e.st /\ f.wr = e.wr
       /\ f.rd = e.rd
    BY <1>4, <1>8, <1>11 DEF EpRec
<1>14. l \in SockRec /\ l.got = more /\ l.taken = k.taken
    BY <1>4, <1>7, <1>8, <1>12 DEF SockRec
<1>15. PICK q \in Proxies : /\ q = With(z, c, f, 0) /\ q.ep[c] = f
                            /\ \A x \in Channel : x # c => q.ep[x] = z.ep[x]
                            /\ q.mux = z.mux /\ Credit(q) = Credit(z)
    BY <1>3, <1>4, <1>13, SameQueue
<1>16. /\ mux' \in [Side -> MuxRec] /\ ep' \in [Side -> [Channel -> EpRec]]
       /\ mux'[s] = mux[s] /\ ep'[s] = q.ep /\ mux'[o] = mux[o] /\ ep'[o] = ep[o]
    BY <1>1, <1>2, <1>3, <1>9, <1>15, BecomesFacts
<1>17. /\ sock' \in [Side -> [Channel -> SockRec]] /\ sock'[s][c] = l
       /\ \A x \in Channel : x # c => sock'[s][x] = sock[s][x]
       /\ sock'[o] = sock[o]
    BY <1>1, <1>2, <1>9, <1>14, SockFacts, ZenonT(60)
<1>18. ProxyTypeOK'
    BY <1>1, <1>9, <1>10, <1>16, <1>17 DEF ProxyTypeOK
<1>19. Running(s)' = Running(s) /\ Running(o)' = Running(o)
    BY <1>9 DEF Running
<1>20. g = Bytes(c, 0, Len(g))
    BY <1>1, <1>4, <1>5 DEF InOrder
<1>21. ASSUME NEW d \in Nat, Chain(b, e.wqueue, c, Len(g), d)
       PROVE  /\ Chain(r, e.wqueue, c, Len(more), d)
              /\ more = Bytes(c, 0, Len(more)) /\ Len(more) <= d
    <2>1. e.wqueue \in Seq(Seq(Byte))
        BY <1>4, EpFacts
    <2>2. Gets(more, g, b, n) /\ r = SubSeq(b, n + 1, Len(b))
        BY <1>8 DEF Gets
    <2> QED
        BY <1>5, <1>7, <1>20, <1>21, <2>1, <2>2, ChainWrite
<1>22. Sent(s, o) /\ Outgoing(s)'
    <2>1. Aside(o)
        BY <1>2, <1>9, <1>16, <1>17, <1>19 DEF Aside
    <2>2. Conveys(mux[s], mux'[s])
        BY <1>16 DEF Conveys
    <2>3. \A x \in Channel : sock'[s][x].taken = sock[s][x].taken
        BY <1>4, <1>14, <1>17
    <2> QED
        BY <1>1, <1>2, <1>9, <2>1, <2>2, <2>3, SentConveyed
<1>23. Kept(s)
    <2>1. ASSUME NEW x \in Channel
          PROVE  Advances(ep[s][x], sock[s][x], ep'[s][x], sock'[s][x], x)
        <3>1. CASE x = c
            <4>1. \A d \in Nat : Arrived(e, g, c, d) => Arrived(f, more, c, d)
                BY <1>5, <1>13, <1>21 DEF Arrived
            <4>2. Listed(e) /\ e.st # "none" /\ Listed(f)
                BY <1>3, <1>4, <1>9, <1>13 DEF Listed
            <4>3. Advances(e, k, f, l, c)
                BY <1>5, <1>13, <1>14, <4>1, <4>2 DEF Advances
            <4> QED
                BY <1>4, <1>15, <1>16, <1>17, <3>1, <4>3
        <3>2. CASE x # c
            <4>1. ep'[s][x] = ep[s][x] /\ sock'[s][x] = sock[s][x] /\ Listed(ep[s][x])
                BY <1>3, <1>15, <1>16, <1>17, <2>1, <3>2
            <4> QED
                BY <4>1 DEF Advances
        <3> QED
            BY <3>1, <3>2
    <2> QED
        BY <1>2, <1>9, <1>16, <1>17, <1>19, <2>1 DEF Kept
<1>24. Incoming(s)'
    BY <1>1, <1>23, IncomingKept
<1>25. Orders(s)
    <2>1. PICK d \in Nat : /\ Arrived(ep[s][c], sock[s][c].got, c, d)
                           /\ d <= sock[o][c].taken
        BY <1>1, <1>2, <1>4, <1>9, <1>10 DEF Incoming, ChannelInv, Live, Flow
    <2>2. more = Bytes(c, 0, Len(more)) /\ Len(more) <= d
        BY <1>4, <1>5, <1>21, <2>1 DEF Arrived
    <2>3. Len(more) <= sock[o][c].taken
        <3>1. Len(more) \in Nat /\ sock[o][c].taken \in Nat
            BY <1>1, <1>2, <1>12, SideTypes, LenProperties
        <3> QED
            BY <2>1, <2>2, <3>1
    <2>4. \A x \in Channel : sock[s][x].taken \in Nat
        BY <1>1, SideTypes
    <2> QED
        BY <1>2, <1>4, <1>14, <1>17, <2>2, <2>3, <2>4 DEF Orders
<1>26. mux'[s].open /\ Running(s)' =>
           mux'[s].rx_credit + Total([x \in Channel |-> TotalLength(ep'[s][x].wqueue)])
               = MultiplexCredit
    <2>1. (q.mux.open => mux[s].open) /\ Credit(q) = Credit(Proxy(s))
        BY <1>3, <1>15
    <2>2. ep'[s] = q.ep /\ mux'[s].rx_credit = q.mux.rx_credit /\ mux'[s].open = q.mux.open
        BY <1>3, <1>15, <1>16
    <2> QED
        BY <1>10, <1>15, <2>1, <2>2, CreditKept
<1> QED
    BY <1>2, <1>18, <1>22, <1>24, <1>25, <1>26, SideStep
-----------------------------------------------------------------------------
(* Input from the line                                                      *)

\* What holds for channel c when a packet has been taken from the line to side s,
\* and V follows it.
Taken(s, o, V, c) ==
    /\ Listed(ep'[s][c])
    /\ ep'[s][c].st = "none" =>
          /\ ep[s][c].st = "none"
          /\ ep'[s][c].wbuf = ep[s][c].wbuf /\ ep'[s][c].wqueue = ep[s][c].wqueue
          /\ sock'[s][c].got = sock[s][c].got /\ sock'[s][c].taken = sock[s][c].taken
    /\ ep[s][c].st = "none" /\ ep'[s][c].st # "none" => s # "guest" /\ c < next_channel_id
    /\ Opening(V, mux[o].wqueue, mux[o].wr, c, ep'[s][c].st = "none",
               s = "host" /\ c < next_channel_id)
    /\ Live(ep'[s][c]) => \E d \in Nat :
          /\ Arrived(ep'[s][c], sock'[s][c].got, c, d)
          /\ Flow(V, mux[o].wqueue, mux[o].wr, c, d, sock[o][c].taken)

\* A packet is taken from the line.
LEMMA IncomingTaken ==
    ASSUME ProxyTypeOK, NEW s \in Side, NEW o \in Side, o = Other(s), Incoming(s),
           NEW V, Stream(s)' = V, Framed(V, mux[o].wr), mux'[s].rbuf = <<>>,
           mux'[o] = mux[o], sock'[o] = sock[o], next_channel_id' = next_channel_id,
           \A c \in Channel : Taken(s, o, V, c)
    PROVE  Incoming(s)'
<1>1. EndpointInv(s)
    BY DEF Incoming
<1>2. EndpointInv(s)'
    <2>1. ASSUME NEW c \in Channel
          PROVE  /\ ep'[s][c].st = "open" <=> ep'[s][c].rd \/ ep'[s][c].wr
                 /\ ep'[s][c].st = "none" =>
                       /\ ep'[s][c].wbuf = <<>> /\ ep'[s][c].wqueue = <<>>
                       /\ sock'[s][c].got = <<>> /\ sock'[s][c].taken = 0
                 /\ s = "guest" => (ep'[s][c].st = "none" <=> next_channel_id' <= c)
                 /\ ep'[s][c].st # "none" => c < next_channel_id'
        BY <1>1, <2>1 DEF EndpointInv, Taken, Listed
    <2> QED
        BY <2>1 DEF EndpointInv
<1>3. OpenInv(s)'
    BY DEF OpenInv, Taken
<1>4. ChannelInv(s)'
    <2>1. ASSUME NEW c \in Channel, Live(ep'[s][c])
          PROVE  \E d \in Nat :
                     /\ Arrived(ep'[s][c], sock'[s][c].got, c, d)
                     /\ Flow(Stream(s)', mux'[o].wqueue, mux'[o].wr, c, d, sock'[o][c].taken)
        BY <2>1 DEF Taken
    <2> QED
        BY <2>1 DEF ChannelInv
<1> QED
    BY <1>2, <1>3, <1>4 DEF Incoming

\* A packet that is not about channel c.
LEMMA Untouched ==
    ASSUME ProxyTypeOK, NEW s \in Side, NEW o \in Side, o = Other(s), Incoming(s), Running(s),
           NEW P \in Seq(Unit), NEW V \in Seq(Unit), Splits(Stream(s), P, V), Packet(P),
           NEW c \in Channel, \A x : x \notin In(P, c), ~IsOpen(P[1], c),
           Moves(ep[s][c], ep'[s][c], c), sock'[s][c].got = sock[s][c].got,
           sock'[s][c].taken = sock[s][c].taken
    PROVE  Taken(s, o, V, c)
<1>1. PICK U \in Seq(Unit), w \in Seq(Mbuf), l \in BOOLEAN, t \in Nat :
          U = Stream(s) /\ w = mux[o].wqueue /\ l = mux[o].wr /\ t = sock[o][c].taken
    BY SideTypes
<1>2. PICK new \in BOOLEAN, due \in BOOLEAN :
          new = (ep[s][c].st = "none") /\ due = (s = "host" /\ c < next_channel_id)
    OBVIOUS
<1>3. Opening(U, w, l, c, new, due)
    BY <1>1, <1>2 DEF Incoming, OpenInv
<1>4. Splits(U, P, V)
    BY <1>1
<1>5. Opening(V, w, l, c, new, due)
    BY <1>3, <1>4, OpeningTake
<1>6. Advances(ep[s][c], sock[s][c], ep'[s][c], sock'[s][c], c)
    <2>1. Len(sock[s][c].got) \in Nat
        BY SideTypes, LenProperties
    <2> QED
        BY <2>1, MovesAdvances
<1>7. ASSUME Live(ep'[s][c])
      PROVE  \E d \in Nat : /\ Arrived(ep'[s][c], sock'[s][c].got, c, d)
                            /\ Flow(V, w, l, c, d, t)
    <2>1. Live(ep[s][c])
        BY <1>6, <1>7 DEF Advances, Live
    <2>2. PICK d \in Nat : Arrived(ep[s][c], sock[s][c].got, c, d) /\ Flow(U, w, l, c, d, t)
        BY <1>1, <2>1 DEF Incoming, ChannelInv
    <2>3. Flow(V, w, l, c, d, t)
        BY <1>4, <2>2, FlowSkip
    <2>4. Arrived(ep'[s][c], sock'[s][c].got, c, d)
        BY <1>6, <1>7, <2>2 DEF Advances
    <2> QED
        BY <2>2, <2>3, <2>4
<1>8. new = (ep'[s][c].st = "none")
    BY <1>2, <1>6 DEF Advances
<1>9. /\ Listed(ep'[s][c]) /\ (ep'[s][c].st = "none" <=> ep[s][c].st = "none")
      /\ ep[s][c].st = "none" =>
            ep'[s][c].wbuf = ep[s][c].wbuf /\ ep'[s][c].wqueue = ep[s][c].wqueue
    BY DEF Moves
<1> QED
    BY <1>1, <1>2, <1>5, <1>7, <1>8, <1>9 DEF Taken

\* Channel c is opened.
LEMMA TakenOpen ==
    ASSUME ProxyTypeOK, NEW s \in Side, NEW o \in Side, o = Other(s), Incoming(s), Running(s),
           NEW P \in Seq(Unit), NEW V \in Seq(Unit), Splits(Stream(s), P, V), Packet(P),
           NEW c \in Channel, IsOpen(P[1], c),
           NEW a \in Channel, ep'[s][c] = EndpointAt(a), sock'[s][c].got = sock[s][c].got
    PROVE  Taken(s, o, V, c) /\ ep[s][c].st = "none"
<1>1. PICK U \in Seq(Unit), w \in Seq(Mbuf), l \in BOOLEAN, t \in Nat :
          U = Stream(s) /\ w = mux[o].wqueue /\ l = mux[o].wr /\ t = sock[o][c].taken
    BY SideTypes
<1>2. PICK new \in BOOLEAN, due \in BOOLEAN :
          new = (ep[s][c].st = "none") /\ due = (s = "host" /\ c < next_channel_id)
    OBVIOUS
<1>3. Opening(U, w, l, c, new, due)
    BY <1>1, <1>2 DEF Incoming, OpenInv
<1>4. Splits(U, P, V)
    BY <1>1
<1>5. new /\ due /\ Opening(V, w, l, c, FALSE, due) /\ \A x : x \notin In(P, c)
    <2>1. Opens(V, P, w, l, c, new, due)
        BY <1>3, <1>4, OpeningTake
    <2> QED
        BY <2>1, Zenon DEF Opens
<1>6. /\ ep'[s][c].st = "open" /\ ep'[s][c].wr /\ ep'[s][c].rd
      /\ ep'[s][c].wbuf = <<>> /\ ep'[s][c].wqueue = <<>>
    BY EndpointAtFacts
<1>7. ep[s][c].st = "none" /\ ep[s][c].wbuf = <<>> /\ ep[s][c].wqueue = <<>>
    BY <1>2, <1>5 DEF Incoming, EndpointInv
<1>8. \E d \in Nat : Arrived(ep'[s][c], sock'[s][c].got, c, d) /\ Flow(V, w, l, c, d, t)
    <2>1. PICK d \in Nat : Arrived(ep[s][c], sock[s][c].got, c, d) /\ Flow(U, w, l, c, d, t)
        BY <1>1, <1>7 DEF Incoming, ChannelInv, Live
    <2>2. Flow(V, w, l, c, d, t)
        BY <1>4, <1>5, <2>1, FlowSkip
    <2>3. Arrived(ep'[s][c], sock'[s][c].got, c, d)
        BY <1>6, <1>7, <2>1 DEF Arrived
    <2> QED
        BY <2>2, <2>3
<1>9. s # "guest" /\ c < next_channel_id
    BY <1>2, <1>5
<1>10. (ep'[s][c].st = "none") = FALSE
    BY <1>6
<1> QED
    BY <1>1, <1>2, <1>5, <1>6, <1>7, <1>8, <1>9, <1>10 DEF Taken, Listed

\* What the payload of a packet is.
LEMMA PayloadFacts ==
    ASSUME NEW P \in Seq(Unit), Packet(P)
    PROVE  /\ Tail(P) \in Seq(Byte) /\ Len(P) = 1 + Len(Tail(P)) /\ Len(Tail(P)) \in Nat
           /\ \A d \in Nat : Continues(P, d) => Row(Tail(P), P[1].channel, d)
<1>1. PICK T \in Seq(Unit) : T = Tail(P)
    BY HeadTailProperties DEF Packet
<1>2. /\ Len(P) = Len(T) + 1 /\ \A i \in DOMAIN T : i + 1 \in DOMAIN P /\ T[i] = P[i + 1]
    BY <1>1, TailFacts DEF Packet
<1>3. Len(T) \in Nat /\ DOMAIN T = 1 .. Len(T)
    BY <1>1, SeqFacts
<1>4. ASSUME NEW i \in DOMAIN T
      PROVE  /\ i + 1 \in DOMAIN P /\ T[i] = P[i + 1] /\ i + 1 # 1 /\ (i + 1) - 1 = i
             /\ T[i].cmd = "BYTE" /\ T[i].channel = P[1].channel /\ T[i] \in Byte
             /\ T[i] = Header("BYTE", P[1].channel, T[i].count)
    <2>1. i \in Nat /\ i + 1 # 1 /\ (i + 1) - 1 = i
        BY <1>3, <1>4
    <2>2. PICK j \in DOMAIN P : j = i + 1 /\ T[i] = P[j]
        BY <1>2, <1>4
    <2>3. IsByte(P[j], P[1].channel)
        BY <2>1, <2>2 DEF Packet
    <2>4. P[j] \in Byte
        BY <2>2, <2>3, StreamUnits, UnitFacts DEF IsByte
    <2>5. P[j] = Header("BYTE", P[j].channel, P[j].count)
        BY <2>4, UnitFacts
    <2> QED
        BY <2>1, <2>2, <2>3, <2>4, <2>5 DEF IsByte
<1>5. T \in Seq(Byte)
    <2>1. PICK n \in Nat : n = Len(T) /\ DOMAIN T = 1 .. n
        BY <1>3
    <2>2. T \in [1 .. n -> Unit]
        BY <1>1, <2>1, LenProperties
    <2>3. \A i \in 1 .. n : T[i] \in Byte
        BY <1>4, <2>1
    <2>4. T \in [1 .. n -> Byte]
        BY <2>2, <2>3
    <2> QED
        BY <2>4, SeqDef
<1>6. ASSUME NEW d \in Nat, Continues(P, d)
      PROVE  Row(T, P[1].channel, d)
    <2>1. ASSUME NEW i \in DOMAIN T
          PROVE  T[i] = Header("BYTE", P[1].channel, d + i)
        <3>1. T[i].count = d + i
            <4>1. PICK j \in DOMAIN P : j = i + 1 /\ T[i] = P[j] /\ j # 1 /\ j - 1 = i
                BY <1>4, <2>1
            <4> QED
                BY <1>6, <4>1 DEF Continues
        <3> QED
            BY <1>4, <2>1, <3>1
    <2> QED
        BY <2>1 DEF Row
<1> QED
    BY <1>1, <1>2, <1>3, <1>5, <1>6

\* The bytes of packet P follow what is queued for channel c, and V follows them.
Fits(V, P, w, live, c, t, b, q, g) ==
    \E d \in Nat : Chain(b, Append(q, Tail(P)), c, g, d) /\ Flow(V, w, live, c, d, t)

\* Bytes of channel c are taken from the stream and queued.
LEMMA FlowTaken ==
    ASSUME NEW U \in Seq(Unit), NEW P \in Seq(Unit), NEW V \in Seq(Unit), Splits(U, P, V),
           Packet(P), NEW w, NEW live, NEW c, NEW d \in Nat, NEW t \in Nat, P[1].channel = c,
           Flow(U, w, live, c, d, t), NEW b, NEW q \in Seq(Seq(Byte)), NEW g,
           Chain(b, q, c, g, d)
    PROVE  Fits(V, P, w, live, c, t, b, q, g)
<1>1. PICK n \in Nat : n = Len(Tail(P)) /\ Len(P) = 1 + n
    BY PayloadFacts
<1>2. OfSize(P, n)
    BY <1>1 DEF OfSize
<1>3. Continues(P, d) /\ Flow(V, w, live, c, d + n, t)
    BY <1>2, FlowTake
<1>4. Tail(P) \in Seq(Byte) /\ Row(Tail(P), c, d)
    BY <1>3, PayloadFacts
<1>5. Chain(b, Append(q, Tail(P)), c, g, d + n)
    BY <1>1, <1>4, ChainData
<1>6. d + n \in Nat
    OBVIOUS
<1> QED
    BY <1>3, <1>5, <1>6 DEF Fits

\* Data for channel c.
LEMMA TakenData ==
    ASSUME ProxyTypeOK, NEW s \in Side, NEW o \in Side, o = Other(s), Incoming(s), Running(s),
           NEW P \in Seq(Unit), NEW V \in Seq(Unit), Splits(Stream(s), P, V), Packet(P),
           NEW c \in Channel, P[1].channel = c, P[1].cmd # "OPEN", ep[s][c].st = "open",
           Listed(ep'[s][c]), ep'[s][c].st = "open", ep'[s][c].wr = ep[s][c].wr,
           ep'[s][c].wbuf = ep[s][c].wbuf,
           ep'[s][c].wqueue = Append(ep[s][c].wqueue, Tail(P)),
           sock'[s][c].got = sock[s][c].got
    PROVE  Taken(s, o, V, c)
<1>1. PICK U \in Seq(Unit), w \in Seq(Mbuf), l \in BOOLEAN, t \in Nat :
          U = Stream(s) /\ w = mux[o].wqueue /\ l = mux[o].wr /\ t = sock[o][c].taken
    BY SideTypes
<1>2. PICK new \in BOOLEAN, due \in BOOLEAN :
          new = (ep[s][c].st = "none") /\ due = (s = "host" /\ c < next_channel_id)
    OBVIOUS
<1>3. Opening(U, w, l, c, new, due)
    BY <1>1, <1>2 DEF Incoming, OpenInv
<1>4. Splits(U, P, V)
    BY <1>1
<1>5. Opening(V, w, l, c, new, due)
    <2>1. ~IsOpen(P[1], c)
        BY DEF IsOpen
    <2> QED
        BY <1>3, <1>4, <2>1, OpeningTake
<1>6. new = (ep'[s][c].st = "none")
    BY <1>2
<1>7. ASSUME Live(ep'[s][c])
      PROVE  \E d \in Nat : /\ Arrived(ep'[s][c], sock'[s][c].got, c, d)
                            /\ Flow(V, w, l, c, d, t)
    <2>1. Live(ep[s][c])
        BY <1>7 DEF Live
    <2>2. PICK d \in Nat : Arrived(ep[s][c], sock[s][c].got, c, d) /\ Flow(U, w, l, c, d, t)
        BY <1>1, <2>1 DEF Incoming, ChannelInv
    <2>3. ep[s][c].wqueue \in Seq(Seq(Byte))
        BY SideTypes, EpFacts
    <2>4. Chain(ep[s][c].wbuf, ep[s][c].wqueue, c, Len(sock[s][c].got), d)
        BY <2>2 DEF Arrived
    <2>5. Flow(U, w, l, c, d, t) /\ d \in Nat
        BY <2>2
    <2>6. Fits(V, P, w, l, c, t, ep[s][c].wbuf, ep[s][c].wqueue, Len(sock[s][c].got))
        BY <1>4, <2>3, <2>4, <2>5, FlowTaken
    <2> QED
        BY <2>6 DEF Fits, Arrived
<1> QED
    BY <1>1, <1>2, <1>5, <1>6, <1>7 DEF Taken
\* A packet for channel c, which was closed.
LEMMA TakenClosed ==
    ASSUME ProxyTypeOK, NEW s \in Side, NEW o \in Side, o = Other(s), Incoming(s), Running(s),
           NEW P \in Seq(Unit), NEW V \in Seq(Unit), Splits(Stream(s), P, V), Packet(P),
           NEW c \in Channel, P[1].cmd # "OPEN", ep[s][c].st # "open", ep'[s][c] = ep[s][c],
           sock'[s][c].got = sock[s][c].got, sock'[s][c].taken = sock[s][c].taken
    PROVE  Taken(s, o, V, c)
<1>1. PICK U \in Seq(Unit), w \in Seq(Mbuf), l \in BOOLEAN, t \in Nat :
          U = Stream(s) /\ w = mux[o].wqueue /\ l = mux[o].wr /\ t = sock[o][c].taken
    BY SideTypes
<1>2. PICK new \in BOOLEAN, due \in BOOLEAN :
          new = (ep[s][c].st = "none") /\ due = (s = "host" /\ c < next_channel_id)
    OBVIOUS
<1>3. Opening(U, w, l, c, new, due)
    BY <1>1, <1>2 DEF Incoming, OpenInv
<1>4. Splits(U, P, V) /\ ~IsOpen(P[1], c)
    BY <1>1 DEF IsOpen
<1>5. Opening(V, w, l, c, new, due)
    BY <1>3, <1>4, OpeningTake
<1>6. Listed(ep[s][c])
    BY DEF Incoming, EndpointInv, Listed
<1>7. CASE ep[s][c].st = "none"
    <2>1. \A x : x \notin In(P, c)
        <3>1. new
            BY <1>2, <1>7
        <3>2. NoBytes(P, c, new)
            BY <1>3, <1>4, OpeningTake
        <3> QED
            BY <3>1, <3>2 DEF NoBytes
    <2>2. Moves(ep[s][c], ep'[s][c], c)
        BY <1>6 DEF Moves
    <2> QED
        BY <1>4, <2>1, <2>2, Untouched
<1>8. CASE ep[s][c].st # "none"
    <2>1. ~Live(ep'[s][c])
        BY <1>6, <1>8, SideTypes, EpFacts DEF Listed, Live
    <2>2. new = (ep'[s][c].st = "none")
        BY <1>2
    <2> QED
        BY <1>1, <1>2, <1>5, <1>6, <1>8, <2>1, <2>2 DEF Taken
<1> QED
    BY <1>7, <1>8

\* What one queue loses the multiplexing endpoint gains.
LEMMA OneQueue ==
    ASSUME NEW p \in Proxies, NEW q \in Proxies, NEW c \in Channel,
           \A x \in Channel : x # c => q.ep[x] = p.ep[x],
           q.mux.rx_credit + TotalLength(q.ep[c].wqueue)
               = p.mux.rx_credit + TotalLength(p.ep[c].wqueue)
    PROVE  Credit(q) = Credit(p)
<1>1. PICK a, b, r, T : /\ a = Lengths(p) /\ b = Lengths(q) /\ T = Channel \ {c}
                        /\ r = [x \in T |-> Lengths(p)[x]]
    OBVIOUS
<1>2. Numbers(a, Channel) /\ Numbers(b, Channel)
    BY <1>1, LengthsNumbers
<1>3. DOMAIN r = T /\ \A x \in T : r[x] = a[x] /\ r[x] = b[x]
    BY <1>1 DEF Lengths
<1>4. Channel = T \cup {c} /\ c \notin T
    BY <1>1
<1>5. Numbers(r, T) /\ Total(a) = Total(r) + a[c]
    BY <1>2, <1>3, <1>4, TotalRest
<1>6. Total(b) = Total(r) + b[c]
    BY <1>2, <1>3, <1>4, TotalRest
<1>7. PICK i \in Nat, j \in Nat, n \in Nat, m \in Nat, u \in Nat :
          i = a[c] /\ j = b[c] /\ n = q.mux.rx_credit /\ m = p.mux.rx_credit /\ u = Total(r)
    BY <1>2, <1>5, ProxiesFacts, TotalNat DEF Numbers
<1>8. n + j = m + i
    BY <1>1, <1>7 DEF Lengths
<1>9. Credit(q) = n + (u + j) /\ Credit(p) = m + (u + i)
    BY <1>1, <1>5, <1>6, <1>7 DEF Credit
<1> QED
    BY <1>7, <1>8, <1>9

\* Endpoint e with more data queued.
Queues(e, f, data) == f = [e EXCEPT !.wqueue = Append(e.wqueue, data)]

\* q is p with the endpoint f for channel c, which has more data, and the data charged.
Charged(p, q, c, f, data) ==
    /\ q = With(p, c, f, -Len(data))
    /\ q.ep[c] = f
    /\ \A x \in Channel : x # c => q.ep[x] = p.ep[x]
    /\ q.mux = [p.mux EXCEPT !.rx_credit = q.mux.rx_credit]
    /\ Credit(q) = Credit(p)

\* Data is queued to the program and charged.
LEMMA ChargedData ==
    ASSUME NEW p \in Proxies, NEW c \in Channel, NEW data \in Seq(Byte),
           Len(data) <= p.mux.rx_credit, NEW f, Queues(p.ep[c], f, data)
    PROVE  \E q \in Proxies : Charged(p, q, c, f, data)
<1>1. PICK e \in EpRec, m \in MuxRec, E \in [Channel -> EpRec] :
          e = p.ep[c] /\ m = p.mux /\ E = p.ep
    BY ProxiesFacts
<1>2. PICK k \in Nat, n \in Nat : k = m.rx_credit /\ n = Len(data) /\ n <= k
    BY <1>1, ProxiesFacts, LenProperties
<1>3. PICK w \in Seq(Seq(Byte)) : w = e.wqueue
    BY EpFacts
<1>4. f = [e EXCEPT !.wqueue = Append(w, data)] /\ Append(w, data) \in Seq(Seq(Byte))
    BY <1>1, <1>3, AppendFacts DEF Queues
<1>5. f \in EpRec /\ f.wqueue = Append(w, data)
    BY <1>4 DEF EpRec
<1>6. PICK q : q = With(p, c, f, -Len(data))
    OBVIOUS
<1>7. q.mux = [m EXCEPT !.rx_credit = k + (-n)] /\ q.ep = [E EXCEPT ![c] = f]
      /\ q = [mux |-> q.mux, ep |-> q.ep]
    BY <1>1, <1>2, <1>6 DEF With
<1>8. k + (-n) = k - n /\ k - n \in Nat
    BY <1>2, SMTT(40)
<1>9. q.mux \in MuxRec /\ q.mux.rx_credit = k - n
    BY <1>7, <1>8 DEF MuxRec
<1>10. q.ep \in [Channel -> EpRec] /\ q.ep[c] = f
    BY <1>5, <1>7
<1>11. q \in Proxies
    BY <1>7, <1>9, <1>10 DEF Proxies
<1>12. \A x \in Channel : x # c => q.ep[x] = p.ep[x]
    BY <1>1, <1>7
<1>13. q.mux = [p.mux EXCEPT !.rx_credit = q.mux.rx_credit]
    BY <1>1, <1>7, <1>8, <1>9
<1>14. PICK i \in Nat : i = TotalLength(w) /\ TotalLength(f.wqueue) = i + n
    BY <1>2, <1>3, <1>5, EpFacts, LengthAppend
<1>15. (k - n) + (i + n) = k + i
    BY <1>2, <1>14
<1>16. Credit(q) = Credit(p)
    <2>1. q.mux.rx_credit + TotalLength(q.ep[c].wqueue)
              = p.mux.rx_credit + TotalLength(p.ep[c].wqueue)
        BY <1>1, <1>2, <1>3, <1>9, <1>10, <1>14, <1>15
    <2> QED
        BY <1>11, <1>12, <2>1, OneQueue
<1> QED
    BY <1>6, <1>10, <1>11, <1>12, <1>13, <1>16 DEF Charged
\* r is left on the line from side o.
Leaves(o, r) == line' = [line EXCEPT ![o] = r] /\ Len(r) <= LineSize

\* V is what follows when r is left on the line.
Follows(V, r, o) == V = r \o mux[o].wbuf

\* The proxy of side s with nothing in rbuf.
Emptied(s, y) == y = [mux |-> [mux[s] EXCEPT !.rbuf = <<>>], ep |-> ep[s]]

\* What the line holds when it was read.
LEMMA LeavesFacts ==
    ASSUME ProxyTypeOK, NEW s \in Side, NEW o \in Side, o = Other(s), NEW r \in Seq(Unit),
           Leaves(o, r)
    PROVE  /\ line' \in [Side -> Seq(Unit)] /\ line'[o] = r /\ line'[s] = line[s]
           /\ \A x \in Side : Len(line'[x]) <= LineSize
<1>1. o # s /\ \A x \in Side : x = s \/ x = o
    BY SideFacts
<1>2. line' \in [Side -> Seq(Unit)] /\ line'[o] = r /\ line'[s] = line[s]
    BY <1>1 DEF Leaves, ProxyTypeOK
<1>3. \A x \in Side : Len(line'[x]) <= LineSize
    BY <1>1, <1>2 DEF Leaves, ProxyTypeOK
<1> QED
    BY <1>2, <1>3

\* The proxy that handles a packet.
LEMMA EmptiedFacts ==
    ASSUME ProxyTypeOK, NEW s \in Side, Incoming(s), NEW y, Emptied(s, y)
    PROVE  /\ y \in Proxies /\ y.ep = ep[s] /\ \A x \in Channel : Listed(y.ep[x])
           /\ y.mux.rbuf = <<>> /\ y.mux.wbuf = mux[s].wbuf /\ y.mux.wqueue = mux[s].wqueue
           /\ y.mux.wr = mux[s].wr /\ y.mux.freed = mux[s].freed /\ y.mux.open = mux[s].open
           /\ y.mux.rx_credit = mux[s].rx_credit
           /\ Credit(y) = Credit(Proxy(s))
<1>1. PICK m \in MuxRec, E \in [Channel -> EpRec], b \in Seq(Unit) :
          m = mux[s] /\ E = ep[s] /\ b = <<>>
    <2>1. <<>> \in Seq(Unit)
        BY EmptySeq
    <2> QED
        BY <2>1 DEF ProxyTypeOK
<1>2. PICK n : n = [m EXCEPT !.rbuf = b]
    OBVIOUS
<1>3. /\ n \in MuxRec /\ n.rbuf = b /\ n.wbuf = m.wbuf /\ n.wqueue = m.wqueue /\ n.wr = m.wr
      /\ n.freed = m.freed /\ n.open = m.open /\ n.rx_credit = m.rx_credit
    BY <1>1, <1>2 DEF MuxRec
<1>4. y = [mux |-> n, ep |-> E]
    BY <1>1, <1>2 DEF Emptied
<1>5. y \in Proxies /\ y.mux = n /\ y.ep = E
    BY <1>3, <1>4 DEF Proxies
<1>6. \A x \in Channel : Listed(E[x])
    BY <1>1 DEF Incoming, EndpointInv, Listed
<1>7. Credit(y) = Credit(Proxy(s))
    BY <1>1, <1>3, <1>5 DEF Credit, Lengths, Proxy
<1> QED
    BY <1>1, <1>3, <1>5, <1>6, <1>7

\* A packet has been handled by a proxy that became q.
LEMMA PacketStep ==
    ASSUME ProxyInv, NEW s \in Side, NEW o \in Side, o = Other(s), Running(s),
           poll' \in [Side -> PollRec], UNCHANGED <<next_channel_id, lineOpen, aborted>>,
           NEW r \in Seq(Unit), Leaves(o, r), NEW V \in Seq(Unit), Follows(V, r, o),
           Framed(V, mux[o].wr), NEW y, Emptied(s, y),
           NEW q \in Proxies, q.mux = [y.mux EXCEPT !.rx_credit = q.mux.rx_credit],
           Credit(q) = Credit(y), Becomes(s, q), sock' \in [Side -> [Channel -> SockRec]],
           sock'[o] = sock[o],
           \A x \in Channel : /\ sock'[s][x].got = sock[s][x].got
                              /\ sock'[s][x].taken = sock[s][x].taken,
           \A x \in Channel : Taken(s, o, V, x)
    PROVE  ProxyInv'
<1>1. ProxyTypeOK /\ Outgoing(s) /\ Incoming(s)
    BY InvParts
<1>2. s = Other(o) /\ o # s
    BY SideFacts
<1>3. /\ line' \in [Side -> Seq(Unit)] /\ line'[o] = r /\ line'[s] = line[s]
      /\ \A x \in Side : Len(line'[x]) <= LineSize
    BY <1>1, LeavesFacts
<1>4. /\ y \in Proxies /\ y.mux.rbuf = <<>> /\ y.mux.wbuf = mux[s].wbuf
      /\ y.mux.wqueue = mux[s].wqueue /\ y.mux.wr = mux[s].wr /\ y.mux.freed = mux[s].freed
      /\ y.mux.open = mux[s].open /\ Credit(y) = Credit(Proxy(s))
    BY <1>1, EmptiedFacts
<1>5. PICK m \in MuxRec, n \in MuxRec : m = y.mux /\ n = q.mux
    BY <1>4, ProxiesFacts
<1>6. /\ n.rbuf = m.rbuf /\ n.wbuf = m.wbuf /\ n.wqueue = m.wqueue /\ n.wr = m.wr
      /\ n.freed = m.freed /\ n.open = m.open
    <2>1. n = [m EXCEPT !.rx_credit = n.rx_credit]
        BY <1>5
    <2> QED
        BY <1>5, <2>1 DEF MuxRec
<1>7. /\ mux' \in [Side -> MuxRec] /\ ep' \in [Side -> [Channel -> EpRec]]
      /\ mux'[s] = n /\ ep'[s] = q.ep /\ mux'[o] = mux[o] /\ ep'[o] = ep[o]
    BY <1>1, <1>5, BecomesFacts
<1>8. ProxyTypeOK'
    BY <1>1, <1>3, <1>7 DEF ProxyTypeOK
<1>9. Running(s)' = Running(s) /\ Running(o)' = Running(o)
    BY DEF Running
<1>10. Sent(s, o) /\ Outgoing(s)'
    <2>1. Aside(o)
        BY <1>2, <1>3, <1>7, <1>9 DEF Aside
    <2>2. Conveys(mux[s], mux'[s])
        BY <1>4, <1>5, <1>6, <1>7 DEF Conveys
    <2> QED
        BY <1>1, <1>2, <1>3, <2>1, <2>2, SentConveyed
<1>11. Incoming(s)'
    <2>1. Stream(s)' = V
        <3>1. PICK b \in Seq(Unit), K \in Seq(Unit) : b = mux[o].wbuf /\ K = r
            BY <1>1, SideTypes
        <3>2. <<>> \o K = K
            BY ConcatEmptySeq
        <3>3. Stream(s)' = <<>> \o K \o b
            BY <1>3, <1>4, <1>5, <1>6, <1>7, <3>1 DEF Stream
        <3>4. V = K \o b
            BY <3>1 DEF Follows
        <3> QED
            BY <3>2, <3>3, <3>4
    <2>2. mux'[s].rbuf = <<>>
        BY <1>4, <1>5, <1>6, <1>7
    <2> QED
        BY <1>1, <1>7, <2>1, <2>2, IncomingTaken
<1>12. Orders(s)
    <2>1. \A x \in Channel : sock[s][x].taken \in Nat
        BY <1>1, SideTypes
    <2> QED
        BY <2>1 DEF Orders
<1>13. mux'[s].open /\ Running(s)' =>
           mux'[s].rx_credit + Total([x \in Channel |-> TotalLength(ep'[s][x].wqueue)])
               = MultiplexCredit
    <2>1. (q.mux.open => mux[s].open) /\ Credit(q) = Credit(Proxy(s))
        BY <1>4, <1>5, <1>6
    <2>2. ep'[s] = q.ep /\ mux'[s].rx_credit = q.mux.rx_credit /\ mux'[s].open = q.mux.open
        BY <1>5, <1>7
    <2> QED
        BY <2>1, <2>2, CreditKept
<1> QED
    BY <1>2, <1>8, <1>10, <1>11, <1>12, <1>13, SideStep

\* The process ends in a failed assertion.
LEMMA AbortStep ==
    ASSUME ProxyInv, NEW s \in Side, NEW o \in Side, o = Other(s), poll' \in [Side -> PollRec],
           UNCHANGED <<mux, ep, sock, next_channel_id, lineOpen>>,
           aborted' = aborted \cup {s}, NEW r \in Seq(Unit), Leaves(o, r)
    PROVE  ProxyInv'
<1>1. ProxyTypeOK /\ Outgoing(s) /\ Incoming(s)
    BY InvParts
<1>2. s = Other(o) /\ o # s
    BY SideFacts
<1>3. /\ line' \in [Side -> Seq(Unit)] /\ line'[s] = line[s]
      /\ \A x \in Side : Len(line'[x]) <= LineSize
    BY <1>1, LeavesFacts
<1>4. ProxyTypeOK'
    BY <1>1, <1>3 DEF ProxyTypeOK
<1>5. ~Running(s)' /\ Running(o)' = Running(o)
    BY <1>2 DEF Running
<1>6. Sent(s, o) /\ Outgoing(s)'
    <2>1. Aside(o)
        BY <1>2, <1>3, <1>5 DEF Aside
    <2>2. Conveys(mux[s], mux'[s])
        BY DEF Conveys
    <2> QED
        BY <1>1, <1>2, <1>3, <2>1, <2>2, SentConveyed
<1>7. Incoming(s)'
    <2>1. EndpointInv(s)'
        BY <1>1 DEF Incoming, EndpointInv
    <2> QED
        BY <1>5, <2>1 DEF Incoming, OpenInv, ChannelInv
<1>8. Orders(s)
    <2>1. \A x \in Channel : sock[s][x].taken \in Nat
        BY <1>1, SideTypes
    <2> QED
        BY <2>1 DEF Orders
<1> QED
    BY <1>2, <1>4, <1>5, <1>6, <1>7, <1>8, SideStep
\* The cases of proxy_demux_packet.
LEMMA DemuxCases ==
    ASSUME NEW s, NEW y, NEW P \in Seq(Unit), Packet(P), NEW c, c = P[1].channel,
           demux_packet(s, y, P)
    PROVE  \/ P[1].cmd = "OPEN" /\ OpenChannel(s, y, c)
           \/ P[1].cmd # "OPEN" /\ y.ep[c].st # "open" /\ Becomes(s, y)
              /\ UNCHANGED <<sock, aborted>>
           \/ P[1].cmd = "CLOSE" /\ y.ep[c].st = "open" /\ CloseChannel(s, y, c)
           \/ P[1].cmd = "DATA" /\ y.ep[c].st = "open" /\ DataForChannel(s, y, c, Tail(P))
<1>1. Head(P) = P[1] /\ P[1] \in Unit
    BY TailFacts DEF Packet
<1>2. P[1].cmd \in {"OPEN", "CLOSE", "DATA"}
    BY <1>1, UnitFacts DEF Packet
<1>3. CASE P[1].cmd = "OPEN"
    BY <1>1, <1>3 DEF demux_packet
<1>4. CASE P[1].cmd # "OPEN" /\ y.ep[c].st # "open"
    BY <1>1, <1>4 DEF demux_packet
<1>5. CASE P[1].cmd = "CLOSE" /\ y.ep[c].st = "open"
    BY <1>1, <1>5 DEF demux_packet
<1>6. CASE P[1].cmd = "DATA" /\ y.ep[c].st = "open"
    BY <1>1, <1>6 DEF demux_packet
<1> QED
    BY <1>2, <1>3, <1>4, <1>5, <1>6

\* What the first packet of a stream is about.
LEMMA FirstFacts ==
    ASSUME NEW P \in Seq(Unit), Packet(P)
    PROVE  /\ P[1].channel \in Channel
           /\ P[1].cmd # "DATA" => \A x : \A k : k \notin In(P, x)
           /\ \A x : x # P[1].channel => (\A k : k \notin In(P, x)) /\ ~IsOpen(P[1], x)
<1>1. 1 \in DOMAIN P /\ \A j \in DOMAIN P : j # 1 => P[1].cmd = "DATA"
    BY PacketFacts
<1>2. P[1].channel \in Channel
    BY <1>1, StreamUnits
<1>3. \A j \in DOMAIN P : \A x : IsByte(P[j], x) => j # 1 /\ x = P[1].channel
    BY DEF Packet, IsByte
<1>4. P[1].cmd # "DATA" => \A x : \A k : k \notin In(P, x)
    BY <1>1, <1>3 DEF In
<1>5. \A x : x # P[1].channel => (\A k : k \notin In(P, x)) /\ ~IsOpen(P[1], x)
    BY <1>3 DEF In, IsOpen
<1> QED
    BY <1>2, <1>4, <1>5

\* A packet is handled.
LEMMA DemuxStep ==
    ASSUME ProxyInv, NEW s \in Side, NEW o \in Side, o = Other(s), Running(s),
           poll' \in [Side -> PollRec], UNCHANGED <<next_channel_id, lineOpen>>,
           NEW P \in Seq(Unit), FullPacket(P), NEW V \in Seq(Unit), Splits(Stream(s), P, V),
           NEW r \in Seq(Unit), Leaves(o, r), Follows(V, r, o),
           NEW y, Emptied(s, y), demux_packet(s, y, P)
    PROVE  ProxyInv'
<1>1. ProxyTypeOK /\ Incoming(s)
    BY InvParts
<1>2. PICK U \in Seq(Unit), l \in BOOLEAN : U = Stream(s) /\ l = mux[o].wr
    BY <1>1, SideTypes
<1>3. Framed(U, l) /\ Splits(U, P, V)
    BY <1>1, <1>2 DEF Incoming
<1>4. Packet(P)
    <2>1. Head(P) = P[1] /\ 1 \in DOMAIN P
        BY TailFacts DEF FullPacket
    <2>2. U # <<>> /\ U[1] = P[1]
        BY <1>3, <2>1, StreamUnits DEF Splits
    <2>3. Len(P) = 1 + U[1].count
        BY <2>1, <2>2 DEF FullPacket, PacketSize
    <2> QED
        BY <1>3, <2>2, <2>3, FirstPacket
<1>5. Framed(V, mux[o].wr)
    BY <1>2, <1>3, <1>4, FramedRest
<1>6. PICK c \in Channel : c = P[1].channel
    BY <1>4, FirstFacts
<1>7. \A x \in Channel : x # c => (\A k : k \notin In(P, x)) /\ ~IsOpen(P[1], x)
    BY <1>4, <1>6, FirstFacts
<1>8. /\ y \in Proxies /\ y.ep = ep[s] /\ \A x \in Channel : Listed(y.ep[x])
      /\ y.mux.rx_credit = mux[s].rx_credit
    BY <1>1, EmptiedFacts
<1>9. \A x \in Channel : Moves(ep[s][x], ep[s][x], x)
    BY <1>8 DEF Moves
<1>10. CASE P[1].cmd = "OPEN" /\ OpenChannel(s, y, c)
    <2>1. PICK a \in Channel : Becomes(s, With(y, c, EndpointAt(a), 0))
        BY <1>10 DEF OpenChannel, FreeAddress
    <2>2. PICK f \in EpRec : f = EndpointAt(a) /\ f.wqueue = <<>>
        BY EndpointAtFacts
    <2>3. PICK p \in Proxies : /\ p = With(y, c, f, 0) /\ p.ep[c] = f
                               /\ \A x \in Channel : x # c => p.ep[x] = y.ep[x]
        <3>1. /\ With(y, c, f, 0) \in Proxies /\ With(y, c, f, 0).ep[c] = f
              /\ \A x \in Channel : x # c => With(y, c, f, 0).ep[x] = y.ep[x]
            <4>1. y \in Proxies /\ 0 \in Nat
                BY <1>8
            <4> QED
                BY <4>1, WithFacts
        <3> QED
            BY <3>1
    <2>4. Becomes(s, p)
        BY <2>1, <2>2, <2>3
    <2>5. ep'[s] = p.ep
        BY <1>1, <2>4, BecomesFacts
    <2>6. Connects(s, c) /\ aborted' = aborted
        BY <1>10 DEF OpenChannel, Connects
    <2>7. /\ sock' \in [Side -> [Channel -> SockRec]] /\ sock'[o] = sock[o]
          /\ \A x \in Channel : /\ sock'[s][x].got = sock[s][x].got
                                /\ sock'[s][x].taken = sock[s][x].taken
        BY <1>1, <2>6, NewProgram
    <2>8. IsOpen(P[1], c) /\ ep'[s][c] = EndpointAt(a)
        BY <1>6, <1>10, <2>2, <2>3, <2>5 DEF IsOpen
    <2>9. Taken(s, o, V, c) /\ ep[s][c].st = "none"
        BY <1>1, <1>4, <2>7, <2>8, TakenOpen
    <2>10. \A x \in Channel : Taken(s, o, V, x)
        <3>1. TAKE x \in Channel
        <3>2. CASE x = c
            BY <2>9, <3>2
        <3>3. CASE x # c
            <4>1. Moves(ep[s][x], ep'[s][x], x)
                BY <1>8, <1>9, <2>3, <2>5, <3>1, <3>3
            <4> QED
                BY <1>1, <1>4, <1>7, <2>7, <3>1, <3>3, <4>1, Untouched
        <3> QED
            BY <3>2, <3>3
    <2>11. f.wqueue = y.ep[c].wqueue
        BY <1>1, <1>8, <2>2, <2>9 DEF Incoming, EndpointInv
    <2>12. PICK q \in Proxies : q = p /\ q.mux = y.mux /\ Credit(q) = Credit(y)
        <3>1. \E q \in Proxies : q = With(y, c, f, 0) /\ q.mux = y.mux /\ Credit(q) = Credit(y)
            BY <1>8, <2>11, SameQueue
        <3> QED
            BY <2>3, <3>1
    <2>13. q.mux = [y.mux EXCEPT !.rx_credit = q.mux.rx_credit]
        BY <2>12, ProxiesFacts DEF MuxRec
    <2> QED
        BY <1>5, <2>4, <2>6, <2>7, <2>10, <2>12, <2>13, PacketStep
<1>11. CASE /\ P[1].cmd # "OPEN" /\ y.ep[c].st # "open" /\ Becomes(s, y)
            /\ UNCHANGED <<sock, aborted>>
    <2>1. ep'[s] = ep[s]
        BY <1>1, <1>8, <1>11, BecomesFacts
    <2>2. Taken(s, o, V, c)
        BY <1>1, <1>4, <1>8, <1>11, <2>1, TakenClosed
    <2>3. \A x \in Channel : Taken(s, o, V, x)
        <3>1. TAKE x \in Channel
        <3>2. CASE x = c
            BY <2>2, <3>2
        <3>3. CASE x # c
            BY <1>1, <1>4, <1>7, <1>9, <1>11, <2>1, <3>1, <3>3, Untouched
        <3> QED
            BY <3>2, <3>3
    <2>4. y.mux = [y.mux EXCEPT !.rx_credit = y.mux.rx_credit]
        BY <1>8, ProxiesFacts DEF MuxRec
    <2>5. sock' \in [Side -> [Channel -> SockRec]]
        BY <1>1, <1>11 DEF ProxyTypeOK
    <2> QED
        BY <1>5, <1>8, <1>11, <2>3, <2>4, <2>5, PacketStep
<1>12. CASE P[1].cmd = "CLOSE" /\ y.ep[c].st = "open" /\ CloseChannel(s, y, c)
    <2>1. PICK q : q = halfclose(y, c)
        OBVIOUS
    <2>2. Becomes(s, q) /\ sock' = sock /\ aborted' = aborted
        BY <1>12, <2>1 DEF CloseChannel
    <2>3. Walks(y, q)
        <3>1. Local(y, q, c)
            BY <1>8, <1>12, <2>1, LocalHalfclose
        <3> QED
            BY <1>8, <3>1, LocalWalks
    <2>4. /\ q \in Proxies /\ q.mux = [y.mux EXCEPT !.rx_credit = q.mux.rx_credit]
          /\ \A x \in Channel : Moves(y.ep[x], q.ep[x], x)
          /\ Credit(q) = Credit(y)
        BY <2>3 DEF Walks
    <2>5. ep'[s] = q.ep
        BY <1>1, <2>2, <2>4, BecomesFacts
    <2>6. \A x \in Channel : (\A k : k \notin In(P, x)) /\ ~IsOpen(P[1], x)
        BY <1>4, <1>12, FirstFacts DEF IsOpen
    <2>7. \A x \in Channel : Taken(s, o, V, x)
        <3>1. TAKE x \in Channel
        <3>2. Moves(ep[s][x], ep'[s][x], x)
            BY <1>8, <2>4, <2>5, <3>1
        <3> QED
            BY <1>1, <1>4, <2>2, <2>6, <3>1, <3>2, Untouched
    <2>8. sock' \in [Side -> [Channel -> SockRec]]
        BY <1>1, <2>2 DEF ProxyTypeOK
    <2> QED
        BY <1>5, <2>2, <2>4, <2>7, <2>8, PacketStep
<1>13. CASE P[1].cmd = "DATA" /\ y.ep[c].st = "open" /\ DataForChannel(s, y, c, Tail(P))
    <2>1. PICK data \in Seq(Byte) : data = Tail(P)
        BY <1>4, PayloadFacts
    <2>2. CASE Len(data) > y.mux.rx_credit
        <3>1. aborted' = aborted \cup {s} /\ UNCHANGED <<mux, ep, sock>>
            BY <1>13, <2>1, <2>2 DEF DataForChannel
        <3> QED
            BY <3>1, AbortStep
    <2>3. CASE ~(Len(data) > y.mux.rx_credit)
        <3>1. Len(data) <= y.mux.rx_credit
            BY <1>8, <2>3, ProxiesFacts, LenProperties
        <3>2. PICK f : f = [y.ep[c] EXCEPT !.wqueue = Append(y.ep[c].wqueue, data)]
            OBVIOUS
        <3>3. Queues(y.ep[c], f, data)
            BY <3>2 DEF Queues
        <3>4. PICK q \in Proxies : /\ q = With(y, c, f, -Len(data))
                                   /\ q.ep[c] = f
                                   /\ \A x \in Channel : x # c => q.ep[x] = y.ep[x]
                                   /\ q.mux = [y.mux EXCEPT !.rx_credit = q.mux.rx_credit]
                                   /\ Credit(q) = Credit(y)
            <4>1. y \in Proxies
                BY <1>8
            <4>2. PICK q \in Proxies : Charged(y, q, c, f, data)
                BY <3>1, <3>3, <4>1, ChargedData
            <4> QED
                BY <4>2 DEF Charged
        <3>5. Becomes(s, q) /\ sock' = sock /\ aborted' = aborted
            BY <1>13, <2>1, <2>3, <3>2, <3>4 DEF DataForChannel
        <3>6. ep'[s] = q.ep
            BY <1>1, <3>5, BecomesFacts
        <3>7. PICK e \in EpRec : e = ep[s][c] /\ e = y.ep[c]
            BY <1>1, <1>8, SideTypes
        <3>8. /\ f.st = e.st /\ f.wr = e.wr /\ f.rd = e.rd /\ f.wbuf = e.wbuf
              /\ f.wqueue = Append(e.wqueue, Tail(P))
            BY <2>1, <3>2, <3>7 DEF EpRec
        <3>9. /\ ep[s][c].st = "open" /\ Listed(ep'[s][c]) /\ ep'[s][c].st = "open"
              /\ ep'[s][c].wr = ep[s][c].wr /\ ep'[s][c].wbuf = ep[s][c].wbuf
              /\ ep'[s][c].wqueue = Append(ep[s][c].wqueue, Tail(P))
            <4>1. e.st = "open" /\ Listed(e)
                BY <1>8, <1>13, <3>7
            <4>2. Listed(f) /\ f.st = "open"
                BY <3>8, <4>1 DEF Listed
            <4>3. ep'[s][c] = f
                BY <3>4, <3>6
            <4> QED
                BY <3>7, <3>8, <4>1, <4>2, <4>3
        <3>10. Taken(s, o, V, c)
            <4>1. P[1].cmd # "OPEN" /\ P[1].channel = c /\ sock'[s][c].got = sock[s][c].got
                BY <1>6, <1>13, <3>5
            <4> QED
                BY <1>1, <1>4, <3>9, <4>1, TakenData
        <3>11. \A x \in Channel : Taken(s, o, V, x)
            <4>1. TAKE x \in Channel
            <4>2. CASE x = c
                BY <3>10, <4>2
            <4>3. CASE x # c
                <5>1. Moves(ep[s][x], ep'[s][x], x)
                    BY <1>8, <1>9, <3>4, <3>6, <4>1, <4>3
                <5> QED
                    BY <1>1, <1>4, <1>7, <3>5, <4>1, <4>3, <5>1, Untouched
            <4> QED
                BY <4>2, <4>3
        <3>12. sock' \in [Side -> [Channel -> SockRec]]
            BY <1>1, <3>5 DEF ProxyTypeOK
        <3> QED
            BY <1>5, <3>4, <3>5, <3>11, <3>12, PacketStep
    <2> QED
        BY <2>2, <2>3
<1> QED
    BY <1>4, <1>6, <1>10, <1>11, <1>12, <1>13, DemuxCases
\* n units of K are read into R, and make it P; r is left, and V follows P.
Reads(R, K, b, n, P, r, V) ==
    /\ P = R \o SubSeq(K, 1, n) /\ Len(P) = Len(R) + n
    /\ r = SubSeq(K, n + 1, Len(K)) /\ Len(r) <= Len(K)
    /\ V = r \o b
    /\ Splits(R \o K, P, r)
    /\ Splits(Three(R, K, b), P, V)
    /\ Three(P, r, b) = Three(R, K, b)

\* Reading moves units from the line to rbuf, and leaves the stream as it is.
LEMMA ReadsFacts ==
    ASSUME NEW R \in Seq(Unit), NEW K \in Seq(Unit), NEW b \in Seq(Unit), NEW n \in 0 .. Len(K)
    PROVE  \E P \in Seq(Unit), r \in Seq(Unit), V \in Seq(Unit) : Reads(R, K, b, n, P, r, V)
<1>1. PICK a \in Seq(Unit), r \in Seq(Unit) :
          /\ a = SubSeq(K, 1, n) /\ r = SubSeq(K, n + 1, Len(K)) /\ Len(a) = n
          /\ a \o r = K
    <2>1. PICK a, r : a = SubSeq(K, 1, n) /\ r = SubSeq(K, n + 1, Len(K))
        OBVIOUS
    <2>2. a \in Seq(Unit) /\ r \in Seq(Unit) /\ Len(a) = n /\ a \o r = K
        BY <2>1, CutSplits
    <2> QED
        BY <2>1, <2>2
<1>2. PICK P \in Seq(Unit) : P = R \o a /\ Len(P) = Len(R) + n
    <2>1. R \o a \in Seq(Unit) /\ Len(R \o a) = Len(R) + Len(a) /\ Len(a) = n
        BY <1>1, ConcatProperties
    <2> QED
        BY <2>1
<1>3. PICK V \in Seq(Unit) : V = r \o b
    BY ConcatProperties
<1>4. PICK W \in Seq(Unit) : W = R \o K
    BY ConcatProperties
<1>5. P \o r = W
    <2>1. (R \o a) \o r = R \o (a \o r)
        BY ConcatAssociative, SMTT(60)
    <2> QED
        BY <1>1, <1>2, <1>4, <2>1
<1>6. (P \o r) \o b = P \o (r \o b)
    BY ConcatAssociative, SMTT(60)
<1>7. Three(P, r, b) = Three(R, K, b)
    BY <1>4, <1>5 DEF Three
<1>8. Three(R, K, b) = P \o V
    BY <1>3, <1>6, <1>7 DEF Three
<1>9. Splits(W, P, r) /\ Splits(P \o V, P, V)
    BY <1>5, ConcatSplits
<1>10. Len(r) <= Len(K)
    <2>1. Len(K) = Len(a) + Len(r) /\ Len(a) \in Nat /\ Len(r) \in Nat
        BY <1>1, ConcatProperties, LenProperties
    <2> QED
        BY <2>1
<1>11. Reads(R, K, b, n, P, r, V)
    BY <1>1, <1>2, <1>3, <1>4, <1>7, <1>8, <1>9, <1>10 DEF Reads
<1> QED
    BY <1>11

\* The packet in rbuf is not complete, or not handled yet.
Refilled(s, P) == Becomes(s, [mux |-> [mux[s] EXCEPT !.rbuf = P], ep |-> ep[s]])

\* A part of a packet is read.
LEMMA RefillStep ==
    ASSUME ProxyInv, NEW s \in Side, NEW o \in Side, o = Other(s), Running(s),
           poll' \in [Side -> PollRec],
           UNCHANGED <<next_channel_id, lineOpen, sock, aborted>>,
           NEW r \in Seq(Unit), Leaves(o, r), NEW P \in Seq(Unit), Refilled(s, P),
           Stream(s) = Three(P, r, mux[o].wbuf), P # <<>> => Len(P) <= PacketSize(P)
    PROVE  ProxyInv'
<1>1. ProxyTypeOK /\ Outgoing(s) /\ Incoming(s) /\ CreditAccounted
    BY InvParts
<1>2. s = Other(o) /\ o # s
    BY SideFacts
<1>3. /\ line' \in [Side -> Seq(Unit)] /\ line'[o] = r /\ line'[s] = line[s]
      /\ \A x \in Side : Len(line'[x]) <= LineSize
    BY <1>1, LeavesFacts
<1>4. PICK m \in MuxRec, E \in [Channel -> EpRec] : m = mux[s] /\ E = ep[s]
    BY <1>1 DEF ProxyTypeOK
<1>5. PICK n \in MuxRec : n = [m EXCEPT !.rbuf = P]
    BY DEF MuxRec
<1>6. /\ n.rbuf = P /\ n.wbuf = m.wbuf /\ n.wqueue = m.wqueue /\ n.wr = m.wr
      /\ n.freed = m.freed /\ n.open = m.open /\ n.rx_credit = m.rx_credit
    BY <1>5 DEF MuxRec
<1>7. PICK q \in Proxies : q = [mux |-> n, ep |-> E] /\ q.mux = n /\ q.ep = E
    <2>1. PICK q : q = [mux |-> n, ep |-> E]
        OBVIOUS
    <2>2. q \in Proxies /\ q.mux = n /\ q.ep = E
        BY <2>1 DEF Proxies
    <2> QED
        BY <2>1, <2>2
<1>8. Becomes(s, q)
    BY <1>4, <1>5, <1>7 DEF Refilled
<1>9. /\ mux' \in [Side -> MuxRec] /\ ep' \in [Side -> [Channel -> EpRec]]
      /\ mux'[s] = n /\ ep'[s] = ep[s] /\ mux'[o] = mux[o] /\ ep'[o] = ep[o]
    BY <1>1, <1>4, <1>7, <1>8, BecomesFacts
<1>10. ProxyTypeOK'
    BY <1>1, <1>3, <1>9 DEF ProxyTypeOK
<1>11. Running(s)' = Running(s) /\ Running(o)' = Running(o)
    BY DEF Running
<1>12. Sent(s, o) /\ Outgoing(s)'
    <2>1. Aside(o)
        BY <1>2, <1>3, <1>9, <1>11 DEF Aside
    <2>2. Conveys(mux[s], mux'[s])
        BY <1>4, <1>6, <1>9 DEF Conveys
    <2> QED
        BY <1>1, <1>2, <1>3, <2>1, <2>2, SentConveyed
<1>13. Stream(s)' = Stream(s)
    <2>1. Stream(s)' = Three(P, r, mux[o].wbuf)
        BY <1>3, <1>6, <1>9 DEF Stream, Three
    <2> QED
        BY <2>1
<1>14. Incoming(s)'
    <2>1. EndpointInv(s)'
        BY <1>1, <1>9 DEF Incoming, EndpointInv
    <2>2. OpenInv(s)'
        BY <1>1, <1>9, <1>11, <1>13 DEF Incoming, OpenInv
    <2>3. ChannelInv(s)'
        BY <1>1, <1>9, <1>11, <1>13 DEF Incoming, ChannelInv
    <2>4. Framed(Stream(s)', mux'[o].wr)
        BY <1>1, <1>9, <1>13 DEF Incoming
    <2>5. mux'[s].rbuf # <<>> => Len(mux'[s].rbuf) <= PacketSize(mux'[s].rbuf)
        BY <1>6, <1>9
    <2> QED
        BY <2>1, <2>2, <2>3, <2>4, <2>5 DEF Incoming
<1>15. Orders(s)
    <2>1. \A x \in Channel : sock[s][x].taken \in Nat
        BY <1>1, SideTypes
    <2> QED
        BY <2>1 DEF Orders
<1>16. mux'[s].open /\ Running(s)' =>
           mux'[s].rx_credit + Total([x \in Channel |-> TotalLength(ep'[s][x].wqueue)])
               = MultiplexCredit
    BY <1>1, <1>4, <1>6, <1>9, <1>11 DEF CreditAccounted
<1> QED
    BY <1>2, <1>10, <1>12, <1>14, <1>15, <1>16, SideStep
\* The proxy of side s with w in rbuf.
LEMMA ProxyRbuf ==
    ASSUME NEW s, NEW w
    PROVE  [Proxy(s) EXCEPT !.mux.rbuf = w] = [mux |-> [mux[s] EXCEPT !.rbuf = w], ep |-> ep[s]]
<1>1. PICK m, E : m = mux[s] /\ E = ep[s]
    OBVIOUS
<1>2. PICK r : r = [mux |-> m, ep |-> E]
    OBVIOUS
<1>3. [r EXCEPT !.mux.rbuf = w] = [mux |-> [m EXCEPT !.rbuf = w], ep |-> E]
    BY <1>2, MuxExcept
<1>4. Proxy(s) = r
    BY <1>1, <1>2 DEF Proxy
<1> QED
    BY <1>1, <1>3, <1>4

\* The line is read.
LEMMA RecvDemuxInv ==
    ASSUME ProxyInv, NEW s \in Side, RecvDemux(s)
    PROVE  ProxyInv'
<1>1. ProxyTypeOK /\ Incoming(s)
    BY InvParts
<1>2. PICK o \in Side : o = Other(s)
    BY SideFacts
<1>3. Running(s) /\ poll' \in [Side -> PollRec]
    BY <1>1, HandleFacts DEF RecvDemux
<1>4. PICK R \in Seq(Unit), K \in Seq(Unit), b \in Seq(Unit) :
          R = mux[s].rbuf /\ K = line[o] /\ b = mux[o].wbuf
    BY <1>1, SideTypes
<1>5. PICK size, rcount, n, W :
          /\ W = R \o K /\ size = PacketSize(W) /\ rcount = recv_bufsiz(mux[s].rx_credit)
          /\ n = Least(Least(rcount, Len(K)), size - Len(R))
    OBVIOUS
<1>6. PICK i \in Nat, k \in Nat : i = Len(R) /\ k = Len(K)
    BY LenProperties
<1>7. W \in Seq(Unit) /\ W # <<>> /\ Head(W) = W[1] /\ Head(W) \in Unit /\ Splits(W, R, K)
    <2>1. W \in Seq(Unit) /\ Splits(W, R, K)
        BY <1>5, ConcatSplits
    <2>2. K # <<>>
        BY <1>2, <1>4 DEF RecvDemux
    <2>3. W # <<>>
        <3>1. Len(W) = i + k /\ k # 0
            BY <1>6, <2>1, <2>2, SeqFacts DEF Splits
        <3>2. i + k # 0
            BY <3>1
        <3> QED
            BY <2>1, <3>1, <3>2, SeqFacts
    <2> QED
        BY <2>1, <2>3, TailFacts
<1>8. size \in Nat /\ i <= size /\ size = 1 + W[1].count /\ size >= 1
    <2>1. W[1].count \in Nat /\ size = 1 + W[1].count
        BY <1>5, <1>7, UnitFacts DEF PacketSize
    <2>2. CASE R = <<>>
        BY <1>6, <2>1, <2>2, SeqFacts
    <2>3. CASE R # <<>>
        <3>1. Len(R) <= PacketSize(R)
            BY <1>1, <1>3, <1>4, <2>3 DEF Incoming
        <3>2. Head(R) = R[1] /\ R[1] = W[1]
            BY <1>7, <2>3, TailFacts DEF Splits
        <3> QED
            BY <1>6, <2>1, <3>1, <3>2 DEF PacketSize
    <2> QED
        BY <2>2, <2>3
<1>9. rcount \in Nat
    BY <1>1, <1>5, SideTypes, ProxyAssumption DEF recv_bufsiz, Least
<1>10. n \in 0 .. Len(K) /\ n <= size - i
    <2>1. PICK j \in Nat : j = Least(rcount, k) /\ j <= k
        BY <1>6, <1>9 DEF Least
    <2>2. PICK x \in Nat : x = size - i
        BY <1>6, <1>8
    <2>3. n = Least(j, x)
        BY <1>5, <1>6, <2>1, <2>2
    <2>4. n \in Nat /\ n <= j /\ n <= x
        BY <2>3 DEF Least
    <2>5. n \in 0 .. k /\ n <= size - i
        BY <2>1, <2>2, <2>4
    <2> QED
        BY <1>6, <2>5
<1>11. PICK P \in Seq(Unit), r \in Seq(Unit), V \in Seq(Unit) : Reads(R, K, b, n, P, r, V)
    BY <1>10, ReadsFacts
<1>12. PICK y : y = [mux |-> [mux[s] EXCEPT !.rbuf = <<>>], ep |-> ep[s]]
    OBVIOUS
<1>13. PICK z : z = [mux |-> [mux[s] EXCEPT !.rbuf = P], ep |-> ep[s]]
    OBVIOUS
<1>14. /\ [Proxy(s) EXCEPT !.mux.rbuf = <<>>] = y
       /\ [Proxy(s) EXCEPT !.mux.rbuf = P] = z
    BY <1>12, <1>13, ProxyRbuf
<1>15. P = R \o SubSeq(K, 1, n) /\ r = SubSeq(K, n + 1, Len(K)) /\ Len(P) = i + n
    BY <1>6, <1>11 DEF Reads
<1>16. /\ line' = [line EXCEPT ![o] = r]
       /\ \/ Len(P) = size /\ n < rcount /\ demux_packet(s, y, P)
          \/ Becomes(s, z) /\ UNCHANGED <<sock, aborted>>
       /\ UNCHANGED <<next_channel_id, lineOpen>>
    BY <1>2, <1>4, <1>5, <1>14, <1>15 DEF RecvDemux
<1>17. Leaves(o, r)
    <2>1. Len(r) <= Len(K) /\ Len(K) <= LineSize
        BY <1>1, <1>4, <1>11 DEF Reads, ProxyTypeOK
    <2>2. Len(r) \in Nat /\ LineSize \in Nat
        BY LenProperties, ProxyAssumption
    <2> QED
        BY <1>6, <1>16, <2>1, <2>2 DEF Leaves
<1>18. Stream(s) = Three(R, K, b)
    BY <1>2, <1>4 DEF Stream, Three
<1>19. P # <<>> => PacketSize(P) = size
    <2>1. SUFFICES ASSUME P # <<>> PROVE PacketSize(P) = size
        OBVIOUS
    <2>2. Head(P) = P[1] /\ 1 \in DOMAIN P
        BY <2>1, TailFacts
    <2>3. Splits(W, P, r)
        BY <1>5, <1>11 DEF Reads
    <2>4. P[1] = W[1]
        BY <2>2, <2>3 DEF Splits
    <2> QED
        BY <1>8, <2>2, <2>4 DEF PacketSize
<1>20. CASE Len(P) = size /\ n < rcount /\ demux_packet(s, y, P)
    <2>1. FullPacket(P)
        <3>1. P # <<>>
            BY <1>8, <1>20, SeqFacts
        <3> QED
            BY <1>19, <1>20, <3>1 DEF FullPacket
    <2>2. Splits(Stream(s), P, V)
        BY <1>11, <1>18 DEF Reads
    <2>3. Follows(V, r, o)
        BY <1>4, <1>11 DEF Reads, Follows
    <2>4. Emptied(s, y)
        BY <1>12 DEF Emptied
    <2> QED
        BY <1>2, <1>3, <1>16, <1>17, <1>20, <2>1, <2>2, <2>3, <2>4, DemuxStep
<1>21. CASE Becomes(s, z) /\ UNCHANGED <<sock, aborted>>
    <2>1. Refilled(s, P)
        BY <1>13, <1>21 DEF Refilled
    <2>2. Stream(s) = Three(P, r, mux[o].wbuf)
        <3>1. Three(P, r, b) = Three(R, K, b)
            BY <1>11 DEF Reads
        <3> QED
            BY <1>4, <1>18, <3>1
    <2>3. P # <<>> => Len(P) <= PacketSize(P)
        <3>1. n \in Nat /\ i + n <= size
            BY <1>6, <1>8, <1>10
        <3> QED
            BY <1>15, <1>19, <3>1
    <2> QED
        BY <1>2, <1>3, <1>16, <1>17, <1>21, <2>1, <2>2, <2>3, RefillStep
<1> QED
    BY <1>16, <1>20, <1>21

\* A packet left over is handled.
LEMMA RecvLeftoverInv ==
    ASSUME ProxyInv, NEW s \in Side, RecvLeftover(s)
    PROVE  ProxyInv'
<1>1. ProxyTypeOK /\ Incoming(s)
    BY InvParts
<1>2. PICK o \in Side : o = Other(s)
    BY SideFacts
<1>3. Running(s) /\ poll' \in [Side -> PollRec]
    BY <1>1, HandleFacts DEF RecvLeftover
<1>4. PICK P \in Seq(Unit), b \in Seq(Unit), r \in Seq(Unit) :
          P = mux[s].rbuf /\ b = mux[o].wbuf /\ r = line[o]
    BY <1>1, SideTypes
<1>5. r = <<>> /\ FullPacket(P) /\ line' = line /\ UNCHANGED <<next_channel_id, lineOpen>>
    BY <1>2, <1>4 DEF RecvLeftover
<1>6. PICK y : y = [mux |-> [mux[s] EXCEPT !.rbuf = <<>>], ep |-> ep[s]]
    OBVIOUS
<1>7. demux_packet(s, y, P)
    <2>1. [Proxy(s) EXCEPT !.mux.rbuf = <<>>] = y
        BY <1>6, ProxyRbuf
    <2> QED
        BY <1>4, <2>1 DEF RecvLeftover
<1>8. PICK V \in Seq(Unit) : V = r \o b
    BY ConcatProperties
<1>9. Splits(Stream(s), P, V)
    <2>1. (P \o r) \o b = P \o (r \o b)
        BY ConcatAssociative, SMTT(60)
    <2>2. Stream(s) = P \o V
        BY <1>2, <1>4, <1>8, <2>1 DEF Stream
    <2> QED
        BY <2>2, ConcatSplits
<1>10. Leaves(o, r)
    <2>1. [line EXCEPT ![o] = line[o]] = line
        BY <1>1 DEF ProxyTypeOK
    <2>2. Len(line[o]) <= LineSize
        BY <1>1 DEF ProxyTypeOK
    <2> QED
        BY <1>4, <1>5, <2>1, <2>2 DEF Leaves
<1>11. Follows(V, r, o) /\ Emptied(s, y)
    BY <1>4, <1>6, <1>8 DEF Follows, Emptied
<1> QED
    BY <1>2, <1>3, <1>5, <1>7, <1>9, <1>10, <1>11, DemuxStep
-----------------------------------------------------------------------------
(* The theorems                                                             *)

\* The counts of no units at all.
LEMMA TotalOfZeros ==
    ASSUME NEW f, NEW S, Numbers(f, S), \A x \in S : f[x] = 0
    PROVE  Total(f) = 0
<1>1. Parts(f) = {}
    <2>1. \A x \in S : \A i \in Int : i \notin 1 .. f[x]
        OBVIOUS
    <2>2. DOMAIN f = S
        BY DEF Numbers
    <2>3. SUFFICES ASSUME NEW u \in Parts(f) PROVE FALSE
        OBVIOUS
    <2>4. PICK x \in DOMAIN f, i \in Int : i \in 1 .. f[x]
        BY <2>3, PartsFacts
    <2> QED
        BY <2>1, <2>2, <2>4
<1>2. Total(f) = Cardinality(Parts(f))
    BY PartsFacts
<1> QED
    BY <1>1, <1>2, FS_EmptySet

\* Nothing of a channel is in an empty stream.
LEMMA EmptyStream ==
    ASSUME NEW c, NEW new \in BOOLEAN, NEW U \in Seq(Unit), NEW w \in Seq(Mbuf), U = <<>>, w = <<>>
    PROVE  /\ Framed(U, TRUE)
           /\ Flow(U, w, TRUE, c, 0, 0)
           /\ Opening(U, w, TRUE, c, new, FALSE)
<1>1. DOMAIN U = {} /\ DOMAIN w = {}
    <2>1. Len(U) = 0 /\ Len(w) = 0 /\ DOMAIN U = 1 .. Len(U) /\ DOMAIN w = 1 .. Len(w)
        BY SeqFacts
    <2> QED
        BY <2>1
<1>2. In(U, c) = {} /\ Queued(w, c) = {} /\ ~InOpen(U, c) /\ ~QueueOpen(w, c)
    BY <1>1 DEF In, Queued, InOpen, QueueOpen
<1>3. Framed(U, TRUE)
    BY <1>1 DEF Framed
<1>4. Flow(U, w, TRUE, c, 0, 0)
    <2>1. Increasing(U, c) /\ IncreasingQueue(w, c)
        BY <1>1 DEF Increasing, IncreasingQueue
    <2>2. \A x : x \notin 0 + 1 .. 0
        OBVIOUS
    <2> QED
        BY <1>2, <2>1, <2>2 DEF Flow
<1>5. Opening(U, w, TRUE, c, new, FALSE)
    <2>1. OpenedOnce(U, w, c) /\ OpenedFirst(U, w, TRUE, c)
        BY <1>1, <1>2 DEF OpenedOnce, OpenedFirst
    <2> QED
        BY <1>2, <2>1 DEF Opening
<1> QED
    BY <1>3, <1>4, <1>5

\* Nothing has arrived at a new endpoint.
LEMMA NothingArrived ==
    ASSUME NEW e \in EpRec, NEW got \in Seq(Byte), NEW c,
           e.wbuf = <<>>, e.wqueue = <<>>, got = <<>>
    PROVE  Arrived(e, got, c, 0)
<1>1. PICK b \in Seq(Byte), q \in Seq(Seq(Byte)) : b = e.wbuf /\ q = e.wqueue
    BY EpFacts
<1>2. Len(b) = 0 /\ DOMAIN b = {} /\ Len(q) = 0 /\ Len(got) = 0
    <2>1. Len(b) = 0 /\ DOMAIN b = 1 .. Len(b) /\ Len(q) = 0 /\ Len(got) = 0
        BY <1>1, SeqFacts
    <2> QED
        BY <2>1
<1>3. Row(b, c, 0)
    BY <1>2 DEF Row
<1>4. \E pos : Places(pos, q, c, 0, 0)
    <2>1. PICK pos : pos = [i \in {1} |-> 0]
        OBVIOUS
    <2>2. Places(pos, q, c, 0, 0)
        <3>1. pos[1] = 0 /\ Len(q) + 1 = 1
            BY <1>2, <2>1
        <3>2. \A i \in 1 .. Len(q) + 1 : i = 1
            BY <3>1
        <3>3. \A i \in 1 .. Len(q) : FALSE
            BY <1>2
        <3> QED
            BY <3>1, <3>2, <3>3 DEF Places
    <2> QED
        BY <2>2
<1>5. 0 + Len(b) = 0
    BY <1>2
<1> QED
    BY <1>1, <1>2, <1>3, <1>4, <1>5 DEF Arrived, Chain
\* The invariant holds in the initial state.
LEMMA InitInv ==
    ASSUME Init
    PROVE  ProxyInv
<1>1. PICK z \in Seq(Unit), w \in Seq(Mbuf), b \in Seq(Byte), q \in Seq(Seq(Byte)) :
          z = <<>> /\ w = <<>> /\ b = <<>> /\ q = <<>>
    <2>1. <<>> \in Seq(Unit) /\ <<>> \in Seq(Mbuf) /\ <<>> \in Seq(Byte)
          /\ <<>> \in Seq(Seq(Byte))
        BY EmptySeq
    <2> QED
        BY <2>1
<1>2. PICK M : M = [open |-> TRUE, wr |-> TRUE, freed |-> FALSE, rx_credit |-> MultiplexCredit,
                    rbuf |-> z, wbuf |-> z, wqueue |-> w]
    OBVIOUS
<1>3. /\ M \in MuxRec /\ M.open /\ M.wr /\ M.wr = TRUE /\ ~M.freed
      /\ M.rx_credit = MultiplexCredit /\ M.rbuf = z /\ M.wbuf = z /\ M.wqueue = w
    BY <1>2, ProxyAssumption DEF MuxRec
<1>4. PICK K : K = [st |-> "none", sent |-> 0, taken |-> 0, got |-> b, unread |-> 0]
    OBVIOUS
<1>5. K \in SockRec /\ K.taken = 0 /\ K.got = b
    <2>1. 0 \in 0 .. MaxBytes /\ 0 \in 0 .. SockSize
        BY UnitFacts, ProxyAssumption
    <2> QED
        BY <1>4, <2>1 DEF SockRec
<1>6. PICK e : e = NoEndpoint
    OBVIOUS
<1>7. /\ e \in EpRec /\ e.st = "none" /\ ~e.rd /\ ~e.wr
      /\ e.wbuf = <<>> /\ e.wqueue = <<>>
    <2>1. e = [st |-> "none", addr |-> None, rd |-> FALSE, wr |-> FALSE,
               shutdown_write |-> FALSE, rx_credit |-> 0, wbuf |-> b, wqueue |-> q]
        BY <1>1, <1>6 DEF NoEndpoint
    <2> QED
        BY <1>1, <2>1 DEF EpRec
<1>8. /\ mux = [s \in Side |-> M] /\ ep = [s \in Side |-> [c \in Channel |-> e]]
      /\ sock = [s \in Side |-> [c \in Channel |-> K]] /\ line = [s \in Side |-> z]
      /\ next_channel_id = 1 /\ lineOpen = TRUE /\ aborted = {}
      /\ poll = [s \in Side |-> [at |-> "prepare", events |-> {}]]
    BY <1>1, <1>2, <1>4, <1>6 DEF Init
<1>9. ASSUME NEW s \in Side
      PROVE  /\ mux[s] = M /\ line[s] = z /\ \A c \in Channel : ep[s][c] = e /\ sock[s][c] = K
    BY <1>8, <1>9
<1>10. ProxyTypeOK
    <2>1. [at |-> "prepare", events |-> {}] \in PollRec
        BY DEF PollRec
    <2>2. poll \in [Side -> PollRec]
        BY <1>8, <2>1
    <2>3. Len(z) <= LineSize
        <3>1. Len(z) = 0
            BY <1>1, SeqFacts
        <3> QED
            BY <3>1, ProxyAssumption
    <2>4. next_channel_id \in 1 .. (MaxChannel + 1)
        BY <1>8, ProxyAssumption
    <2>5. line \in [Side -> Seq(Unit)] /\ \A s \in Side : Len(line[s]) <= LineSize
        BY <1>8, <2>3
    <2>6. mux \in [Side -> MuxRec] /\ ep \in [Side -> [Channel -> EpRec]]
          /\ sock \in [Side -> [Channel -> SockRec]]
        BY <1>3, <1>5, <1>7, <1>8
    <2>7. lineOpen \in BOOLEAN /\ aborted \in SUBSET Side
        BY <1>8
    <2> QED
        BY <2>2, <2>4, <2>5, <2>6, <2>7 DEF ProxyTypeOK
<1>11. \A s \in Side : Other(s) \in Side
    BY SideFacts
<1>12. Len(b) = 0
    BY <1>1, SeqFacts
<1>13. InOrder
    <2>1. ASSUME NEW c \in Channel
          PROVE  b = Bytes(c, 0, Len(b))
        <3>1. b \in [1 .. 0 -> Byte]
            BY <1>12, LenProperties
        <3>2. Bytes(c, 0, 0) \in [1 .. 0 -> Byte]
            <4>1. \A i \in 1 .. 0 : FALSE
                OBVIOUS
            <4>2. 0 - 0 = 0
                OBVIOUS
            <4> QED
                BY <4>1, <4>2 DEF Bytes
        <3>3. \A i \in 1 .. 0 : b[i] = Bytes(c, 0, 0)[i]
            OBVIOUS
        <3>4. b = Bytes(c, 0, 0)
            BY <3>1, <3>2, <3>3
        <3> QED
            BY <1>12, <3>4
    <2>2. ASSUME NEW s \in Side, NEW c \in Channel
          PROVE  /\ sock[s][c].got = Bytes(c, 0, Len(sock[s][c].got))
                 /\ Len(sock[s][c].got) <= sock[Other(s)][c].taken
        <3>1. sock[s][c] = K /\ sock[Other(s)][c] = K
            BY <1>9, <1>11, <2>2
        <3> QED
            BY <1>5, <1>12, <2>1, <3>1
    <2> QED
        BY <2>2 DEF InOrder
<1>14. CreditAccounted
    <2>1. ASSUME NEW s \in Side
          PROVE  mux[s].rx_credit + Total([c \in Channel |-> TotalLength(ep[s][c].wqueue)])
                     = MultiplexCredit
        <3>1. PICK f : f = [c \in Channel |-> TotalLength(ep[s][c].wqueue)]
            OBVIOUS
        <3>2. \A c \in Channel : f[c] = 0
            BY <1>7, <1>9, <2>1, <3>1, LengthNone
        <3>3. Numbers(f, Channel)
            <4>1. PICK p \in Proxies : p = Proxy(s) /\ p.ep = ep[s]
                BY <1>10, <2>1, ProxyFacts
            <4>2. Lengths(p) = f
                BY <3>1, <4>1 DEF Lengths
            <4> QED
                BY <4>1, <4>2, LengthsNumbers
        <3>4. Total(f) = 0
            BY <3>2, <3>3, TotalOfZeros
        <3> QED
            BY <1>3, <1>9, <2>1, <3>1, <3>4, ProxyAssumption
    <2> QED
        BY <2>1 DEF CreditAccounted
<1>15. ASSUME NEW s \in Side
       PROVE  Outgoing(s) /\ Incoming(s)
    <2>1. PICK o \in Side : o = Other(s)
        BY <1>15, SideFacts
    <2>2. mux[s] = M /\ mux[o] = M /\ line[o] = z
        BY <1>9, <1>15, <2>1
    <2>3. PICK U \in Seq(Unit) : U = Stream(s) /\ U = <<>>
        <3>1. z \o z = z
            BY ConcatEmptySeq, <1>1
        <3>2. Stream(s) = z
            BY <1>3, <2>1, <2>2, <3>1 DEF Stream
        <3> QED
            BY <1>1, <3>2
    <2>4. Outgoing(s)
        <3>1. DOMAIN w = {}
            <4>1. Len(w) = 0 /\ DOMAIN w = 1 .. Len(w)
                BY <1>1, SeqFacts
            <4> QED
                BY <4>1
        <3> QED
            BY <1>3, <2>2, <3>1 DEF Outgoing
    <2>5. EndpointInv(s)
        <3>1. \A c \in Channel : ~(c < next_channel_id) /\ next_channel_id <= c
            BY <1>8, ProxyAssumption DEF Channel
        <3> QED
            BY <1>1, <1>5, <1>7, <1>9, <1>15, <3>1 DEF EndpointInv
    <2>6. OpenInv(s)
        <3>1. ASSUME NEW c \in Channel
              PROVE  Opening(Stream(s), mux[o].wqueue, mux[o].wr, c, ep[s][c].st = "none",
                             s = "host" /\ c < next_channel_id)
            <4>1. PICK new \in BOOLEAN : new = (ep[s][c].st = "none")
                OBVIOUS
            <4>2. (s = "host" /\ c < next_channel_id) = FALSE
                BY <1>8, <3>1, ProxyAssumption DEF Channel
            <4>3. mux[o].wqueue = w /\ mux[o].wr = TRUE
                BY <1>3, <2>2
            <4>4. Opening(U, w, TRUE, c, new, FALSE)
                BY <1>1, <2>3, EmptyStream
            <4> QED
                BY <2>3, <4>1, <4>2, <4>3, <4>4
        <3> QED
            BY <2>1, <3>1 DEF OpenInv
    <2>7. ChannelInv(s)
        <3>1. ASSUME NEW c \in Channel
              PROVE  /\ Arrived(ep[s][c], sock[s][c].got, c, 0)
                     /\ Flow(Stream(s), mux[o].wqueue, mux[o].wr, c, 0, sock[o][c].taken)
            <4>1. ep[s][c] = e /\ sock[s][c] = K /\ sock[o][c] = K
                BY <1>9, <1>15, <2>1, <3>1
            <4>2. mux[o].wqueue = w /\ mux[o].wr = TRUE
                BY <1>3, <2>2
            <4>3. Arrived(e, b, c, 0)
                BY <1>1, <1>7, NothingArrived
            <4>4. Flow(U, w, TRUE, c, 0, 0)
                <5>1. TRUE \in BOOLEAN
                    OBVIOUS
                <5> QED
                    BY <1>1, <2>3, <5>1, EmptyStream
            <4> QED
                BY <1>5, <2>3, <4>1, <4>2, <4>3, <4>4
        <3> QED
            BY <2>1, <3>1 DEF ChannelInv
    <2>8. Framed(Stream(s), mux[o].wr)
        <3>1. TRUE \in BOOLEAN
            OBVIOUS
        <3>2. Framed(U, TRUE)
            BY <1>1, <2>3, <3>1, EmptyStream
        <3> QED
            BY <1>3, <2>2, <2>3, <3>2
    <2>9. mux[s].rbuf = <<>>
        BY <1>1, <1>3, <2>2
    <2> QED
        BY <2>1, <2>4, <2>5, <2>6, <2>7, <2>8, <2>9 DEF Incoming
<1> QED
    BY <1>10, <1>13, <1>14, <1>15, InvParts

\* Every step preserves the invariant.
LEMMA NextInv ==
    ASSUME ProxyInv, [Next]_vars
    PROVE  ProxyInv'
<1>1. ASSUME NEW c \in Channel, Accept(c) PROVE ProxyInv'
    BY <1>1, AcceptInv
<1>2. ASSUME NEW s \in Side, NEW c \in Channel, ProgramSends(s, c) PROVE ProxyInv'
    BY <1>2, ProgramSendsInv
<1>3. ASSUME NEW s \in Side, NEW c \in Channel, ProgramReads(s, c) PROVE ProxyInv'
    BY <1>3, ProgramReadsInv
<1>4. ASSUME NEW s \in Side, NEW c \in Channel, ProgramCloses(s, c) PROVE ProxyInv'
    BY <1>4, ProgramClosesInv
<1>5. ASSUME LineCloses PROVE ProxyInv'
    BY <1>5, LineClosesInv
<1>6. ASSUME NEW s \in Side, Prepare(s) PROVE ProxyInv'
    BY <1>6, PrepareInv
<1>7. ASSUME NEW s \in Side, Poll(s) PROVE ProxyInv'
    BY <1>7, PollInv
<1>8. ASSUME NEW s \in Side, LineStep(s) PROVE ProxyInv'
    BY <1>8, RecvDemuxInv, RecvLeftoverInv, LineEofInv, WriteLineInv, ShutdownLineInv DEF LineStep
<1>9. ASSUME NEW s \in Side, NEW c \in Channel, ChannelStep(s, c) PROVE ProxyInv'
    BY <1>9, RecvMuxInv, RecvEofInv, WriteInv, ShutdownChannelInv, SkipChannelInv
    DEF ChannelStep
<1>10. ASSUME UNCHANGED vars PROVE ProxyInv'
    <2>1. UNCHANGED <<mux, ep, next_channel_id, line, lineOpen, sock, poll, aborted>>
        BY <1>10 DEF vars
    <2>2. ProxyTypeOK'
        BY <2>1 DEF ProxyInv, ProxyTypeOK
    <2> QED
        BY <2>1, <2>2, StillStep
<1> QED
    BY <1>1, <1>2, <1>3, <1>4, <1>5, <1>6, <1>7, <1>8, <1>9, <1>10 DEF Next, Loop

\* What the proxies keep, whatever is accepted, sent, read, cut off or closed:
\* the units on the way are packets, each channel is opened once and before its
\* bytes, and every byte sent and not discarded is at one place, in order.
THEOREM ProxyInvariant == Spec => []ProxyInv
<1>1. Init => ProxyInv
    BY InitInv
<1>2. ProxyInv /\ [Next]_vars => ProxyInv'
    BY NextInv
<1> QED
    BY <1>1, <1>2, PTL DEF Spec

\* What a program receives over a channel is what the program at the other end
\* sent, from the start and without a gap (proxy_recv_mux, proxy_recv_demux,
\* io_endpoint_doio), although proxies discard what they have queued.
THEOREM BytesArriveInOrder == Spec => []InOrder
<1>1. ProxyInv => InOrder
    BY DEF ProxyInv
<1> QED
    BY <1>1, ProxyInvariant, PTL

\* As long as a proxy runs and its line is open, the credit of the multiplexing
\* endpoint and what it has queued to channels add up to
\* DEFAULT_CREDIT_MULTIPLEX (io_mbuf_take_buffer, io_endpoint_write_queue_discard).
THEOREM CreditIsAccounted == Spec => []CreditAccounted
<1>1. ProxyInv => CreditAccounted
    BY DEF ProxyInv
<1> QED
    BY <1>1, ProxyInvariant, PTL
=============================================================================
