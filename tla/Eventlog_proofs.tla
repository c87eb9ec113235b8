-------------------------- MODULE Eventlog_proofs --------------------------
(***************************************************************************)
(* Proofs about Eventlog: the master's log has the bytes of the system log *)
(* in order and without gaps, the report of a process follows what it      *)
(* wrote, and a purge takes only what was shown; for any number of bytes,  *)
(* files, processes, crashes and clients' reads.                           *)
(***************************************************************************)
EXTENDS Eventlog, TLAPS, SequenceTheorems, WellFoundedInduction

-----------------------------------------------------------------------------
(* The inductive invariant: the queue to the master *)

Starting == {"down", "registering", "setup"}

\* The agent is neither starting nor waiting for the master.
Working == AgentPc \ (Starting \cup {"adding"})

\* The agent waits for the master before it sends again, so an event can only be
\* the first message, and what follows are announcements of later agents.
QueueInv ==
    /\ pc \notin {"down", "registering", "adding"} => masterq = <<>>
    /\ pc = "adding" =>
          masterq # <<>> /\ Len(masterq) = 1 /\ masterq[1].type = "add" /\ masterq[1].inc = inc
    /\ \A i \in DOMAIN masterq :
          masterq[i].inc <= inc /\ (i # 1 => masterq[i].type = "register")
    /\ pc = "registering" =>
          /\ masterq # <<>>
          /\ masterq[Len(masterq)].type = "register"
          /\ masterq[Len(masterq)].inc = inc
          /\ \A i \in DOMAIN masterq : i # Len(masterq) => masterq[i].inc < inc
    /\ pc \in Starting => fd = None /\ child = "none" /\ due = {} /\ alog = ni_eventlog_new

AddFirst == masterq # <<>> /\ masterq[1].type = "add"

-----------------------------------------------------------------------------
(* The numbers of events *)

\* The next event is number n.
Follows(n) ==
    mlog # None => \A i \in DOMAIN mlog.events :
                      mlog.events[i].sequence + Len(mlog.events) + 1 = n + i

NextPushed == alog.seqno - pending_count(alog)

NumberInv ==
    /\ \A i \in DOMAIN alog.events :
          alog.events[i].sequence + Len(alog.events) + 1 = alog.seqno + i
    /\ mlog # None => \A i, j \in DOMAIN mlog.events :
          mlog.events[i].sequence + j = mlog.events[j].sequence + i
    /\ AddFirst => Follows(masterq[1].event.sequence)
    /\ pc = "setup" /\ mlog # None => mlog.events = <<>>
    /\ pc \in Working => Follows(NextPushed)
    /\ pc = "adding" => masterq[1].event.sequence + 1 = NextPushed

\* What the client was shown is still what it is about to purge.
Reading == client.pc = "purge" /\ client.hadLog /\ client.epoch = epoch

ShownInv ==
    /\ client.epoch <= epoch
    /\ client.pc = "purge" => client.seq_seen # 0
    /\ Reading =>
          /\ \A s \in PendingSeqs(mlog) : s <= client.seq_seen => s \in client.shown
          /\ AddFirst => client.seq_seen < masterq[1].event.sequence
          /\ pc # "setup"
          /\ pc \in Working => client.seq_seen < NextPushed

-----------------------------------------------------------------------------
(* The bytes *)

\* Syslogd writes to one file after the other.
FilesInv ==
    /\ path \in {None, ninodes} /\ wfd <= ninodes
    /\ \A f \in Inode : f > wfd => content[f] = <<>>
    /\ \A f \in Inode : \A i \in DOMAIN content[f] : content[f][i] <= nbytes
    /\ \A f \in Inode : \A i, j \in DOMAIN content[f] : i < j => content[f][i] < content[f][j]
    /\ \A f, g \in Inode : f < g =>
          \A i \in DOMAIN content[f], j \in DOMAIN content[g] : content[f][i] < content[g][j]

Increasing(s) == \A i, j \in DOMAIN s : i < j => s[i] < s[j]

\* Where a byte is that the monitor has read.
IsReceived(b) == b \in BytesOf(received)
OnTheWay(b) == AddFirst /\ b \in BytesOf(masterq[1].event.data)
PendingIn(i, b) == i > alog.consumed /\ b \in BytesOf(alog.events[i].data)
IsPending(b) == \E i \in DOMAIN alog.events : PendingIn(i, b)
Logged(b) == IsReceived(b) \/ OnTheWay(b) \/ IsPending(b)

InFile(f, b) == f # None /\ b \in BytesOf(content[f])

\* What the monitor has not read of the file it has open.
Unread(b) ==
    fd # None /\ \E i \in DOMAIN content[fd] :
        content[fd][i] = b /\ (pc = "fresh" \/ i > st_size)

Ahead(b) == pc \notin Starting /\ (Unread(b) \/ (path # fd /\ InFile(path, b)))

SentInv ==
    /\ Increasing(received)
    /\ AddFirst => Increasing(masterq[1].event.data)
    /\ \A i \in DOMAIN alog.events : Increasing(alog.events[i].data)
    /\ \A b, c \in Byte :
          /\ IsReceived(b) /\ (OnTheWay(c) \/ IsPending(c)) => b < c
          /\ OnTheWay(b) /\ IsPending(c) => b < c
    /\ \A i, j \in DOMAIN alog.events : \A b, c \in Byte :
          PendingIn(i, b) /\ PendingIn(j, c) /\ i < j => b < c
    /\ \A b \in Byte : Logged(b) => b <= nbytes

AheadInv == \A b, c \in Byte : Logged(b) /\ Ahead(c) => b < c

-----------------------------------------------------------------------------
(* The monitor *)

\* The bytes before st_size have been read, unless the file was truncated.
MonitorInv ==
    /\ pc \in {"grown", "stat", "gone", "replaced", "fresh"} => fd # None
    /\ pc = "reopen" => fd = None
    /\ pc \in {"gone", "replaced"} => path # fd
    /\ fd # None => fd <= ninodes
    /\ pc = "grown" => st_size < now_size
    /\ fd # None /\ fd \notin truncated =>
          /\ st_size <= Len(content[fd])
          /\ pc = "grown" => now_size <= Len(content[fd])
          /\ pc # "fresh" => \A i \in 1 .. st_size, b \in Byte :
                content[fd][i] = b => Logged(b) \/ b \in skipped

\* Bytes the report has to follow and that the monitor has not read.
Left(b) == b \in due /\ ~Logged(b)

\* The poll that ended with the system call before pc has found what is left.
Found(b) ==
    CASE pc = "grown" -> \/ \E i \in st_size + 1 .. now_size :
                              i <= Len(content[fd]) /\ content[fd][i] = b
                         \/ path # fd /\ InFile(path, b)
      [] pc \in {"stat", "replaced"} -> path # fd /\ InFile(path, b)
      [] pc = "reopen" -> InFile(path, b)
      [] pc = "fresh" -> \E i \in 1 .. st_size : i <= Len(content[fd]) /\ content[fd][i] = b
      [] OTHER -> FALSE

DueInv ==
    /\ due \cap skipped = {}
    /\ \A b \in due : b <= nbytes
    /\ \A f \in truncated : due \cap BytesOf(content[f]) = {}
    /\ child \in {"none", "running"} => due = {}
    /\ child = "exited" => \A b \in due : Left(b) => InFile(fd, b) \/ InFile(path, b)
    /\ caller = "exit" /\ pc \notin Starting \cup {"idle"} =>
          /\ child = "exited"
          /\ pc # "report" => \A b \in due : Left(b) => Found(b)
    /\ pc = "report" => caller = "exit" /\ \A b \in due : IsReceived(b)
    /\ child = "reported" => \A b \in due : IsReceived(b)

LogInv ==
    /\ EventlogTypeOK /\ QueueInv /\ NumberInv /\ ShownInv
    /\ FilesInv /\ SentInv /\ AheadInv /\ MonitorInv /\ DueInv
-----------------------------------------------------------------------------
(* Sequences and logs *)

\* The constants are numbers.
LEMMA Constants ==
    /\ MaxBytes \in Nat /\ MaxInodes \in Nat /\ MaxRuns \in Nat /\ MaxIncidents \in Nat
    /\ MaxInodes > 0 /\ None \notin Nat /\ None \notin Log
BY EventlogAssumption, LogAssumption

\* What is in a sequence after an element was added.
LEMMA Appended ==
    ASSUME NEW S, NEW q \in Seq(S), NEW e \in S
    PROVE  /\ Append(q, e) \in Seq(S)
           /\ Len(Append(q, e)) = Len(q) + 1
           /\ Len(q) \in Nat
           /\ DOMAIN q = 1 .. Len(q)
           /\ DOMAIN Append(q, e) = 1 .. Len(q) + 1
           /\ \A i \in DOMAIN q : Append(q, e)[i] = q[i]
           /\ Append(q, e)[Len(q) + 1] = e
OBVIOUS

\* What is in a sequence after its first element was taken.
LEMMA Taken ==
    ASSUME NEW S, NEW q \in Seq(S), q # <<>>
    PROVE  /\ Tail(q) \in Seq(S)
           /\ Head(q) = q[1]
           /\ Len(q) \in Nat /\ Len(q) > 0
           /\ 1 \in DOMAIN q
           /\ Len(Tail(q)) = Len(q) - 1
           /\ DOMAIN q = 1 .. Len(q)
           /\ DOMAIN Tail(q) = 1 .. Len(q) - 1
           /\ \A i \in DOMAIN Tail(q) : i + 1 \in DOMAIN q /\ Tail(q)[i] = q[i + 1]
OBVIOUS

\* The members of two sequences in a row.
LEMMA Concatenated ==
    ASSUME NEW S, NEW p \in Seq(S), NEW q \in Seq(S)
    PROVE  /\ p \o q \in Seq(S)
           /\ Len(p) \in Nat /\ Len(q) \in Nat
           /\ DOMAIN p = 1 .. Len(p) /\ DOMAIN q = 1 .. Len(q)
           /\ DOMAIN (p \o q) = 1 .. Len(p) + Len(q)
           /\ \A i \in 1 .. Len(p) + Len(q) :
                 (p \o q)[i] = IF i <= Len(p) THEN p[i] ELSE q[i - Len(p)]
OBVIOUS

\* Every byte of two sequences in a row is in one of them, and the other way round.
LEMMA BytesOfConcatenation ==
    ASSUME NEW S, NEW p \in Seq(S), NEW q \in Seq(S)
    PROVE  BytesOf(p \o q) = BytesOf(p) \cup BytesOf(q)
<1>1. /\ Len(p) \in Nat /\ Len(q) \in Nat
      /\ DOMAIN p = 1 .. Len(p) /\ DOMAIN q = 1 .. Len(q)
      /\ DOMAIN (p \o q) = 1 .. Len(p) + Len(q)
      /\ \A i \in 1 .. Len(p) + Len(q) :
            (p \o q)[i] = IF i <= Len(p) THEN p[i] ELSE q[i - Len(p)]
    BY Concatenated
<1>2. ASSUME NEW b \in BytesOf(p \o q)
      PROVE  b \in BytesOf(p) \cup BytesOf(q)
    <2>1. PICK i \in 1 .. Len(p) + Len(q) : b = (p \o q)[i]
        BY <1>1, <1>2 DEF BytesOf
    <2>2. CASE i <= Len(p)
        BY <1>1, <2>1, <2>2 DEF BytesOf
    <2>3. CASE i > Len(p)
        <3>1. i - Len(p) \in 1 .. Len(q) /\ b = q[i - Len(p)]
            BY <1>1, <2>1, <2>3
        <3> QED
            BY <1>1, <3>1 DEF BytesOf
    <2> QED
        BY <1>1, <2>1, <2>2, <2>3
<1>3. ASSUME NEW b \in BytesOf(p)
      PROVE  b \in BytesOf(p \o q)
    <2>1. PICK i \in 1 .. Len(p) : b = p[i]
        BY <1>1, <1>3 DEF BytesOf
    <2>2. i \in DOMAIN (p \o q) /\ b = (p \o q)[i]
        BY <1>1, <2>1
    <2> QED
        BY <2>2 DEF BytesOf
<1>4. ASSUME NEW b \in BytesOf(q)
      PROVE  b \in BytesOf(p \o q)
    <2>1. PICK i \in 1 .. Len(q) : b = q[i]
        BY <1>1, <1>4 DEF BytesOf
    <2>2. /\ Len(p) + i \in 1 .. Len(p) + Len(q)
          /\ ~(Len(p) + i <= Len(p)) /\ (Len(p) + i) - Len(p) = i
        BY <1>1, <2>1
    <2>3. b = (p \o q)[Len(p) + i]
        BY <1>1, <2>1, <2>2
    <2> QED
        BY <1>1, <2>2, <2>3 DEF BytesOf
<1> QED
    BY <1>2, <1>3, <1>4

\* What the operations on a log do.
LEMMA NewLog ==
    /\ LogOK(ni_eventlog_new)
    /\ ni_eventlog_new.consumed = 0
    /\ ni_eventlog_new.seqno = 1
    /\ ni_eventlog_new.events = <<>>
<1>1. <<>> \in Seq(Event)
    BY EmptySeq
<1> QED
    BY <1>1 DEF ni_eventlog_new, LogOK, Log

\* A flushed log has no events and goes on with its numbers.
LEMMA FlushedLog ==
    ASSUME NEW log, LogOK(log)
    PROVE  /\ LogOK(ni_eventlog_flush(log))
           /\ ni_eventlog_flush(log).consumed = 0
           /\ ni_eventlog_flush(log).seqno = log.seqno
           /\ ni_eventlog_flush(log).events = <<>>
<1> DEFINE none == <<>>
<1>1. none \in Seq(Event) /\ Len(none) = 0
    BY EmptySeq
<1>2. ni_eventlog_flush(log) = [log EXCEPT !.events = none, !.consumed = 0]
    BY DEF ni_eventlog_flush
<1> HIDE DEF none
<1>3. LogOK([log EXCEPT !.events = none, !.consumed = 0])
    <2> DEFINE new == [log EXCEPT !.events = none, !.consumed = 0]
    <2>1. /\ new \in [consumed : Nat, seqno : Nat, events : Seq(Event)]
          /\ new.consumed = 0 /\ new.events = none
        BY <1>1 DEF LogOK, Log
    <2> HIDE DEF new
    <2>2. new.consumed <= Len(new.events)
        BY <1>1, <2>1
    <2>3. new \in Log
        BY <2>1 DEF Log
    <2>4. LogOK(new)
        BY <2>2, <2>3 DEF LogOK
    <2> QED
        BY <2>4 DEF new
<1>4. /\ [log EXCEPT !.events = none, !.consumed = 0].consumed = 0
      /\ [log EXCEPT !.events = none, !.consumed = 0].seqno = log.seqno
      /\ [log EXCEPT !.events = none, !.consumed = 0].events = none
    BY DEF LogOK, Log
<1> QED
    BY <1>2, <1>3, <1>4 DEF none

\* The fields of a log, by its type.
LEMMA LogFields ==
    ASSUME NEW log, LogOK(log)
    PROVE  /\ log.consumed \in Nat /\ log.seqno \in Nat
           /\ log.events \in Seq(Event)
           /\ Len(log.events) \in Nat
           /\ DOMAIN log.events = 1 .. Len(log.events)
           /\ log.consumed <= Len(log.events)
           /\ \A i \in DOMAIN log.events :
                 /\ log.events[i] \in Event
                 /\ log.events[i].sequence \in Nat
                 /\ log.events[i].data \in Seq(Byte)
<1>1. /\ log.consumed \in Nat /\ log.seqno \in Nat
      /\ log.events \in Seq(Event)
      /\ log.consumed <= Len(log.events)
    BY DEF LogOK, Log
<1>2. Len(log.events) \in Nat /\ DOMAIN log.events = 1 .. Len(log.events)
    BY <1>1
<1>3. \A i \in DOMAIN log.events : log.events[i] \in Event
    BY <1>1, <1>2, ElementOfSeq
<1> QED
    BY <1>1, <1>2, <1>3 DEF Event

\* An event is appended with the next number.
LEMMA AddedEvent ==
    ASSUME NEW log, LogOK(log), NEW data \in Seq(Byte)
    PROVE  LET new == add_event(log, data)
               n == Len(log.events)
           IN  /\ LogOK(new)
               /\ new.consumed = log.consumed
               /\ new.seqno = log.seqno + 1
               /\ Len(new.events) = n + 1
               /\ DOMAIN new.events = 1 .. n + 1
               /\ \A i \in 1 .. n : new.events[i] = log.events[i]
               /\ new.events[n + 1].sequence = log.seqno
               /\ new.events[n + 1].data = data
<1> DEFINE new == add_event(log, data)
<1> DEFINE e == [sequence |-> log.seqno, data |-> data]
<1>1. /\ log \in Log
      /\ log.consumed \in Nat /\ log.seqno \in Nat /\ log.events \in Seq(Event)
      /\ Len(log.events) \in Nat /\ log.consumed <= Len(log.events)
      /\ DOMAIN log.events = 1 .. Len(log.events)
    BY LogFields DEF LogOK
<1>2. e \in Event /\ e.sequence = log.seqno /\ e.data = data
    BY <1>1 DEF Event
<1>3. /\ new.consumed = log.consumed
      /\ new.seqno = log.seqno + 1
      /\ new.events = Append(log.events, e)
      /\ new = [log EXCEPT !.events = Append(log.events, e), !.seqno = log.seqno + 1]
    BY <1>1 DEF add_event, Log
<1> HIDE DEF new, e
<1>4. /\ Append(log.events, e) \in Seq(Event)
      /\ Len(Append(log.events, e)) = Len(log.events) + 1
      /\ DOMAIN Append(log.events, e) = 1 .. Len(log.events) + 1
      /\ \A i \in 1 .. Len(log.events) : Append(log.events, e)[i] = log.events[i]
      /\ Append(log.events, e)[Len(log.events) + 1] = e
    BY <1>1, <1>2, Appended
<1>5. new \in Log
    <2>1. log.seqno + 1 \in Nat
        BY <1>1
    <2> QED
        BY <1>1, <1>3, <1>4, <2>1 DEF Log
<1>6. LogOK(new)
    <2>1. log.consumed <= Len(log.events) + 1
        BY <1>1
    <2> QED
        BY <1>3, <1>4, <1>5, <2>1 DEF LogOK
<1> QED
    BY <1>2, <1>3, <1>4, <1>6 DEF new

\* consume_upto finds a place to stop, and passes only events up to the number.
LEMMA ConsumedUpTo ==
    ASSUME NEW log, LogOK(log), NEW seq \in Nat
    PROVE  LET new == consume_upto(log, seq)
           IN  /\ LogOK(new)
               /\ new.seqno = log.seqno
               /\ new.events = log.events
               /\ new.consumed \in log.consumed .. Len(log.events)
               /\ \A i \in log.consumed + 1 .. new.consumed : log.events[i].sequence <= seq
<1>1. /\ log \in Log
      /\ log.consumed \in Nat /\ log.events \in Seq(Event)
      /\ Len(log.events) \in Nat /\ log.consumed <= Len(log.events)
      /\ DOMAIN log.events = 1 .. Len(log.events)
      /\ \A i \in DOMAIN log.events : log.events[i].sequence \in Nat
    BY LogFields DEF LogOK
<1> DEFINE Stops(n) == n < Len(log.events) => seq < log.events[n + 1].sequence
           Passed(n) == \A i \in log.consumed + 1 .. n : log.events[i].sequence <= seq
           S == {n \in log.consumed .. Len(log.events) : Stops(n)}
<1>2. S \subseteq Nat /\ Len(log.events) \in S
    BY <1>1
<1>3. PICK x \in S : \A y \in S : ~(<<y, x>> \in OpToRel(<, Nat))
    <2> HIDE DEF S
    <2> QED
        BY <1>2, WFMin, NatLessThanWellFounded, Zenon
<1>4. x \in log.consumed .. Len(log.events) /\ Stops(x) /\ x \in Nat
    BY <1>2
<1>5. \A y \in S : ~(y < x)
    <2>1. \A y \in Nat : y < x => <<y, x>> \in OpToRel(<, Nat)
        BY <1>4 DEF OpToRel
    <2> QED
        BY <1>2, <1>3, <2>1
<1>6. Passed(x)
    <2> SUFFICES ASSUME NEW i \in log.consumed + 1 .. x
                 PROVE  log.events[i].sequence <= seq
        OBVIOUS
    <2>1. /\ i - 1 \in log.consumed .. Len(log.events) /\ i - 1 < x
          /\ (i - 1) + 1 = i /\ i \in DOMAIN log.events
        BY <1>1, <1>4
    <2>2. ~Stops(i - 1)
        BY <1>5, <2>1
    <2>3. ~(seq < log.events[i].sequence)
        BY <2>1, <2>2
    <2> QED
        BY <1>1, <2>1, <2>3
<1>7. \E n \in log.consumed .. Len(log.events) : Passed(n) /\ Stops(n)
    BY <1>4, <1>6
<1> DEFINE m == CHOOSE n \in log.consumed .. Len(log.events) : Passed(n) /\ Stops(n)
<1>8. m \in log.consumed .. Len(log.events) /\ Passed(m)
    BY <1>7
<1>9. consume_upto(log, seq) = [log EXCEPT !.consumed = m]
    BY DEF consume_upto
<1> HIDE DEF m
<1>10. [log EXCEPT !.consumed = m] \in Log /\ [log EXCEPT !.consumed = m].consumed = m
    <2>1. m \in Nat
        BY <1>1, <1>8
    <2> QED
        BY <1>1, <2>1 DEF Log
<1>11. /\ [log EXCEPT !.consumed = m].seqno = log.seqno
       /\ [log EXCEPT !.consumed = m].events = log.events
    BY <1>1 DEF Log
<1>12. m <= Len(log.events)
    BY <1>1, <1>8
<1> QED
    BY <1>8, <1>9, <1>10, <1>11, <1>12 DEF LogOK
-----------------------------------------------------------------------------
(* What the types give, and what is kept by a step that changes little *)

\* What the fields of a message are, by its type.
LEMMA MessageFields ==
    ASSUME NEW m \in Message
    PROVE  /\ m.inc \in Nat
           /\ m.type \in {"register", "add"}
           /\ m.type = "add" => /\ m.event \in Event
                                /\ m.event.sequence \in Nat
                                /\ m.event.data \in Seq(Byte)
BY DEF Message, Event

\* The queue to the master, by its type.
LEMMA QueueFacts ==
    ASSUME EventlogTypeOK
    PROVE  /\ masterq \in Seq(Message)
           /\ Len(masterq) \in Nat
           /\ DOMAIN masterq = 1 .. Len(masterq)
           /\ masterq # <<>> => Len(masterq) > 0 /\ 1 \in DOMAIN masterq
           /\ \A i \in DOMAIN masterq : masterq[i] \in Message
<1>1. masterq \in Seq(Message)
    BY DEF EventlogTypeOK
<1>2. \A i \in DOMAIN masterq : masterq[i] \in Message
    BY <1>1, ElementOfSeq
<1>3. Len(masterq) \in Nat /\ DOMAIN masterq = 1 .. Len(masterq)
    BY <1>1
<1>4. masterq # <<>> => Len(masterq) > 0
    BY <1>1
<1> QED
    BY <1>1, <1>2, <1>3, <1>4

\* The bytes of the files, by their type.
LEMMA ContentFacts ==
    ASSUME EventlogTypeOK, NEW f \in Inode
    PROVE  /\ content[f] \in Seq(Byte)
           /\ Len(content[f]) \in Nat
           /\ DOMAIN content[f] = 1 .. Len(content[f])
           /\ \A i \in DOMAIN content[f] : content[f][i] \in Byte
           /\ BytesOf(content[f]) \subseteq Byte
           /\ f \in Nat /\ f # None
<1>1. content[f] \in Seq(Byte)
    BY DEF EventlogTypeOK
<1>2. \A i \in DOMAIN content[f] : content[f][i] \in Byte
    BY <1>1, ElementOfSeq
<1>3. f \in Nat
    BY Constants DEF Inode
<1> QED
    BY <1>1, <1>2, <1>3, Constants DEF BytesOf

\* A step that leaves the files alone.
LEMMA FilesFrame ==
    ASSUME FilesInv, UNCHANGED fileVars
    PROVE  FilesInv'
BY DEF FilesInv, fileVars

\* A step of the files.
LEMMA QuietFrame ==
    ASSUME QueueInv, NumberInv, ShownInv, due' \subseteq due,
           UNCHANGED <<inc, pc, fd, alog, masterq, mlog, child, client, epoch>>
    PROVE  QueueInv' /\ NumberInv' /\ ShownInv'
<1>1. QueueInv'
    BY DEF QueueInv
<1>2. NumberInv'
    BY DEF NumberInv, AddFirst, Follows, NextPushed, pending_count
<1>3. ShownInv'
    BY DEF ShownInv, Reading, AddFirst, NextPushed, pending_count, PendingSeqs
<1> QED
    BY <1>1, <1>2, <1>3

\* A step of the agent that sends nothing.
LEMMA WorkingFrame ==
    ASSUME QueueInv, NumberInv, ShownInv, pc \in Working, pc' \in Working,
           UNCHANGED <<inc, masterq, mlog, client, epoch>>,
           NextPushed' = NextPushed,
           \A i \in DOMAIN alog'.events :
               alog'.events[i].sequence + Len(alog'.events) + 1 = alog'.seqno + i
    PROVE  QueueInv' /\ NumberInv' /\ ShownInv'
<1>1. /\ pc \notin Starting \cup {"adding"} /\ pc' \notin Starting \cup {"adding"}
      /\ pc \notin {"down", "registering", "adding", "setup"}
      /\ pc' \notin {"down", "registering", "adding", "setup"}
    BY DEF Working, Starting
<1>2. masterq = <<>> /\ masterq' = <<>> /\ ~AddFirst /\ ~AddFirst'
    BY <1>1 DEF QueueInv, AddFirst
<1>3. QueueInv'
    BY <1>1, <1>2 DEF QueueInv
<1>4. Follows(NextPushed) /\ Follows(NextPushed)'
    BY DEF NumberInv, Follows
<1>5. NumberInv'
    BY <1>1, <1>2, <1>4 DEF NumberInv, Follows
<1>6. PendingSeqs(mlog)' = PendingSeqs(mlog) /\ Reading' = Reading
    BY DEF PendingSeqs, Reading
<1>7. ShownInv'
    BY <1>1, <1>2, <1>6 DEF ShownInv
<1> QED
    BY <1>3, <1>5, <1>7

\* Nothing that was logged moves.
LEMMA LoggedFrame ==
    ASSUME UNCHANGED <<received, masterq, alog>>
    PROVE  /\ \A b : /\ IsReceived(b)' <=> IsReceived(b)
                     /\ OnTheWay(b)' <=> OnTheWay(b)
                     /\ IsPending(b)' <=> IsPending(b)
                     /\ Logged(b)' <=> Logged(b)
           /\ \A i, b : PendingIn(i, b)' <=> PendingIn(i, b)
           /\ AddFirst' <=> AddFirst
BY DEF IsReceived, OnTheWay, IsPending, PendingIn, Logged, AddFirst

\* The order of what was logged is kept when only files are written.
LEMMA SentFrame ==
    ASSUME EventlogTypeOK, EventlogTypeOK', SentInv,
           UNCHANGED <<received, masterq, alog>>, nbytes <= nbytes'
    PROVE  SentInv'
<1>1. \A b \in Byte : Logged(b)' => b <= nbytes'
    <2>1. \A b \in Byte : Logged(b) => b <= nbytes
        BY DEF SentInv
    <2>2. nbytes \in Nat /\ nbytes' \in Nat /\ \A b \in Byte : b \in Nat
        BY Constants DEF EventlogTypeOK, Byte
    <2> QED
        BY <2>1, <2>2, LoggedFrame
<1>2. /\ Increasing(received)'
      /\ AddFirst' => Increasing(masterq[1].event.data)'
      /\ \A i \in DOMAIN alog'.events : Increasing(alog'.events[i].data)
    BY LoggedFrame DEF SentInv, Increasing
<1>3. /\ \A b, c \in Byte :
            /\ IsReceived(b)' /\ (OnTheWay(c)' \/ IsPending(c)') => b < c
            /\ OnTheWay(b)' /\ IsPending(c)' => b < c
      /\ \A i, j \in DOMAIN alog'.events : \A b, c \in Byte :
            PendingIn(i, b)' /\ PendingIn(j, c)' /\ i < j => b < c
    BY LoggedFrame DEF SentInv
<1> QED
    BY <1>1, <1>2, <1>3 DEF SentInv
-----------------------------------------------------------------------------
(* Steps of the files *)

\* A byte of an older file was written before one of the file that has the name.
LEMMA OldBeforeNew ==
    ASSUME EventlogTypeOK, FilesInv, NEW f \in Inode, f # path,
           NEW b \in Byte, NEW c \in Byte, InFile(f, b), InFile(path, c)
    PROVE  f < path /\ b < c
<1>1. path # None /\ path = ninodes /\ path \in Inode
    BY DEF FilesInv, InFile, EventlogTypeOK
<1>2. PICK i \in DOMAIN content[f] : content[f][i] = b
    BY DEF InFile, BytesOf
<1>3. PICK j \in DOMAIN content[path] : content[path][j] = c
    BY DEF InFile, BytesOf
<1>4. ~(f > wfd)
    <2>1. content[f] # <<>>
        BY <1>2, ContentFacts
    <2> QED
        BY <2>1 DEF FilesInv
<1>5. f < path
    <2>1. f \in Nat /\ path \in Nat /\ wfd \in Nat /\ wfd <= ninodes
        BY <1>1, ContentFacts DEF FilesInv, EventlogTypeOK
    <2> QED
        BY <1>1, <1>4, <2>1
<1> QED
    BY <1>1, <1>2, <1>3, <1>5 DEF FilesInv

\* What is due stays due, or is struck off, when only the files change.
LEMMA DueFrame ==
    ASSUME DueInv, EventlogTypeOK, EventlogTypeOK',
           UNCHANGED <<caller, pc, child, fd, received, masterq, alog, skipped>>,
           due' \subseteq due, nbytes <= nbytes',
           \A f \in truncated' : due' \cap BytesOf(content'[f]) = {},
           \A b \in due' : InFile(fd, b) \/ InFile(path, b) => InFile(fd, b)' \/ InFile(path, b)',
           \A b \in due' : Found(b) => Found(b)'
    PROVE  DueInv'
<1>1. \A b : Left(b)' => Left(b)
    BY LoggedFrame DEF Left
<1>2. \A b : IsReceived(b)' <=> IsReceived(b)
    BY LoggedFrame
<1>3. \A b \in due' : b <= nbytes'
    <2>1. \A b \in due' : b <= nbytes /\ b \in Nat
        BY Constants DEF DueInv, EventlogTypeOK, Byte
    <2>2. nbytes \in Nat /\ nbytes' \in Nat
        BY Constants DEF EventlogTypeOK
    <2>3. \A b \in due' : b \in Nat /\ b <= nbytes /\ nbytes <= nbytes'
        BY <2>1
    <2> QED
        BY <2>2, <2>3
<1>4. child \in {"none", "running"} => due' = {}
    BY DEF DueInv
<1>5. child = "exited" => \A b \in due' : Left(b)' => InFile(fd, b)' \/ InFile(path, b)'
    BY <1>1 DEF DueInv
<1>6. caller = "exit" /\ pc \notin Starting \cup {"idle"} =>
          child = "exited" /\ (pc # "report" => \A b \in due' : Left(b)' => Found(b)')
    BY <1>1 DEF DueInv
<1>7. (pc = "report" \/ child = "reported") => \A b \in due' : IsReceived(b)'
    BY <1>2 DEF DueInv
<1>8. due' \cap skipped = {} /\ (pc = "report" => caller = "exit")
    BY DEF DueInv
<1> HIDE DEF Starting
<1> QED
    BY <1>3, <1>4, <1>5, <1>6, <1>7, <1>8 DEF DueInv

\* What syslogd writes goes to the end of its file and is the newest byte.
LEMMA WrittenByte ==
    ASSUME EventlogTypeOK, SyslogWrite, NEW f \in Inode
    PROVE  /\ content'[f] \in Seq(Byte)
           /\ Len(content[f]) <= Len(content'[f])
           /\ \A i \in DOMAIN content[f] : i \in DOMAIN content'[f] /\ content'[f][i] = content[f][i]
           /\ \A i \in DOMAIN content'[f] \ DOMAIN content[f] :
                 /\ f = wfd
                 /\ i = Len(content[f]) + 1
                 /\ content'[f][i] = nbytes + 1
           /\ f # wfd => content'[f] = content[f]
<1>1. /\ nbytes + 1 \in Byte
      /\ content' = [content EXCEPT ![wfd] = Append(content[wfd], nbytes + 1)]
    <2>1. nbytes \in Nat /\ nbytes < MaxBytes
        BY Constants DEF EventlogTypeOK, SyslogWrite
    <2> QED
        BY <2>1, Constants DEF SyslogWrite, Byte
<1>2. content \in [Inode -> Seq(Byte)] /\ wfd \in Inode
    BY DEF EventlogTypeOK
<1>3. CASE f = wfd
    <2>1. content'[f] = Append(content[f], nbytes + 1)
        BY <1>1, <1>2, <1>3
    <2> QED
        BY <1>1, <2>1, <1>3, Appended, ContentFacts
<1>4. CASE f # wfd
    <2>1. content'[f] = content[f]
        BY <1>1, <1>2, <1>4
    <2> QED
        BY <2>1, <1>4, ContentFacts
<1> QED
    BY <1>3, <1>4
\* A new byte is newer than all that was logged, and ahead of the monitor.
LEMMA SyslogWriteKeeps ==
    ASSUME LogInv, SyslogWrite
    PROVE  LogInv'
<1>1. /\ EventlogTypeOK /\ QueueInv /\ NumberInv /\ ShownInv
      /\ FilesInv /\ SentInv /\ AheadInv /\ MonitorInv /\ DueInv
    BY DEF LogInv
<1>2. /\ nbytes < MaxBytes /\ nbytes' = nbytes + 1
      /\ UNCHANGED <<path, wfd, ninodes, truncated, inc, pc, alog, masterq, mlog>>
      /\ UNCHANGED <<caller, fd, st_size, now_size, child, runs, client, incidents>>
      /\ UNCHANGED <<epoch, received, skipped, due>>
      /\ \E x : content' = [content EXCEPT ![wfd] = x]
    BY DEF SyslogWrite, monVars, childVars, clientVars, histVars
<1>3. \A f \in Inode :
          /\ content'[f] \in Seq(Byte)
          /\ Len(content[f]) <= Len(content'[f])
          /\ \A i \in DOMAIN content[f] : i \in DOMAIN content'[f] /\ content'[f][i] = content[f][i]
          /\ \A i \in DOMAIN content'[f] \ DOMAIN content[f] :
                f = wfd /\ i = Len(content[f]) + 1 /\ content'[f][i] = nbytes + 1
          /\ f # wfd => content'[f] = content[f]
    BY <1>1, WrittenByte
<1>4. EventlogTypeOK'
    <2>1. content' \in [Inode -> Seq(Byte)]
        BY <1>1, <1>2, <1>3 DEF EventlogTypeOK
    <2>2. nbytes' \in 0 .. MaxBytes
        BY <1>1, <1>2, Constants DEF EventlogTypeOK
    <2> QED
        BY <1>1, <1>2, <2>1, <2>2 DEF EventlogTypeOK
<1>5. /\ nbytes \in Nat /\ nbytes + 1 \in Nat
      /\ wfd \in Inode /\ wfd \in Nat
      /\ \A f \in Inode : /\ f \in Nat /\ f # None
                          /\ Len(content[f]) \in Nat /\ Len(content'[f]) \in Nat
                          /\ DOMAIN content[f] = 1 .. Len(content[f])
                          /\ DOMAIN content'[f] = 1 .. Len(content'[f])
                          /\ \A i \in DOMAIN content[f] : content[f][i] \in Nat
    <2>1. \A f \in Inode : Len(content'[f]) \in Nat /\ DOMAIN content'[f] = 1 .. Len(content'[f])
        BY <1>3
    <2>2. \A f \in Inode : \A i \in DOMAIN content[f] : content[f][i] \in Nat
        BY <1>1, ContentFacts, Constants DEF Byte
    <2>3. nbytes \in Nat /\ wfd \in Inode
        BY <1>1, Constants DEF EventlogTypeOK
    <2> QED
        BY <1>1, <2>1, <2>2, <2>3, ContentFacts
<1>6. \A f \in Inode : \A b : InFile(f, b) => InFile(f, b)'
    BY <1>3 DEF InFile, BytesOf
<1>7. \A f \in Inode : \A b : InFile(f, b)' => InFile(f, b) \/ b = nbytes + 1
    BY <1>3 DEF InFile, BytesOf
<1>8. QueueInv' /\ NumberInv' /\ ShownInv'
    BY <1>1, <1>2, QuietFrame
<1>9. FilesInv'
    <2>1. path' \in {None, ninodes'} /\ wfd' <= ninodes'
        BY <1>1, <1>2 DEF FilesInv
    <2>2. \A f \in Inode : f > wfd' => content'[f] = <<>>
        BY <1>1, <1>2, <1>3, <1>5 DEF FilesInv
    <2>3. \A f \in Inode : \A i \in DOMAIN content'[f] : content'[f][i] <= nbytes'
        BY <1>1, <1>2, <1>3, <1>5 DEF FilesInv
    <2>4. ASSUME NEW f \in Inode, NEW i \in DOMAIN content'[f], NEW j \in DOMAIN content'[f], i < j
          PROVE  content'[f][i] < content'[f][j]
        <3>1. i \in DOMAIN content[f]
            BY <1>3, <1>5, <2>4
        <3>2. content'[f][i] = content[f][i] /\ content[f][i] <= nbytes /\ content[f][i] \in Nat
            BY <1>1, <1>3, <1>5, <3>1 DEF FilesInv
        <3>3. CASE j \in DOMAIN content[f]
            BY <1>1, <1>3, <2>4, <3>1, <3>3 DEF FilesInv
        <3>4. CASE j \notin DOMAIN content[f]
            BY <1>3, <1>5, <3>2, <3>4
        <3> QED
            BY <3>3, <3>4
    <2>5. ASSUME NEW f \in Inode, NEW g \in Inode, f < g,
                 NEW i \in DOMAIN content'[f], NEW j \in DOMAIN content'[g]
          PROVE  content'[f][i] < content'[g][j]
        <3>1. content'[g] # <<>>
            BY <1>3, <1>5
        <3>2. ~(g > wfd)
            BY <1>2, <2>2, <3>1
        <3>3. f # wfd
            BY <1>5, <2>5, <3>2
        <3>4. i \in DOMAIN content[f] /\ content'[f][i] = content[f][i]
            BY <1>3, <3>3
        <3>5. content[f][i] <= nbytes /\ content[f][i] \in Nat
            BY <1>1, <1>5, <3>4 DEF FilesInv
        <3>6. CASE j \in DOMAIN content[g]
            BY <1>1, <1>3, <2>5, <3>4, <3>6 DEF FilesInv
        <3>7. CASE j \notin DOMAIN content[g]
            BY <1>3, <1>5, <3>4, <3>5, <3>7
        <3> QED
            BY <3>6, <3>7
    <2> QED
        BY <2>1, <2>2, <2>3, <2>4, <2>5 DEF FilesInv
<1>10. SentInv'
    <2>1. nbytes <= nbytes'
        BY <1>2, <1>5
    <2> QED
        BY <1>1, <1>2, <1>4, <2>1, SentFrame
<1>11. AheadInv'
    <2> SUFFICES ASSUME NEW b \in Byte, NEW c \in Byte, Logged(b)', Ahead(c)'
                 PROVE  b < c
        BY DEF AheadInv
    <2>1. Logged(b) /\ b <= nbytes /\ b \in Nat
        BY <1>1, <1>2, LoggedFrame, Constants DEF SentInv, Byte
    <2>2. pc \notin Starting /\ fd \in Inode \cup {None} /\ path \in Inode \cup {None}
        BY <1>1, <1>2 DEF Ahead, EventlogTypeOK
    <2>2a. Unread(c)' \/ (path # fd /\ InFile(path, c)')
        <3>1. Unread(c)' \/ (path' # fd' /\ InFile(path, c)')
            BY DEF Ahead
        <3> QED
            BY <1>2, <3>1
    <2>3. Ahead(c) \/ c = nbytes + 1
        <3>1. CASE Unread(c)'
            <4>1. fd \in Inode
                BY <1>2, <2>2, <3>1 DEF Unread
            <4>2. PICK i \in DOMAIN content'[fd] :
                      content'[fd][i] = c /\ (pc = "fresh" \/ i > st_size)
                BY <1>2, <3>1 DEF Unread
            <4>3. i \in DOMAIN content[fd] => Unread(c)
                BY <1>3, <1>5, <4>1, <4>2 DEF Unread
            <4> QED
                BY <1>3, <2>2, <4>1, <4>2, <4>3 DEF Ahead
        <3>2. CASE path # fd /\ InFile(path, c)'
            <4>1. path \in Inode
                BY <1>2, <2>2, <3>2 DEF InFile
            <4>2. InFile(path, c) \/ c = nbytes + 1
                BY <1>2, <1>7, <3>2, <4>1 DEF InFile
            <4> QED
                BY <2>2, <3>2, <4>2 DEF Ahead
        <3> QED
            BY <2>2a, <3>1, <3>2
    <2> QED
        BY <1>1, <1>5, <2>1, <2>3 DEF AheadInv
<1>12. MonitorInv'
    <2>1. \A b : Logged(b)' <=> Logged(b)
        BY <1>2, LoggedFrame
    <2>2. ASSUME fd # None, fd \notin truncated
          PROVE  /\ st_size <= Len(content'[fd])
                 /\ pc = "grown" => now_size <= Len(content'[fd])
                 /\ pc # "fresh" => \A i \in 1 .. st_size, b \in Byte :
                       content'[fd][i] = b => Logged(b)' \/ b \in skipped
        <3>1. fd \in Inode /\ st_size \in Nat /\ now_size \in Nat
            BY <1>1, <2>2 DEF EventlogTypeOK
        <3>2. /\ st_size <= Len(content[fd])
              /\ pc = "grown" => now_size <= Len(content[fd])
              /\ pc # "fresh" => \A i \in 1 .. st_size, b \in Byte :
                    content[fd][i] = b => Logged(b) \/ b \in skipped
            BY <1>1, <2>2 DEF MonitorInv
        <3>3. \A i \in 1 .. st_size : content'[fd][i] = content[fd][i]
            BY <1>3, <1>5, <3>1, <3>2
        <3>4. Len(content[fd]) <= Len(content'[fd])
            BY <1>3, <3>1
        <3> QED
            BY <1>5, <2>1, <3>1, <3>2, <3>3, <3>4
    <2> QED
        BY <1>1, <1>2, <2>2 DEF MonitorInv
<1>13. DueInv'
    <2>1. \A b \in due : b <= nbytes /\ b \in Nat
        BY <1>1, Constants DEF DueInv, EventlogTypeOK, Byte
    <2>2. \A f \in truncated' : due' \cap BytesOf(content'[f]) = {}
        <3> SUFFICES ASSUME NEW f \in truncated, NEW b \in due, b \in BytesOf(content'[f])
                     PROVE  FALSE
            BY <1>2
        <3>1. f \in Inode
            BY <1>1 DEF EventlogTypeOK
        <3>2. b \in BytesOf(content[f]) \/ b = nbytes + 1
            BY <1>3, <3>1 DEF BytesOf
        <3> QED
            BY <1>1, <1>5, <2>1, <3>2 DEF DueInv
    <2>3. fd \in Inode \cup {None} /\ path \in Inode \cup {None}
        BY <1>1 DEF EventlogTypeOK
    <2>4. \A b : /\ InFile(fd, b) => InFile(fd, b)'
                 /\ InFile(path, b) => InFile(path, b)'
        BY <1>2, <1>6, <2>3 DEF InFile
    <2>5. ASSUME NEW b, Found(b)
          PROVE  Found(b)'
        <3>1. CASE pc \in {"grown", "fresh"}
            <4>1. fd \in Inode
                BY <1>1, <2>3, <3>1 DEF MonitorInv
            <4>2. \A i \in Nat \ {0} : i <= Len(content[fd]) =>
                      i <= Len(content'[fd]) /\ content'[fd][i] = content[fd][i]
                BY <1>3, <1>5, <4>1
            <4>3. st_size \in Nat /\ now_size \in Nat
                BY <1>1 DEF EventlogTypeOK
            <4> QED
                BY <1>2, <2>4, <2>5, <3>1, <4>2, <4>3 DEF Found
        <3>2. CASE pc \notin {"grown", "fresh"}
            BY <1>2, <2>4, <2>5, <3>2 DEF Found
        <3> QED
            BY <3>1, <3>2
    <2>6. nbytes <= nbytes'
        BY <1>2, <1>5
    <2> QED
        BY <1>1, <1>2, <1>4, <2>2, <2>4, <2>5, <2>6, DueFrame
<1> QED
    BY <1>4, <1>8, <1>9, <1>10, <1>11, <1>12, <1>13 DEF LogInv
\* A file loses its name or its contents, or an empty one appears: the agent and
\* the master are not involved, and what is due is still where it was.
LEMMA FileStepKeeps ==
    ASSUME LogInv, EventlogTypeOK', FilesInv',
           UNCHANGED <<nbytes, inc, pc, alog, masterq, mlog>>,
           UNCHANGED <<caller, fd, st_size, now_size, child, client>>,
           UNCHANGED <<epoch, received, skipped>>,
           due' \subseteq due, truncated \subseteq truncated',
           \A f \in Inode : content'[f] = content[f] \/ (content'[f] = <<>> /\ f \in truncated'),
           path' = path \/ path' = None \/ (path' # fd /\ content'[path'] = <<>>),
           pc \in {"gone", "replaced"} => path' # fd,
           fd # None => fd <= ninodes',
           \A f \in truncated' : due' \cap BytesOf(content'[f]) = {},
           \A b \in due' : InFile(fd, b) => InFile(fd, b)',
           \A b \in due' : path # fd /\ InFile(path, b) => path' # fd /\ InFile(path, b)'
    PROVE  LogInv'
<1>1. /\ EventlogTypeOK /\ QueueInv /\ NumberInv /\ ShownInv
      /\ FilesInv /\ SentInv /\ AheadInv /\ MonitorInv /\ DueInv
    BY DEF LogInv
<1>2. QueueInv' /\ NumberInv' /\ ShownInv'
    BY <1>1, QuietFrame
<1>3. nbytes <= nbytes'
    BY <1>1, Constants DEF EventlogTypeOK
<1>4. SentInv'
    BY <1>1, <1>3, SentFrame
<1>5. /\ fd \in Inode \cup {None} /\ path \in Inode \cup {None} /\ path' \in Inode \cup {None}
      /\ st_size \in Nat /\ now_size \in Nat
    BY <1>1 DEF EventlogTypeOK
<1>6. BytesOf(<<>>) = {}
    BY DEF BytesOf
<1>7. \A f \in Inode : content'[f] # content[f] => content'[f] = <<>> /\ f \in truncated'
    OBVIOUS
<1>8. AheadInv'
    <2> SUFFICES ASSUME NEW b \in Byte, NEW c \in Byte, Logged(b)', Ahead(c)'
                 PROVE  b < c
        BY DEF AheadInv
    <2>1. Logged(b)
        BY LoggedFrame
    <2>2. pc \notin Starting /\ (Unread(c)' \/ (path' # fd' /\ InFile(path, c)'))
        BY DEF Ahead
    <2>3. CASE Unread(c)'
        <3>1. PICK i \in DOMAIN content'[fd] :
                  content'[fd][i] = c /\ (pc = "fresh" \/ i > st_size)
            BY <2>3 DEF Unread
        <3>2. fd # None
            BY <2>3 DEF Unread
        <3>3. content'[fd] = content[fd]
            BY <1>5, <1>7, <3>1, <3>2
        <3>4. Unread(c)
            BY <3>1, <3>2, <3>3 DEF Unread
        <3> QED
            BY <1>1, <2>1, <2>2, <3>4 DEF AheadInv, Ahead
    <2>4. CASE path' # fd' /\ InFile(path, c)'
        <3>1. c \in BytesOf(content'[path']) /\ path' # None
            BY <2>4 DEF InFile
        <3>2. content'[path'] # <<>>
            BY <1>6, <3>1
        <3>3. path' = path /\ content'[path] = content[path]
            BY <1>5, <1>7, <3>1, <3>2
        <3>4. path # fd /\ InFile(path, c)
            BY <2>4, <3>1, <3>3 DEF InFile
        <3> QED
            BY <1>1, <2>1, <2>2, <3>4 DEF AheadInv, Ahead
    <2> QED
        BY <2>2, <2>3, <2>4
<1>9. MonitorInv'
    <2>1. \A b : Logged(b)' <=> Logged(b)
        BY LoggedFrame
    <2>2. ASSUME fd # None, fd \notin truncated'
          PROVE  /\ st_size <= Len(content'[fd])
                 /\ pc = "grown" => now_size <= Len(content'[fd])
                 /\ pc # "fresh" => \A i \in 1 .. st_size, b \in Byte :
                       content'[fd][i] = b => Logged(b)' \/ b \in skipped
        <3>1. content'[fd] = content[fd] /\ fd \notin truncated
            BY <1>5, <1>7, <2>2
        <3> QED
            BY <1>1, <2>1, <2>2, <3>1 DEF MonitorInv
    <2>3. /\ pc \in {"grown", "stat", "gone", "replaced", "fresh"} => fd # None
          /\ pc = "reopen" => fd = None
          /\ pc = "grown" => st_size < now_size
        BY <1>1 DEF MonitorInv
    <2> QED
        BY <2>2, <2>3 DEF MonitorInv
<1>10. DueInv'
    <2>1. \A b \in due' : InFile(fd, b) \/ InFile(path, b) => InFile(fd, b)' \/ InFile(path, b)'
        BY DEF InFile
    <2>2. ASSUME NEW b \in due', Found(b)
          PROVE  Found(b)'
        <3>1. ASSUME fd \in Inode, NEW i, i \in 1 .. Len(content[fd]), content[fd][i] = b
              PROVE  content'[fd] = content[fd]
            <4>1. b \in BytesOf(content[fd])
                BY <1>1, <3>1, ContentFacts DEF BytesOf
            <4>2. b \in BytesOf(content'[fd])
                BY <1>5, <3>1, <4>1, Constants DEF InFile, Inode
            <4> QED
                BY <1>6, <1>7, <3>1, <4>2
        <3>2. CASE pc = "grown"
            <4>1. fd \in Inode
                BY <1>1, <1>5, <3>2 DEF MonitorInv
            <4>2. CASE path # fd /\ InFile(path, b)
                BY <2>2, <3>2, <4>2 DEF Found
            <4>3. CASE ~(path # fd /\ InFile(path, b))
                <5>1. PICK i \in st_size + 1 .. now_size :
                          i <= Len(content[fd]) /\ content[fd][i] = b
                    BY <2>2, <3>2, <4>3 DEF Found
                <5>2. i \in 1 .. Len(content[fd])
                    BY <1>1, <1>5, <4>1, <5>1, ContentFacts
                <5>3. content'[fd] = content[fd]
                    BY <3>1, <4>1, <5>1, <5>2
                <5> QED
                    BY <3>2, <5>1, <5>3 DEF Found
            <4> QED
                BY <4>2, <4>3
        <3>3. CASE pc = "fresh"
            <4>1. fd \in Inode
                BY <1>1, <1>5, <3>3 DEF MonitorInv
            <4>2. PICK i \in 1 .. st_size : i <= Len(content[fd]) /\ content[fd][i] = b
                BY <2>2, <3>3 DEF Found
            <4>3. i \in 1 .. Len(content[fd])
                BY <1>1, <1>5, <4>1, <4>2, ContentFacts
            <4>4. content'[fd] = content[fd]
                BY <3>1, <4>1, <4>2, <4>3
            <4> QED
                BY <3>3, <4>2, <4>4 DEF Found
        <3>4. CASE pc \in {"stat", "replaced"}
            BY <2>2, <3>4 DEF Found
        <3>5. CASE pc = "reopen"
            <4>1. fd = None /\ InFile(path, b)
                BY <1>1, <2>2, <3>5 DEF Found, MonitorInv
            <4>2. path # fd
                BY <4>1 DEF InFile
            <4> QED
                BY <2>2, <3>5, <4>1, <4>2 DEF Found
        <3> QED
            BY <2>2, <3>2, <3>3, <3>4, <3>5 DEF Found
    <2> QED
        BY <1>1, <1>3, <2>1, <2>2, DueFrame
<1> QED
    BY <1>2, <1>4, <1>8, <1>9, <1>10 DEF LogInv
\* A file without its name is still open at the monitor.
LEMMA RemoveFileKeeps ==
    ASSUME LogInv, RemoveFile
    PROVE  LogInv'
<1>1. EventlogTypeOK /\ FilesInv /\ DueInv
    BY DEF LogInv
<1>2. /\ path # None /\ path' = None
      /\ incidents < MaxIncidents /\ incidents' = incidents + 1
      /\ due' = IF path = fd THEN due ELSE due \ BytesOf(content[path])
      /\ UNCHANGED <<content, wfd, nbytes, ninodes, truncated, inc, pc, alog, masterq, mlog>>
      /\ UNCHANGED <<caller, fd, st_size, now_size, child, runs, client>>
      /\ UNCHANGED <<epoch, received, skipped>>
    BY DEF RemoveFile, Incident, monVars, childVars
<1>3. EventlogTypeOK'
    <2>1. incidents' \in 0 .. MaxIncidents
        BY <1>1, <1>2, Constants DEF EventlogTypeOK
    <2> QED
        BY <1>1, <1>2, <2>1 DEF EventlogTypeOK
<1>4. FilesInv'
    BY <1>1, <1>2 DEF FilesInv
<1>5. \A f \in truncated' : due' \cap BytesOf(content'[f]) = {}
    BY <1>1, <1>2 DEF DueInv
<1>6. \A b \in due' : InFile(fd, b) => InFile(fd, b)'
    BY <1>2 DEF InFile
<1>7. \A b \in due' : ~(path # fd /\ InFile(path, b))
    BY <1>2 DEF InFile
<1>8. /\ pc \in {"gone", "replaced"} => path' # fd
      /\ fd # None => fd <= ninodes'
    BY <1>2 DEF LogInv, MonitorInv
<1> QED
    BY <1>2, <1>3, <1>4, <1>5, <1>6, <1>7, <1>8, FileStepKeeps

\* The new file is empty and newer than all others.
LEMMA CreateFileKeeps ==
    ASSUME LogInv, CreateFile
    PROVE  LogInv'
<1>1. EventlogTypeOK /\ FilesInv /\ DueInv /\ MonitorInv
    BY DEF LogInv
<1>2. /\ path = None /\ path' = ninodes + 1
      /\ ninodes < MaxInodes /\ ninodes' = ninodes + 1
      /\ UNCHANGED <<content, wfd, nbytes, truncated, inc, pc, alog, masterq, mlog>>
      /\ UNCHANGED <<caller, fd, st_size, now_size, child, runs, client, incidents>>
      /\ UNCHANGED <<epoch, received, skipped, due>>
    BY DEF CreateFile, monVars, childVars, clientVars, histVars
<1>3. /\ ninodes \in Nat /\ ninodes' \in 1 .. MaxInodes /\ path' \in Inode
      /\ wfd \in Nat /\ wfd <= ninodes
    BY <1>1, <1>2, Constants DEF EventlogTypeOK, Inode, FilesInv
<1>4. EventlogTypeOK'
    BY <1>1, <1>2, <1>3 DEF EventlogTypeOK
<1>5. FilesInv'
    <2>1. path' \in {None, ninodes'} /\ wfd' <= ninodes'
        BY <1>2, <1>3
    <2> QED
        BY <1>1, <1>2, <2>1 DEF FilesInv
<1>6. content'[path'] = <<>>
    <2>1. path' > wfd
        BY <1>2, <1>3
    <2> QED
        BY <1>1, <1>2, <1>3, <2>1 DEF FilesInv
<1>7. fd # None => fd <= ninodes /\ fd \in Nat
    BY <1>1, ContentFacts DEF MonitorInv, EventlogTypeOK
<1>8. path' # fd /\ (fd # None => fd <= ninodes')
    <2>1. fd # None => fd <= ninodes + 1 /\ fd # ninodes + 1
        BY <1>3, <1>7
    <2>2. ninodes + 1 \in Nat
        BY <1>3
    <2> QED
        BY <1>2, <2>1, <2>2, Constants
<1>9. \A f \in truncated' : due' \cap BytesOf(content'[f]) = {}
    BY <1>1, <1>2 DEF DueInv
<1>10. \A b \in due' : InFile(fd, b) => InFile(fd, b)'
    BY <1>2 DEF InFile
<1>11. \A b \in due' : ~(path # fd /\ InFile(path, b))
    BY <1>2 DEF InFile
<1> QED
    BY <1>2, <1>4, <1>5, <1>6, <1>8, <1>9, <1>10, <1>11, FileStepKeeps

\* Syslogd goes on in the file that has the name.
LEMMA SyslogReopenKeeps ==
    ASSUME LogInv, SyslogReopen
    PROVE  LogInv'
<1>1. EventlogTypeOK /\ FilesInv /\ DueInv /\ MonitorInv
    BY DEF LogInv
<1>2. /\ path # None /\ wfd' = path
      /\ UNCHANGED <<content, path, nbytes, ninodes, truncated, inc, pc, alog, masterq, mlog>>
      /\ UNCHANGED <<caller, fd, st_size, now_size, child, runs, client, incidents>>
      /\ UNCHANGED <<epoch, received, skipped, due>>
    BY DEF SyslogReopen, monVars, childVars, clientVars, histVars
<1>3. path \in Inode /\ path = ninodes /\ path \in Nat /\ wfd \in Nat /\ wfd <= path
    BY <1>1, <1>2, ContentFacts DEF EventlogTypeOK, FilesInv
<1>4. EventlogTypeOK'
    BY <1>1, <1>2, <1>3 DEF EventlogTypeOK
<1>5. FilesInv'
    <2>1. \A f \in Inode : f > path => f > wfd
        BY <1>1, <1>3, ContentFacts
    <2>2. wfd' <= ninodes'
        BY <1>2, <1>3
    <2> QED
        BY <1>1, <1>2, <2>1, <2>2 DEF FilesInv
<1>6. \A f \in truncated' : due' \cap BytesOf(content'[f]) = {}
    BY <1>1, <1>2 DEF DueInv
<1>7. \A b : /\ InFile(fd, b) => InFile(fd, b)'
             /\ InFile(path, b) => InFile(path, b)'
    BY <1>2 DEF InFile
<1>8. /\ pc \in {"gone", "replaced"} => path' # fd
      /\ fd # None => fd <= ninodes'
    BY <1>1, <1>2 DEF MonitorInv
<1> QED
    BY <1>2, <1>4, <1>5, <1>6, <1>7, <1>8, FileStepKeeps

\* What is cut off is no longer due.
LEMMA TruncateFileKeeps ==
    ASSUME LogInv, TruncateFile
    PROVE  LogInv'
<1>1. EventlogTypeOK /\ FilesInv /\ DueInv /\ MonitorInv
    BY DEF LogInv
<1> DEFINE none == <<>>
<1>2. /\ path # None /\ truncated' = truncated \cup {path}
      /\ content' = [content EXCEPT ![path] = none]
      /\ due' = due \ BytesOf(content[path])
      /\ incidents < MaxIncidents /\ incidents' = incidents + 1
      /\ UNCHANGED <<path, wfd, nbytes, ninodes, inc, pc, alog, masterq, mlog>>
      /\ UNCHANGED <<caller, fd, st_size, now_size, child, runs, client>>
      /\ UNCHANGED <<epoch, received, skipped>>
    BY DEF TruncateFile, Incident, monVars, childVars
<1>3. none \in Seq(Byte) /\ DOMAIN none = {} /\ BytesOf(none) = {}
    BY EmptySeq DEF BytesOf
<1> HIDE DEF none
<1>4. path \in Inode
    BY <1>1, <1>2 DEF EventlogTypeOK
<1>5. \A f \in Inode : content'[f] = IF f = path THEN none ELSE content[f]
    BY <1>1, <1>2, <1>4 DEF EventlogTypeOK
<1>6. EventlogTypeOK'
    <2>1. content' \in [Inode -> Seq(Byte)]
        BY <1>1, <1>2, <1>3 DEF EventlogTypeOK
    <2>2. incidents' \in 0 .. MaxIncidents
        BY <1>1, <1>2, Constants DEF EventlogTypeOK
    <2>3. truncated' \subseteq Inode /\ due' \subseteq Byte
        BY <1>1, <1>2, <1>4 DEF EventlogTypeOK
    <2> QED
        BY <1>1, <1>2, <2>1, <2>2, <2>3 DEF EventlogTypeOK
<1>7. FilesInv'
    <2>1. \A f \in Inode : f > wfd => content'[f] = <<>>
        BY <1>1, <1>5 DEF FilesInv, none
    <2>2. \A f \in Inode : \A i \in DOMAIN content'[f] :
              f # path /\ content'[f] = content[f] /\ i \in DOMAIN content[f]
        BY <1>3, <1>5
    <2>3. \A f \in Inode : \A i \in DOMAIN content'[f] : content'[f][i] <= nbytes
        BY <1>1, <2>2 DEF FilesInv
    <2>4. \A f \in Inode : \A i, j \in DOMAIN content'[f] :
              i < j => content'[f][i] < content'[f][j]
        BY <1>1, <2>2 DEF FilesInv
    <2>5. \A f, g \in Inode : f < g =>
              \A i \in DOMAIN content'[f], j \in DOMAIN content'[g] :
                  content'[f][i] < content'[g][j]
        BY <1>1, <2>2 DEF FilesInv
    <2> QED
        BY <1>1, <1>2, <2>1, <2>3, <2>4, <2>5 DEF FilesInv
<1>8. \A f \in truncated' : due' \cap BytesOf(content'[f]) = {}
    <2> SUFFICES ASSUME NEW f \in truncated'
                 PROVE  due' \cap BytesOf(content'[f]) = {}
        OBVIOUS
    <2>1. CASE f = path
        BY <1>3, <1>4, <1>5, <2>1
    <2>2. CASE f # path
        <3>1. f \in truncated /\ f \in Inode
            BY <1>1, <1>2, <2>2 DEF EventlogTypeOK
        <3> QED
            BY <1>1, <1>2, <1>5, <2>2, <3>1 DEF DueInv
    <2> QED
        BY <2>1, <2>2
<1>9. \A b \in due' : ~InFile(path, b)
    BY <1>2 DEF InFile
<1>10. \A b \in due' : InFile(fd, b) => InFile(fd, b)'
    <2> SUFFICES ASSUME NEW b \in due', InFile(fd, b)
                 PROVE  InFile(fd, b)'
        OBVIOUS
    <2>1. fd # path /\ fd # None /\ fd \in Inode
        BY <1>1, <1>9 DEF InFile, EventlogTypeOK
    <2> QED
        BY <1>2, <1>5, <2>1 DEF InFile
<1>11. /\ pc \in {"gone", "replaced"} => path' # fd
       /\ fd # None => fd <= ninodes'
    BY <1>1, <1>2 DEF MonitorInv
<1>12. /\ truncated \subseteq truncated' /\ due' \subseteq due
       /\ \A f \in Inode : content'[f] = content[f] \/ (content'[f] = <<>> /\ f \in truncated')
    BY <1>2, <1>5 DEF none
<1> QED
    BY <1>2, <1>6, <1>7, <1>8, <1>9, <1>10, <1>11, <1>12, FileStepKeeps
-----------------------------------------------------------------------------
(* Steps of the monitor that log nothing *)

\* The system calls that only look at files: the bytes that are ahead stay so,
\* and what is due is found or was logged.
LEMMA LookKeeps ==
    ASSUME LogInv, EventlogTypeOK', MonitorInv',
           pc \in Working, pc' \in Working \ {"report"},
           UNCHANGED <<fileVars, inc, alog, masterq, mlog>>,
           UNCHANGED <<childVars, clientVars, histVars>>,
           \A c \in Byte : Ahead(c)' => Ahead(c),
           \A b \in due : child = "exited" /\ Left(b) => InFile(fd, b)' \/ InFile(path, b)',
           caller' = "exit" /\ pc' # "idle" =>
               child = "exited" /\ \A b \in due : Left(b) => Found(b)'
    PROVE  LogInv'
<1>1. /\ EventlogTypeOK /\ QueueInv /\ NumberInv /\ ShownInv
      /\ FilesInv /\ SentInv /\ AheadInv /\ MonitorInv /\ DueInv
    BY DEF LogInv
<1>2. /\ UNCHANGED <<content, path, wfd, nbytes, ninodes, truncated, inc, alog, masterq, mlog>>
      /\ UNCHANGED <<child, runs, client, incidents, epoch, received, skipped, due>>
    BY DEF fileVars, childVars, clientVars, histVars
<1>3. QueueInv' /\ NumberInv' /\ ShownInv'
    <2>1. NextPushed' = NextPushed
        BY <1>2 DEF NextPushed, pending_count
    <2>2. \A i \in DOMAIN alog'.events :
              alog'.events[i].sequence + Len(alog'.events) + 1 = alog'.seqno + i
        BY <1>1, <1>2 DEF NumberInv
    <2> QED
        BY <1>1, <1>2, <2>1, <2>2, WorkingFrame
<1>4. FilesInv'
    BY <1>1, FilesFrame
<1>5. SentInv'
    <2>1. nbytes <= nbytes'
        BY <1>1, <1>2, Constants DEF EventlogTypeOK
    <2> QED
        BY <1>1, <1>2, <2>1, SentFrame
<1>6. AheadInv'
    <2>1. \A b : Logged(b)' <=> Logged(b)
        BY <1>2, LoggedFrame
    <2> QED
        BY <1>1, <2>1 DEF AheadInv
<1>7. DueInv'
    <2>1. \A b : /\ Left(b)' <=> Left(b)
                 /\ IsReceived(b)' <=> IsReceived(b)
        BY <1>2, LoggedFrame DEF Left
    <2>2. /\ due' \cap skipped' = {}
          /\ \A b \in due' : b <= nbytes'
          /\ \A f \in truncated' : due' \cap BytesOf(content'[f]) = {}
          /\ child' \in {"none", "running"} => due' = {}
          /\ child' = "reported" => \A b \in due' : IsReceived(b)'
        BY <1>1, <1>2, <2>1 DEF DueInv
    <2>3. child' = "exited" => \A b \in due' : Left(b)' => InFile(fd, b)' \/ InFile(path, b)'
        BY <1>2, <2>1
    <2>4. pc' \notin Starting \cup {"report"}
        BY DEF Working, Starting
    <2> HIDE DEF Starting
    <2> QED
        BY <1>2, <2>1, <2>2, <2>3, <2>4 DEF DueInv
<1> QED
    BY <1>3, <1>4, <1>5, <1>6, <1>7 DEF LogInv

\* What is due and was not read is behind st_size, or in the file that has the
\* name now.
LEMMA LeftIsUnread ==
    ASSUME EventlogTypeOK, MonitorInv, DueInv, fd # None, pc # "fresh",
           NEW b \in due, Left(b), InFile(fd, b)
    PROVE  \E i \in st_size + 1 .. Len(content[fd]) : content[fd][i] = b
<1>1. fd \in Inode /\ st_size \in Nat /\ b \in Byte
    BY DEF EventlogTypeOK
<1>2. PICK i \in DOMAIN content[fd] : content[fd][i] = b
    BY DEF InFile, BytesOf
<1>3. fd \notin truncated
    BY DEF DueInv, InFile
<1>4. ~Logged(b) /\ b \notin skipped
    BY DEF Left, DueInv
<1>5. ~(i \in 1 .. st_size)
    BY <1>1, <1>2, <1>3, <1>4 DEF MonitorInv
<1> QED
    BY <1>1, <1>2, <1>5, ContentFacts

\* stat finds the file that is open, another one or none.
LEMMA StatPathKeeps ==
    ASSUME LogInv, StatPath
    PROVE  LogInv'
<1>1. EventlogTypeOK /\ MonitorInv /\ DueInv
    BY DEF LogInv
<1>2. /\ pc = "stat"
      /\ pc' \in {"idle", "flush", "gone", "replaced"}
      /\ pc' = "gone" => path # fd /\ path = None
      /\ pc' = "replaced" => path # fd
      /\ pc' \in {"idle", "flush"} => path = fd
      /\ caller = "exit" => pc' # "idle"
      /\ UNCHANGED <<fileVars, inc, alog, masterq, mlog, caller, fd, st_size, now_size>>
      /\ UNCHANGED <<childVars, clientVars, histVars>>
    BY DEF StatPath, AfterPoll, monVars
<1>3. /\ UNCHANGED <<content, path, wfd, nbytes, ninodes, truncated, inc, alog, masterq, mlog>>
      /\ UNCHANGED <<child, runs, client, incidents, epoch, received, skipped, due>>
    BY <1>2 DEF fileVars, childVars, clientVars, histVars
<1>4. pc \in Working /\ pc' \in Working \ {"report"} /\ pc' \in AgentPc
    BY <1>2 DEF Working, Starting, AgentPc
<1>5. EventlogTypeOK'
    BY <1>1, <1>2, <1>3, <1>4 DEF EventlogTypeOK
<1>6. MonitorInv'
    <2>1. \A b : Logged(b)' <=> Logged(b)
        BY <1>3, LoggedFrame
    <2> QED
        BY <1>1, <1>2, <1>3, <2>1 DEF MonitorInv
<1>7. \A c \in Byte : Ahead(c)' => Ahead(c)
    BY <1>2, <1>3, <1>4 DEF Ahead, Unread, InFile, Working
<1>8. \A b \in due : child = "exited" /\ Left(b) => InFile(fd, b)' \/ InFile(path, b)'
    <2>1. \A b : /\ InFile(fd, b) => InFile(fd, b)'
                 /\ InFile(path, b) => InFile(path, b)'
        BY <1>2, <1>3 DEF InFile
    <2> QED
        BY <1>1, <2>1 DEF DueInv
<1>9. ASSUME caller' = "exit"
      PROVE  child = "exited" /\ \A b \in due : Left(b) => Found(b)'
    <2>1. child = "exited" /\ \A b \in due : Left(b) => Found(b)
        BY <1>1, <1>2, <1>9 DEF DueInv, Starting
    <2>2. ASSUME NEW b \in due, Left(b)
          PROVE  path # fd /\ InFile(path, b)
        BY <1>2, <2>1, <2>2 DEF Found
    <2>3. ASSUME NEW b \in due, Left(b)
          PROVE  pc' = "replaced"
        BY <1>2, <2>2, <2>3 DEF InFile
    <2> QED
        BY <1>2, <1>3, <2>1, <2>2, <2>3 DEF Found, InFile
<1> QED
    BY <1>2, <1>4, <1>5, <1>6, <1>7, <1>8, <1>9, LookKeeps
\* Opening the file that has the name puts its bytes ahead, where they were before.
LEMMA OpenedFile ==
    ASSUME EventlogTypeOK, FilesInv, fd = None, pc \in Working, pc # "fresh",
           filemon_open(path), UNCHANGED fileVars,
           pc' = "fresh" \/ path = None
    PROVE  /\ fd' \in Inode \cup {None} /\ st_size' \in Nat
           /\ path # None => st_size' = Len(content[path])
           /\ fd' # None => fd' <= ninodes'
           /\ \A c \in Byte : Ahead(c)' => Ahead(c)
           /\ \A b : InFile(fd, b) \/ InFile(path, b) => InFile(fd, b)'
<1>1. /\ fd' = path /\ st_size' = IF path = None THEN st_size ELSE Len(content[path])
      /\ UNCHANGED <<content, path, wfd, nbytes, ninodes, truncated>>
    BY DEF filemon_open, fileVars
<1>2. fd' \in Inode \cup {None} /\ st_size' \in Nat
    BY <1>1, ContentFacts DEF EventlogTypeOK
<1>3. fd' # None => fd' <= ninodes'
    BY <1>1, Constants DEF FilesInv, EventlogTypeOK
<1>4. \A c \in Byte : Ahead(c)' => Ahead(c)
    <2> SUFFICES ASSUME NEW c \in Byte, Ahead(c)'
                 PROVE  Ahead(c)
        OBVIOUS
    <2>1. ~(path' # fd')
        BY <1>1
    <2>2. Unread(c)'
        BY <2>1 DEF Ahead
    <2>3. path # None /\ InFile(path, c)
        BY <1>1, <2>2 DEF Unread, InFile, BytesOf
    <2> QED
        BY <2>3 DEF Ahead, Working
<1>5. \A b : InFile(fd, b) \/ InFile(path, b) => InFile(fd, b)'
    BY <1>1 DEF InFile
<1> QED
    BY <1>1, <1>2, <1>3, <1>4, <1>5

\* A byte that is in a file is at a place of it.
LEMMA FoundInFile ==
    ASSUME EventlogTypeOK, NEW f \in Inode, NEW b, InFile(f, b)
    PROVE  \E i \in 1 .. Len(content[f]) : i <= Len(content[f]) /\ content[f][i] = b
BY ContentFacts DEF InFile, BytesOf

\* The file that replaced the old one is opened, if it is still there.
LEMMA ReopenKeeps ==
    ASSUME LogInv, Reopen
    PROVE  LogInv'
<1>1. EventlogTypeOK /\ MonitorInv /\ DueInv /\ FilesInv
    BY DEF LogInv
<1>2. /\ pc = "reopen" /\ filemon_open(path)
      /\ pc' \in {"idle", "flush", "fresh"}
      /\ pc' = "fresh" <=> path # None
      /\ caller = "exit" => pc' # "idle"
      /\ UNCHANGED <<fileVars, inc, alog, masterq, mlog, caller, now_size>>
      /\ UNCHANGED <<childVars, clientVars, histVars>>
    BY DEF Reopen, AfterPoll
<1>3. /\ UNCHANGED <<content, path, wfd, nbytes, ninodes, truncated, inc, alog, masterq, mlog>>
      /\ UNCHANGED <<child, runs, client, incidents, epoch, received, skipped, due>>
      /\ fd' = path
    BY <1>2 DEF fileVars, childVars, clientVars, histVars, filemon_open
<1>4. fd = None /\ pc \in Working /\ pc' \in Working \ {"report"} /\ pc' \in AgentPc
    BY <1>1, <1>2 DEF Working, Starting, AgentPc, MonitorInv
<1>5. /\ fd' \in Inode \cup {None} /\ st_size' \in Nat
      /\ path # None => st_size' = Len(content[path])
      /\ fd' # None => fd' <= ninodes'
      /\ \A c \in Byte : Ahead(c)' => Ahead(c)
      /\ \A b : InFile(fd, b) \/ InFile(path, b) => InFile(fd, b)'
    BY <1>1, <1>2, <1>4, OpenedFile
<1>6. EventlogTypeOK'
    BY <1>1, <1>2, <1>3, <1>4, <1>5 DEF EventlogTypeOK
<1>7. MonitorInv'
    <2>1. fd' # None => st_size' <= Len(content'[fd'])
        BY <1>3, <1>5
    <2> QED
        BY <1>2, <1>3, <1>5, <2>1 DEF MonitorInv
<1>8. \A b \in due : child = "exited" /\ Left(b) => InFile(fd, b)' \/ InFile(path, b)'
    BY <1>1, <1>5 DEF DueInv
<1>9. ASSUME caller' = "exit"
      PROVE  child = "exited" /\ \A b \in due : Left(b) => Found(b)'
    <2>1. child = "exited" /\ \A b \in due : Left(b) => Found(b)
        BY <1>1, <1>2, <1>9 DEF DueInv, Starting
    <2>2. ASSUME NEW b \in due, Left(b)
          PROVE  Found(b)'
        <3>1. InFile(path, b)
            BY <1>2, <2>1, <2>2 DEF Found
        <3>2. path \in Inode
            BY <1>1, <3>1 DEF InFile, EventlogTypeOK
        <3>3. path # None
            BY <3>1 DEF InFile
        <3>4. \E i \in 1 .. Len(content[path]) : i <= Len(content[path]) /\ content[path][i] = b
            BY <1>1, <3>1, <3>2, FoundInFile
        <3> QED
            BY <1>2, <1>3, <1>5, <3>3, <3>4 DEF Found
    <2> QED
        BY <2>1, <2>2
<1> QED
    BY <1>2, <1>4, <1>5, <1>6, <1>7, <1>8, <1>9, LookKeeps

\* A poll by the timer or by the exit callback looks at the file, or opens it.
LEMMA PollKeeps ==
    ASSUME LogInv, NEW who \in {"timer", "exit"}, Poll(who), pc = "idle",
           who = "exit" => child = "exited"
    PROVE  LogInv'
<1>1. EventlogTypeOK /\ MonitorInv /\ DueInv /\ FilesInv
    BY DEF LogInv
<1>2. /\ UNCHANGED <<fileVars, inc, alog, masterq, mlog, childVars, clientVars, histVars>>
      /\ UNCHANGED <<content, path, wfd, nbytes, ninodes, truncated, inc, alog, masterq, mlog>>
      /\ UNCHANGED <<child, runs, client, incidents, epoch, received, skipped, due>>
      /\ caller' = who
    BY DEF Poll, fileVars, childVars, clientVars, histVars
<1>3. pc \in Working
    BY DEF Working, Starting, AgentPc
<1>4. \A b \in due : child = "exited" /\ Left(b) => InFile(fd, b) \/ InFile(path, b)
    BY <1>1 DEF DueInv
<1>5. CASE fd = None
    <2>1. /\ filemon_open(path) /\ UNCHANGED now_size
          /\ pc' \in {"idle", "flush", "fresh"}
          /\ pc' = "fresh" <=> path # None
          /\ who = "exit" => pc' # "idle"
        BY <1>5 DEF Poll, AfterPoll
    <2>2. fd' = path /\ pc' \in Working \ {"report"} /\ pc' \in AgentPc
        BY <2>1 DEF filemon_open, Working, Starting, AgentPc
    <2>3. /\ fd' \in Inode \cup {None} /\ st_size' \in Nat
          /\ path # None => st_size' = Len(content[path])
          /\ fd' # None => fd' <= ninodes'
          /\ \A c \in Byte : Ahead(c)' => Ahead(c)
          /\ \A b : InFile(fd, b) \/ InFile(path, b) => InFile(fd, b)'
        BY <1>1, <1>2, <1>3, <1>5, <2>1, OpenedFile
    <2>4. EventlogTypeOK'
        BY <1>1, <1>2, <2>1, <2>2, <2>3 DEF EventlogTypeOK
    <2>5. MonitorInv'
        <3>1. fd' # None => st_size' <= Len(content'[fd'])
            BY <1>2, <2>2, <2>3
        <3> QED
            BY <1>2, <2>1, <2>2, <2>3, <3>1 DEF MonitorInv
    <2>6. ASSUME NEW b \in due, child = "exited", Left(b)
          PROVE  InFile(fd, b)' /\ Found(b)'
        <3>1. InFile(path, b) /\ InFile(fd, b)'
            BY <1>4, <1>5, <2>3, <2>6 DEF InFile
        <3>2. path \in Inode /\ path # None
            BY <1>1, <3>1 DEF InFile, EventlogTypeOK
        <3>3. \E i \in 1 .. Len(content[path]) : i <= Len(content[path]) /\ content[path][i] = b
            BY <1>1, <3>1, <3>2, FoundInFile
        <3>4. Found(b)'
            BY <1>2, <2>1, <2>2, <2>3, <3>2, <3>3 DEF Found
        <3> QED
            BY <3>1, <3>4
    <2> QED
        BY <1>2, <1>3, <2>2, <2>3, <2>4, <2>5, <2>6, LookKeeps
<1>6. CASE fd # None
    <2>1. /\ fd \in Inode /\ st_size \in Nat /\ Len(content[fd]) \in Nat
        BY <1>1, <1>6, ContentFacts DEF EventlogTypeOK
    <2>2. /\ now_size' = Len(content[fd]) /\ UNCHANGED fd
          /\ \/ st_size < now_size' /\ pc' = "grown" /\ st_size' = st_size
             \/ ~(st_size < now_size') /\ pc' = "stat" /\ st_size' = now_size'
        BY <1>6 DEF Poll
    <2>3. pc' \in Working \ {"report"} /\ pc' \in AgentPc
        BY <2>2 DEF Working, Starting, AgentPc
    <2>4. EventlogTypeOK'
        <3>1. now_size' \in Nat /\ st_size' \in Nat
            BY <2>1, <2>2
        <3> QED
            BY <1>1, <1>2, <2>2, <2>3, <3>1 DEF EventlogTypeOK
    <2>5. st_size' <= st_size /\ st_size' <= Len(content[fd])
        BY <2>1, <2>2
    <2>6. MonitorInv'
        <3>1. \A b : Logged(b)' <=> Logged(b)
            BY <1>2, LoggedFrame
        <3>2. fd \notin truncated => \A i \in 1 .. st_size, b \in Byte :
                  content[fd][i] = b => Logged(b) \/ b \in skipped
            BY <1>1, <1>6 DEF MonitorInv
        <3>3. fd' \notin truncated' => \A i \in 1 .. st_size', b \in Byte :
                  content'[fd'][i] = b => Logged(b)' \/ b \in skipped'
            <4>1. 1 .. st_size' \subseteq 1 .. st_size
                BY <2>1, <2>2, <2>5
            <4> QED
                BY <1>2, <2>2, <3>1, <3>2, <4>1
        <3>4. fd' <= ninodes'
            BY <1>1, <1>2, <1>6, <2>2 DEF MonitorInv
        <3>5. pc' = "grown" => st_size' < now_size' /\ now_size' <= Len(content'[fd'])
            BY <1>2, <2>1, <2>2
        <3>6. st_size' <= Len(content'[fd']) /\ fd' # None
            BY <1>2, <1>6, <2>2, <2>5
        <3>7. pc' \in {"grown", "stat"}
            BY <2>2
        <3> QED
            BY <3>3, <3>4, <3>5, <3>6, <3>7 DEF MonitorInv
    <2>7. \A c \in Byte : Ahead(c)' => Ahead(c)
        <3> SUFFICES ASSUME NEW c \in Byte, Ahead(c)'
                     PROVE  Ahead(c)
            OBVIOUS
        <3>1. Unread(c)' => Unread(c)
            <4> SUFFICES ASSUME Unread(c)'
                         PROVE  Unread(c)
                OBVIOUS
            <4>1. PICK i \in DOMAIN content[fd] : content[fd][i] = c /\ i > st_size'
                BY <1>2, <2>2 DEF Unread
            <4>2. i \in 1 .. Len(content[fd])
                BY <1>1, <2>1, <4>1, ContentFacts
            <4>3. i > st_size
                BY <2>1, <2>2, <4>1, <4>2
            <4> QED
                BY <1>6, <4>1, <4>3 DEF Unread
        <3>2. path' # fd' /\ InFile(path, c)' => path # fd /\ InFile(path, c)
            BY <1>2, <2>2 DEF InFile
        <3> QED
            BY <1>3, <3>1, <3>2 DEF Ahead, Working
    <2>8. \A b : /\ InFile(fd, b) => InFile(fd, b)'
                 /\ InFile(path, b) => InFile(path, b)'
        BY <1>2, <2>2 DEF InFile
    <2>9. ASSUME NEW b \in due, child = "exited", Left(b)
          PROVE  Found(b)'
        <3>1. CASE InFile(fd, b)
            <4>1. PICK i \in st_size + 1 .. Len(content[fd]) : content[fd][i] = b
                BY <1>1, <1>6, <2>9, <3>1, LeftIsUnread
            <4>2. st_size < now_size' /\ pc' = "grown" /\ st_size' = st_size
                BY <2>1, <2>2, <4>1
            <4> QED
                BY <1>2, <2>1, <2>2, <4>1, <4>2 DEF Found
        <3>2. CASE ~InFile(fd, b)
            <4>1. InFile(path, b) /\ path # fd
                BY <1>4, <2>9, <3>2
            <4> QED
                BY <1>2, <2>2, <2>8, <4>1 DEF Found
        <3> QED
            BY <3>1, <3>2
    <2> QED
        BY <1>2, <1>3, <1>4, <2>3, <2>4, <2>6, <2>7, <2>8, <2>9, LookKeeps
<1> QED
    BY <1>5, <1>6
-----------------------------------------------------------------------------
(* Steps of the monitor that log what they read *)

DataRead(from, to) ==
    SubSeq(content[fd], from + 1, IF to < Len(content[fd]) THEN to ELSE Len(content[fd]))

\* A read returns bytes that were ahead, in order.
LEMMA ReadBytes ==
    ASSUME EventlogTypeOK, FilesInv, fd \in Inode, pc \in Working,
           NEW from \in Nat, NEW to \in Nat, pc = "fresh" \/ from >= st_size
    PROVE  /\ DataRead(from, to) \in Seq(Byte)
           /\ Increasing(DataRead(from, to))
           /\ \A b \in BytesOf(DataRead(from, to)) :
                 /\ b \in Byte /\ b <= nbytes /\ Ahead(b)
                 /\ \E k \in from + 1 .. to : k <= Len(content[fd]) /\ content[fd][k] = b
           /\ \A k \in from + 1 .. to :
                 k <= Len(content[fd]) => content[fd][k] \in BytesOf(DataRead(from, to))
<1>1. /\ content[fd] \in Seq(Byte) /\ Len(content[fd]) \in Nat
      /\ DOMAIN content[fd] = 1 .. Len(content[fd])
      /\ \A i \in DOMAIN content[fd] : content[fd][i] \in Byte
      /\ fd # None /\ st_size \in Nat
    BY ContentFacts DEF EventlogTypeOK
<1>2. PICK n \in Nat : n = IF to < Len(content[fd]) THEN to ELSE Len(content[fd])
    BY <1>1
<1>3. n <= Len(content[fd]) /\ n <= to
    BY <1>1, <1>2
<1>4. PICK d : d = SubSeq(content[fd], from + 1, n)
    OBVIOUS
<1>5. DataRead(from, to) = d
    BY <1>2, <1>4 DEF DataRead
<1>6. /\ d \in Seq(Byte)
      /\ Len(d) \in Nat
      /\ DOMAIN d = 1 .. Len(d)
      /\ \A i \in DOMAIN d : from + i \in from + 1 .. n /\ d[i] = content[fd][from + i]
      /\ \A k \in from + 1 .. n : k - from \in DOMAIN d /\ d[k - from] = content[fd][k]
    <2>0. PICK s \in Seq(Byte) : s = content[fd]
        BY <1>1
    <2>1. \A i \in from + 1 .. n : s[i] \in Byte
        BY <1>3, ElementOfSeq, <2>0
    <2>2. /\ d \in Seq(Byte)
          /\ Len(d) = IF from + 1 <= n THEN n - (from + 1) + 1 ELSE 0
          /\ \A i \in 1 .. n - (from + 1) + 1 : d[i] = s[(from + 1) + i - 1]
        <3>1. from + 1 \in Int /\ n \in Int
            OBVIOUS
        <3> QED
            BY <1>4, <2>0, <2>1, <3>1, SubSeqProperties
    <2>3. Len(d) \in Nat /\ DOMAIN d = 1 .. Len(d)
        BY <2>2
    <2>4. Len(d) = IF from < n THEN n - from ELSE 0
        BY <2>2
    <2>5. ASSUME NEW i \in DOMAIN d
          PROVE  from + i \in from + 1 .. n /\ d[i] = s[from + i]
        <3>1. i \in 1 .. n - from
            BY <2>3, <2>4, <2>5
        <3>2. (from + 1) + i - 1 = from + i /\ i \in 1 .. n - (from + 1) + 1
            BY <3>1
        <3> QED
            BY <2>2, <3>1, <3>2
    <2>6. ASSUME NEW k \in from + 1 .. n
          PROVE  k - from \in DOMAIN d /\ d[k - from] = s[k]
        <3>1. k - from \in DOMAIN d /\ from + (k - from) = k
            BY <2>3, <2>4, <2>6
        <3> QED
            BY <2>5, <3>1
    <2> QED
        BY <2>0, <2>2, <2>3, <2>5, <2>6
<1>7. Increasing(d)
    <2> SUFFICES ASSUME NEW i \in DOMAIN d, NEW j \in DOMAIN d, i < j
                 PROVE  d[i] < d[j]
        BY DEF Increasing
    <2>1. i \in Nat /\ j \in Nat
        BY <1>6
    <2>2. from + i < from + j
        BY <2>1
    <2>3. from + i \in from + 1 .. n /\ d[i] = content[fd][from + i]
        BY <1>6
    <2>4. from + j \in from + 1 .. n /\ d[j] = content[fd][from + j]
        BY <1>6
    <2>5. \A k \in from + 1 .. n : k \in DOMAIN content[fd]
        BY <1>1, <1>3
    <2>6. from + i \in DOMAIN content[fd] /\ from + j \in DOMAIN content[fd]
        BY <2>3, <2>4, <2>5
    <2>7. content[fd][from + i] < content[fd][from + j]
        BY <2>2, <2>6 DEF FilesInv
    <2> QED
        BY <2>3, <2>4, <2>7
<1>8. ASSUME NEW b \in BytesOf(d)
      PROVE  /\ b \in Byte /\ b <= nbytes /\ Ahead(b)
             /\ \E k \in from + 1 .. to : k <= Len(content[fd]) /\ content[fd][k] = b
    <2>1. PICK k \in from + 1 .. n : b = content[fd][k]
        BY <1>6, <1>8 DEF BytesOf
    <2>2. k \in DOMAIN content[fd] /\ k \in from + 1 .. to /\ k <= Len(content[fd])
        BY <1>1, <1>3
    <2>3. b \in Byte /\ b <= nbytes
        BY <1>1, <2>1, <2>2 DEF FilesInv
    <2>4. pc = "fresh" \/ k > st_size
        BY <1>1, <2>1
    <2>5. Ahead(b)
        BY <1>1, <2>1, <2>2, <2>4 DEF Ahead, Unread, Working
    <2> QED
        BY <2>1, <2>2, <2>3, <2>5
<1>9. \A k \in from + 1 .. to : k <= Len(content[fd]) => content[fd][k] \in BytesOf(d)
    <2> SUFFICES ASSUME NEW k \in from + 1 .. to, k <= Len(content[fd])
                 PROVE  content[fd][k] \in BytesOf(d)
        OBVIOUS
    <2>1. k \in from + 1 .. n
        BY <1>1, <1>2
    <2> QED
        BY <1>6, <2>1 DEF BytesOf
<1> QED
    BY <1>5, <1>6, <1>7, <1>8, <1>9

\* What is logged when an event is added.
LEMMA EventLogged ==
    ASSUME LogInv, pc \in Working, UNCHANGED <<received, masterq, nbytes>>,
           NEW data \in Seq(Byte), alog' = add_event(alog, data), Increasing(data),
           \A b \in BytesOf(data) : b \in Byte /\ b <= nbytes /\ Ahead(b)
    PROVE  /\ LogOK(alog')
           /\ NextPushed' = NextPushed
           /\ \A i \in DOMAIN alog'.events :
                 alog'.events[i].sequence + Len(alog'.events) + 1 = alog'.seqno + i
           /\ \A b : /\ Logged(b)' <=> Logged(b) \/ b \in BytesOf(data)
                     /\ IsReceived(b)' <=> IsReceived(b)
           /\ SentInv'
<1>1. EventlogTypeOK /\ QueueInv /\ NumberInv /\ SentInv /\ AheadInv
    BY DEF LogInv
<1>2. masterq = <<>> /\ ~AddFirst /\ ~AddFirst'
    BY <1>1 DEF QueueInv, Working, Starting, AddFirst
<1>3. LogOK(alog)
    BY <1>1 DEF EventlogTypeOK
<1>4. PICK n \in Nat : n = Len(alog.events)
    BY <1>3, LogFields
<1>5. /\ LogOK(alog')
      /\ alog'.consumed = alog.consumed
      /\ alog'.seqno = alog.seqno + 1
      /\ Len(alog'.events) = n + 1
      /\ DOMAIN alog'.events = 1 .. n + 1
      /\ \A i \in 1 .. n : alog'.events[i] = alog.events[i]
      /\ alog'.events[n + 1].sequence = alog.seqno
      /\ alog'.events[n + 1].data = data
    BY <1>3, <1>4, AddedEvent
<1>6. /\ alog.consumed \in Nat /\ alog.seqno \in Nat
      /\ DOMAIN alog.events = 1 .. n /\ alog.consumed <= n
      /\ \A i \in DOMAIN alog.events :
            alog.events[i].sequence \in Nat /\ alog.events[i].data \in Seq(Byte)
    BY <1>3, <1>4, LogFields
<1>7. NextPushed' = NextPushed
    <2>1. NextPushed = alog.seqno - (n - alog.consumed)
        BY <1>4 DEF NextPushed, pending_count
    <2>2. NextPushed' = alog'.seqno - (Len(alog'.events) - alog'.consumed)
        BY DEF NextPushed, pending_count
    <2>3. NextPushed' = (alog.seqno + 1) - ((n + 1) - alog.consumed)
        BY <1>5, <2>2
    <2> QED
        BY <1>6, <2>1, <2>3
<1>8. ASSUME NEW i \in DOMAIN alog'.events
      PROVE  alog'.events[i].sequence + Len(alog'.events) + 1 = alog'.seqno + i
    <2>1. CASE i = n + 1
        BY <1>5, <1>6, <2>1
    <2>2. CASE i # n + 1
        <3>1. i \in 1 .. n
            BY <1>5, <2>2
        <3>2. alog.events[i].sequence + n + 1 = alog.seqno + i
            BY <1>1, <1>4, <1>6, <3>1 DEF NumberInv
        <3>3. PICK x \in Nat : x = alog.events[i].sequence
            BY <1>6, <3>1
        <3>4. alog'.events[i].sequence = x
            BY <1>5, <3>1, <3>3
        <3>5. x + n + 1 = alog.seqno + i
            BY <3>2, <3>3
        <3>6. x + (n + 1) + 1 = (alog.seqno + 1) + i
            <4>1. alog.seqno \in Nat
                BY <1>6
            <4> QED
                BY <4>1, <3>1, <3>5
        <3> QED
            BY <1>5, <3>4, <3>6
    <2> QED
        BY <2>1, <2>2
<1>9. \A i \in 1 .. n : \A b : PendingIn(i, b)' <=> PendingIn(i, b)
    BY <1>5 DEF PendingIn
<1>10. \A b : PendingIn(n + 1, b)' <=> b \in BytesOf(data)
    BY <1>5, <1>6 DEF PendingIn
<1>11. \A b : IsPending(b)' <=> IsPending(b) \/ b \in BytesOf(data)
    <2>1. \A b : IsPending(b)' <=> \E i \in 1 .. n + 1 : PendingIn(i, b)'
        BY <1>5 DEF IsPending
    <2>2. \A b : IsPending(b) <=> \E i \in 1 .. n : PendingIn(i, b)
        BY <1>6 DEF IsPending
    <2>3. 1 .. n + 1 = (1 .. n) \cup {n + 1}
        OBVIOUS
    <2> QED
        BY <1>9, <1>10, <2>1, <2>2, <2>3
<1>12. \A b : /\ IsReceived(b)' <=> IsReceived(b)
              /\ ~OnTheWay(b) /\ ~OnTheWay(b)'
    BY <1>2 DEF IsReceived, OnTheWay
<1>13. \A b : Logged(b)' <=> Logged(b) \/ b \in BytesOf(data)
    BY <1>11, <1>12 DEF Logged
<1>14. \A b \in Byte, c \in BytesOf(data) : Logged(b) => b < c
    BY <1>1 DEF AheadInv
<1>15. SentInv'
    <2>1. Increasing(received)' /\ ~AddFirst'
        BY <1>1, <1>2 DEF SentInv, Increasing
    <2>2. \A i \in DOMAIN alog'.events : Increasing(alog'.events[i].data)
        <3> SUFFICES ASSUME NEW i \in 1 .. n + 1
                     PROVE  Increasing(alog'.events[i].data)
            BY <1>5
        <3>1. CASE i = n + 1
            BY <1>5, <3>1
        <3>2. CASE i # n + 1
            <4>1. i \in 1 .. n
                BY <3>2
            <4>2. Increasing(alog.events[i].data) /\ alog'.events[i] = alog.events[i]
                BY <1>1, <1>5, <1>6, <4>1 DEF SentInv
            <4> QED
                BY <4>2
        <3> QED
            BY <3>1, <3>2
    <2>3. \A b, c \in Byte : IsReceived(b)' /\ (OnTheWay(c)' \/ IsPending(c)') => b < c
        BY <1>1, <1>11, <1>12, <1>14 DEF SentInv, Logged
    <2>4. ASSUME NEW i \in DOMAIN alog'.events, NEW j \in DOMAIN alog'.events,
                 NEW b \in Byte, NEW c \in Byte,
                 PendingIn(i, b)', PendingIn(j, c)', i < j
          PROVE  b < c
        <3>1. i \in 1 .. n /\ PendingIn(i, b)
            BY <1>5, <1>9, <2>4
        <3>2. CASE j = n + 1
            <4>1. c \in BytesOf(data)
                BY <1>10, <2>4, <3>2
            <4>2. Logged(b)
                BY <1>6, <3>1 DEF Logged, IsPending
            <4> QED
                BY <1>14, <4>1, <4>2
        <3>3. CASE j # n + 1
            <4>1. j \in 1 .. n /\ PendingIn(j, c)
                BY <1>5, <1>9, <2>4, <3>3
            <4> QED
                BY <1>1, <1>6, <2>4, <3>1, <4>1 DEF SentInv
        <3> QED
            BY <3>2, <3>3
    <2>5. \A b \in Byte : Logged(b)' => b <= nbytes'
        BY <1>1, <1>13 DEF SentInv
    <2> QED
        BY <1>12, <2>1, <2>2, <2>3, <2>4, <2>5 DEF SentInv
<1> QED
    BY <1>5, <1>7, <1>8, <1>12, <1>13, <1>15
\* The system calls that read a file: what is ahead after them was ahead before
\* and is newer than what was read.
LEMMA LogStepKeeps ==
    ASSUME LogInv, EventlogTypeOK', MonitorInv',
           pc \in Working, pc' \in Working \ {"report"},
           UNCHANGED <<fileVars, inc, masterq, mlog, caller>>,
           UNCHANGED <<childVars, clientVars, histVars>>,
           NEW data \in Seq(Byte), alog' = add_event(alog, data), Increasing(data),
           \A b \in BytesOf(data) : b \in Byte /\ b <= nbytes /\ Ahead(b),
           \A c \in Byte : Ahead(c)' => Ahead(c) /\ \A b \in BytesOf(data) : b < c,
           \A b \in due : child = "exited" /\ Left(b)' => InFile(fd, b)' \/ InFile(path, b)',
           caller = "exit" /\ pc' # "idle" =>
               child = "exited" /\ \A b \in due : Left(b)' => Found(b)'
    PROVE  LogInv'
<1>1. /\ EventlogTypeOK /\ QueueInv /\ NumberInv /\ ShownInv
      /\ FilesInv /\ SentInv /\ AheadInv /\ MonitorInv /\ DueInv
    BY DEF LogInv
<1>2. /\ UNCHANGED <<content, path, wfd, nbytes, ninodes, truncated, inc, masterq, mlog>>
      /\ UNCHANGED <<child, runs, client, incidents, epoch, received, skipped, due, caller>>
    BY DEF fileVars, childVars, clientVars, histVars
<1>3. /\ NextPushed' = NextPushed
      /\ \A i \in DOMAIN alog'.events :
            alog'.events[i].sequence + Len(alog'.events) + 1 = alog'.seqno + i
      /\ \A b : /\ Logged(b)' <=> Logged(b) \/ b \in BytesOf(data)
                /\ IsReceived(b)' <=> IsReceived(b)
      /\ SentInv'
    BY <1>2, EventLogged
<1>4. QueueInv' /\ NumberInv' /\ ShownInv'
    BY <1>1, <1>2, <1>3, WorkingFrame
<1>5. FilesInv'
    BY <1>1, FilesFrame
<1>6. AheadInv'
    BY <1>1, <1>3 DEF AheadInv
<1>7. DueInv'
    <2>1. /\ due' \cap skipped' = {}
          /\ \A b \in due' : b <= nbytes'
          /\ \A f \in truncated' : due' \cap BytesOf(content'[f]) = {}
          /\ child' \in {"none", "running"} => due' = {}
          /\ child' = "reported" => \A b \in due' : IsReceived(b)'
        BY <1>1, <1>2, <1>3 DEF DueInv
    <2>2. child' = "exited" => \A b \in due' : Left(b)' => InFile(fd, b)' \/ InFile(path, b)'
        BY <1>2
    <2>3. pc' \notin Starting \cup {"report"}
        BY DEF Working, Starting
    <2> HIDE DEF Starting
    <2> QED
        BY <1>2, <2>1, <2>2, <2>3 DEF DueInv
<1> QED
    BY <1>3, <1>4, <1>5, <1>6, <1>7 DEF LogInv

\* A file that grew is read up to the size fstat returned.
LEMMA LogGrownKeeps ==
    ASSUME LogInv, LogGrown
    PROVE  LogInv'
<1>1. EventlogTypeOK /\ MonitorInv /\ DueInv /\ FilesInv
    BY DEF LogInv
<1>2. /\ pc = "grown" /\ pc' = "stat" /\ st_size' = now_size
      /\ alog' = add_event(alog, DataRead(st_size, now_size))
      /\ UNCHANGED <<fileVars, inc, masterq, mlog, caller, fd, now_size>>
      /\ UNCHANGED <<childVars, clientVars, histVars>>
    BY DEF LogGrown, log_data, DataRead
<1>3. /\ UNCHANGED <<content, path, wfd, nbytes, ninodes, truncated, inc, masterq, mlog>>
      /\ UNCHANGED <<child, runs, client, incidents, epoch, received, skipped, due>>
    BY <1>2 DEF fileVars, childVars, clientVars, histVars
<1>4. /\ pc \in Working /\ pc' \in Working \ {"report"} /\ pc' \in AgentPc
      /\ fd \in Inode /\ fd # None /\ st_size \in Nat /\ now_size \in Nat /\ st_size < now_size
      /\ Len(content[fd]) \in Nat /\ DOMAIN content[fd] = 1 .. Len(content[fd])
    BY <1>1, <1>2, ContentFacts DEF Working, Starting, AgentPc, MonitorInv, EventlogTypeOK
<1>5. PICK data : data = DataRead(st_size, now_size)
    OBVIOUS
<1>6. /\ data \in Seq(Byte)
      /\ Increasing(data)
      /\ \A b \in BytesOf(data) :
            /\ b \in Byte /\ b <= nbytes /\ Ahead(b)
            /\ \E k \in st_size + 1 .. now_size : k <= Len(content[fd]) /\ content[fd][k] = b
      /\ \A k \in st_size + 1 .. now_size :
            k <= Len(content[fd]) => content[fd][k] \in BytesOf(data)
    BY <1>1, <1>4, <1>5, ReadBytes
<1>7. /\ LogOK(alog')
      /\ \A b : Logged(b)' <=> Logged(b) \/ b \in BytesOf(data)
    BY <1>2, <1>3, <1>4, <1>5, <1>6, EventLogged
<1>8. EventlogTypeOK'
    BY <1>1, <1>2, <1>3, <1>4, <1>7 DEF EventlogTypeOK
<1>9. MonitorInv'
    <2>1. fd \notin truncated =>
             /\ now_size <= Len(content[fd])
             /\ \A i \in 1 .. st_size, b \in Byte :
                   content[fd][i] = b => Logged(b) \/ b \in skipped
        BY <1>1, <1>2, <1>4 DEF MonitorInv
    <2>2. ASSUME fd \notin truncated, NEW i \in 1 .. now_size, NEW b \in Byte, content[fd][i] = b
          PROVE  Logged(b)' \/ b \in skipped
        <3>1. CASE i <= st_size
            <4>1. i \in 1 .. st_size
                BY <1>4, <3>1
            <4> QED
                BY <1>7, <2>1, <2>2, <4>1
        <3>2. CASE ~(i <= st_size)
            <4>1. i \in st_size + 1 .. now_size /\ i <= Len(content[fd])
                BY <1>4, <2>1, <2>2, <3>2
            <4> QED
                BY <1>6, <1>7, <2>2, <4>1
        <3> QED
            BY <3>1, <3>2
    <2>3. fd <= ninodes
        BY <1>1, <1>4 DEF MonitorInv
    <2>4. fd' = fd /\ pc' = "stat" /\ st_size' = now_size /\ content'[fd'] = content[fd]
        BY <1>2, <1>3
    <2> QED
        BY <1>3, <1>4, <2>1, <2>2, <2>3, <2>4 DEF MonitorInv
<1>10. ASSUME NEW c \in Byte, Ahead(c)'
       PROVE  Ahead(c) /\ \A b \in BytesOf(data) : b < c
    <2>1. Unread(c)' \/ (path # fd /\ InFile(path, c))
        BY <1>2, <1>3, <1>10 DEF Ahead, InFile
    <2>2. CASE Unread(c)'
        <3>1. PICK i \in DOMAIN content[fd] : content[fd][i] = c /\ i > now_size
            BY <1>2, <1>3, <2>2 DEF Unread
        <3>2. i > st_size
            BY <1>4, <3>1
        <3>3. Ahead(c)
            BY <1>4, <3>1, <3>2 DEF Ahead, Unread, Working
        <3>4. ASSUME NEW b \in BytesOf(data)
              PROVE  b < c
            <4>1. PICK k \in st_size + 1 .. now_size : k <= Len(content[fd]) /\ content[fd][k] = b
                BY <1>6
            <4>2. k \in DOMAIN content[fd] /\ k < i
                BY <1>4, <3>1, <4>1
            <4> QED
                BY <1>1, <1>4, <3>1, <4>1, <4>2 DEF FilesInv
        <3> QED
            BY <3>3, <3>4
    <2>3. CASE path # fd /\ InFile(path, c)
        <3>1. Ahead(c)
            BY <1>4, <2>3 DEF Ahead, Working
        <3>2. ASSUME NEW b \in BytesOf(data)
              PROVE  b < c
            <4>1. PICK k \in st_size + 1 .. now_size : k <= Len(content[fd]) /\ content[fd][k] = b
                BY <1>6
            <4>2. k \in DOMAIN content[fd] /\ b \in Byte
                BY <1>4, <1>6, <4>1
            <4>3. InFile(fd, b)
                BY <1>4, <4>1, <4>2 DEF InFile, BytesOf
            <4> QED
                BY <1>1, <1>4, <2>3, <4>2, <4>3, OldBeforeNew
        <3> QED
            BY <3>1, <3>2
    <2> QED
        BY <2>1, <2>2, <2>3
<1>11. \A b \in due : Left(b)' => Left(b)
    BY <1>3, <1>7 DEF Left
<1>12. \A b : /\ InFile(fd, b) => InFile(fd, b)'
              /\ InFile(path, b) => InFile(path, b)'
    BY <1>2, <1>3 DEF InFile
<1>13. \A b \in due : child = "exited" /\ Left(b)' => InFile(fd, b)' \/ InFile(path, b)'
    BY <1>1, <1>11, <1>12 DEF DueInv
<1>14. ASSUME caller = "exit"
       PROVE  child = "exited" /\ \A b \in due : Left(b)' => Found(b)'
    <2>1. child = "exited" /\ \A b \in due : Left(b) => Found(b)
        BY <1>1, <1>2, <1>14 DEF DueInv, Starting
    <2>2. ASSUME NEW b \in due, Left(b)'
          PROVE  Found(b)'
        <3>1. Found(b) /\ b \notin BytesOf(data)
            BY <1>7, <1>11, <2>1, <2>2 DEF Left
        <3>2. path # fd /\ InFile(path, b)
            BY <1>2, <1>6, <3>1 DEF Found
        <3> QED
            BY <1>2, <1>3, <1>12, <3>2 DEF Found
    <2> QED
        BY <2>1, <2>2
<1> QED
    BY <1>2, <1>4, <1>5, <1>6, <1>8, <1>9, <1>10, <1>13, <1>14, LogStepKeeps
\* The file that lost its name is read to its end, and closed.
LEMMA LogRestKeeps ==
    ASSUME LogInv, LogRest
    PROVE  LogInv'
<1>1. EventlogTypeOK /\ MonitorInv /\ DueInv /\ FilesInv
    BY DEF LogInv
<1>2. /\ pc \in {"gone", "replaced"} /\ fd' = None
      /\ pc' \in {"idle", "flush", "reopen"}
      /\ pc' = "reopen" <=> pc = "replaced"
      /\ caller = "exit" => pc' # "idle"
      /\ alog' = add_event(alog, DataRead(st_size, Len(content[fd])))
      /\ UNCHANGED <<fileVars, inc, masterq, mlog, caller, st_size, now_size>>
      /\ UNCHANGED <<childVars, clientVars, histVars>>
    BY DEF LogRest, log_data, DataRead, AfterPoll
<1>3. /\ UNCHANGED <<content, path, wfd, nbytes, ninodes, truncated, inc, masterq, mlog>>
      /\ UNCHANGED <<child, runs, client, incidents, epoch, received, skipped, due>>
    BY <1>2 DEF fileVars, childVars, clientVars, histVars
<1>4. /\ pc \in Working /\ pc' \in Working \ {"report"} /\ pc' \in AgentPc
      /\ fd \in Inode /\ fd # None /\ path # fd /\ st_size \in Nat
      /\ Len(content[fd]) \in Nat /\ DOMAIN content[fd] = 1 .. Len(content[fd])
    BY <1>1, <1>2, ContentFacts DEF Working, Starting, AgentPc, MonitorInv, EventlogTypeOK
<1>5. PICK data : data = DataRead(st_size, Len(content[fd]))
    OBVIOUS
<1>6. /\ data \in Seq(Byte)
      /\ Increasing(data)
      /\ \A b \in BytesOf(data) :
            /\ b \in Byte /\ b <= nbytes /\ Ahead(b)
            /\ \E k \in st_size + 1 .. Len(content[fd]) :
                  k <= Len(content[fd]) /\ content[fd][k] = b
      /\ \A k \in st_size + 1 .. Len(content[fd]) :
            k <= Len(content[fd]) => content[fd][k] \in BytesOf(data)
    <2>1. PICK n \in Nat : n = Len(content[fd])
        BY <1>4
    <2>2. data = DataRead(st_size, n) /\ st_size \in Nat /\ st_size >= st_size
        BY <1>4, <1>5, <2>1
    <2>3. /\ data \in Seq(Byte)
          /\ Increasing(data)
          /\ \A b \in BytesOf(data) :
                /\ b \in Byte /\ b <= nbytes /\ Ahead(b)
                /\ \E k \in st_size + 1 .. n : k <= Len(content[fd]) /\ content[fd][k] = b
          /\ \A k \in st_size + 1 .. n :
                k <= Len(content[fd]) => content[fd][k] \in BytesOf(data)
        BY <1>1, <1>4, <2>2, ReadBytes, Zenon
    <2> QED
        BY <2>1, <2>3
<1>7. /\ LogOK(alog')
      /\ \A b : Logged(b)' <=> Logged(b) \/ b \in BytesOf(data)
    BY <1>2, <1>3, <1>4, <1>5, <1>6, EventLogged
<1>8. EventlogTypeOK'
    BY <1>1, <1>2, <1>3, <1>4, <1>7 DEF EventlogTypeOK
<1>9. MonitorInv'
    BY <1>2 DEF MonitorInv
<1>10. ASSUME NEW c \in Byte, Ahead(c)'
       PROVE  Ahead(c) /\ \A b \in BytesOf(data) : b < c
    <2>1. InFile(path, c)
        BY <1>2, <1>3, <1>10 DEF Ahead, Unread, InFile
    <2>2. Ahead(c)
        BY <1>4, <2>1 DEF Ahead, Working
    <2>3. ASSUME NEW b \in BytesOf(data)
          PROVE  b < c
        <3>1. PICK k \in st_size + 1 .. Len(content[fd]) :
                  k <= Len(content[fd]) /\ content[fd][k] = b
            BY <1>6
        <3>2. k \in DOMAIN content[fd] /\ b \in Byte
            BY <1>4, <1>6, <3>1
        <3>3. InFile(fd, b)
            BY <1>4, <3>1, <3>2 DEF InFile, BytesOf
        <3> QED
            BY <1>1, <1>4, <2>1, <3>2, <3>3, OldBeforeNew
    <2> QED
        BY <2>2, <2>3
<1>11. \A b \in due : Left(b)' => Left(b) /\ b \notin BytesOf(data)
    BY <1>3, <1>7 DEF Left
<1>12. \A b : InFile(path, b) => InFile(path, b)'
    BY <1>3 DEF InFile
<1>13. ASSUME NEW b \in due, child = "exited", Left(b)'
       PROVE  InFile(path, b)'
    <2>1. InFile(fd, b) \/ InFile(path, b)
        BY <1>1, <1>11, <1>13 DEF DueInv
    <2>2. ~InFile(fd, b)
        <3> SUFFICES ASSUME InFile(fd, b)
                     PROVE  FALSE
            OBVIOUS
        <3>1. PICK i \in st_size + 1 .. Len(content[fd]) : content[fd][i] = b
            BY <1>1, <1>2, <1>4, <1>11, <1>13, LeftIsUnread
        <3>2. i <= Len(content[fd])
            BY <1>4, <3>1
        <3>3. b \in BytesOf(data)
            BY <1>6, <3>1, <3>2
        <3> QED
            BY <1>11, <1>13, <3>3
    <2> QED
        BY <1>12, <2>1, <2>2
<1>14. ASSUME caller = "exit"
       PROVE  child = "exited" /\ \A b \in due : Left(b)' => Found(b)'
    <2>1. child = "exited" /\ \A b \in due : Left(b) => Found(b)
        BY <1>1, <1>2, <1>14 DEF DueInv, Starting
    <2>2. ASSUME NEW b \in due, Left(b)'
          PROVE  Found(b)'
        <3>1. Found(b)
            BY <1>11, <2>1, <2>2
        <3>2. pc = "replaced" /\ InFile(path, b)
            BY <1>2, <3>1 DEF Found
        <3> QED
            BY <1>2, <1>12, <3>2 DEF Found
    <2> QED
        BY <2>1, <2>2
<1> QED
    BY <1>2, <1>4, <1>5, <1>6, <1>8, <1>9, <1>10, <1>13, <1>14, LogStepKeeps

\* A file just opened is read from its start.
LEMMA LogFreshKeeps ==
    ASSUME LogInv, LogFresh
    PROVE  LogInv'
<1>1. EventlogTypeOK /\ MonitorInv /\ DueInv /\ FilesInv
    BY DEF LogInv
<1>2. /\ pc = "fresh" /\ pc' \in {"idle", "flush"}
      /\ caller = "exit" => pc' # "idle"
      /\ alog' = add_event(alog, DataRead(0, st_size))
      /\ UNCHANGED <<fileVars, inc, masterq, mlog, caller, fd, st_size, now_size>>
      /\ UNCHANGED <<childVars, clientVars, histVars>>
    BY DEF LogFresh, log_data, DataRead, AfterPoll, monVars
<1>3. /\ UNCHANGED <<content, path, wfd, nbytes, ninodes, truncated, inc, masterq, mlog>>
      /\ UNCHANGED <<child, runs, client, incidents, epoch, received, skipped, due>>
    BY <1>2 DEF fileVars, childVars, clientVars, histVars
<1>4. /\ pc \in Working /\ pc' \in Working \ {"report"} /\ pc' \in AgentPc
      /\ fd \in Inode /\ fd # None /\ st_size \in Nat
      /\ Len(content[fd]) \in Nat /\ DOMAIN content[fd] = 1 .. Len(content[fd])
    BY <1>1, <1>2, ContentFacts DEF Working, Starting, AgentPc, MonitorInv, EventlogTypeOK
<1>5. PICK data : data = DataRead(0, st_size)
    OBVIOUS
<1>6. /\ data \in Seq(Byte)
      /\ Increasing(data)
      /\ \A b \in BytesOf(data) :
            /\ b \in Byte /\ b <= nbytes /\ Ahead(b)
            /\ \E k \in 0 + 1 .. st_size : k <= Len(content[fd]) /\ content[fd][k] = b
      /\ \A k \in 0 + 1 .. st_size :
            k <= Len(content[fd]) => content[fd][k] \in BytesOf(data)
    BY <1>1, <1>2, <1>4, <1>5, ReadBytes
<1>7. /\ LogOK(alog')
      /\ \A b : Logged(b)' <=> Logged(b) \/ b \in BytesOf(data)
    BY <1>2, <1>3, <1>4, <1>5, <1>6, EventLogged
<1>8. EventlogTypeOK'
    BY <1>1, <1>2, <1>3, <1>4, <1>7 DEF EventlogTypeOK
<1>9. MonitorInv'
    <2>1. fd \notin truncated => st_size <= Len(content[fd])
        BY <1>1, <1>4 DEF MonitorInv
    <2>2. ASSUME fd \notin truncated, NEW i \in 1 .. st_size, NEW b \in Byte, content[fd][i] = b
          PROVE  Logged(b)'
        <3>1. i \in 0 + 1 .. st_size /\ i <= Len(content[fd])
            BY <1>4, <2>1, <2>2
        <3> QED
            BY <1>6, <1>7, <2>2, <3>1
    <2>3. fd' = fd /\ st_size' = st_size /\ content'[fd'] = content[fd] /\ fd <= ninodes'
        BY <1>1, <1>2, <1>3, <1>4 DEF MonitorInv
    <2> QED
        BY <1>2, <1>3, <1>4, <2>1, <2>2, <2>3 DEF MonitorInv
<1>10. ASSUME NEW c \in Byte, Ahead(c)'
       PROVE  Ahead(c) /\ \A b \in BytesOf(data) : b < c
    <2>1. Unread(c)' \/ (path # fd /\ InFile(path, c))
        BY <1>2, <1>3, <1>10 DEF Ahead, InFile
    <2>2. CASE Unread(c)'
        <3>1. PICK i \in DOMAIN content[fd] : content[fd][i] = c /\ i > st_size
            BY <1>2, <1>3, <2>2 DEF Unread
        <3>2. Ahead(c)
            BY <1>2, <1>4, <3>1 DEF Ahead, Unread, Working
        <3>3. ASSUME NEW b \in BytesOf(data)
              PROVE  b < c
            <4>1. PICK k \in 0 + 1 .. st_size : k <= Len(content[fd]) /\ content[fd][k] = b
                BY <1>6
            <4>2. k \in DOMAIN content[fd] /\ k < i
                BY <1>4, <3>1, <4>1
            <4> QED
                BY <1>1, <1>4, <3>1, <4>1, <4>2 DEF FilesInv
        <3> QED
            BY <3>2, <3>3
    <2>3. CASE path # fd /\ InFile(path, c)
        <3>1. Ahead(c)
            BY <1>4, <2>3 DEF Ahead, Working
        <3>2. ASSUME NEW b \in BytesOf(data)
              PROVE  b < c
            <4>1. PICK k \in 0 + 1 .. st_size : k <= Len(content[fd]) /\ content[fd][k] = b
                BY <1>6
            <4>2. k \in DOMAIN content[fd] /\ b \in Byte
                BY <1>4, <1>6, <4>1
            <4>3. InFile(fd, b)
                BY <1>4, <4>1, <4>2 DEF InFile, BytesOf
            <4> QED
                BY <1>1, <1>4, <2>3, <4>2, <4>3, OldBeforeNew
        <3> QED
            BY <3>1, <3>2
    <2> QED
        BY <2>1, <2>2, <2>3
<1>11. \A b \in due : Left(b)' => Left(b) /\ b \notin BytesOf(data)
    BY <1>3, <1>7 DEF Left
<1>12. \A b : /\ InFile(fd, b) => InFile(fd, b)'
              /\ InFile(path, b) => InFile(path, b)'
    BY <1>2, <1>3 DEF InFile
<1>13. \A b \in due : child = "exited" /\ Left(b)' => InFile(fd, b)' \/ InFile(path, b)'
    BY <1>1, <1>11, <1>12 DEF DueInv
<1>14. ASSUME caller = "exit"
       PROVE  child = "exited" /\ \A b \in due : ~Left(b)'
    <2>1. child = "exited" /\ \A b \in due : Left(b) => Found(b)
        BY <1>1, <1>2, <1>14 DEF DueInv, Starting
    <2>2. ASSUME NEW b \in due, Left(b)'
          PROVE  FALSE
        <3>1. Found(b) /\ b \notin BytesOf(data)
            BY <1>11, <2>1, <2>2
        <3>2. PICK i \in 1 .. st_size : i <= Len(content[fd]) /\ content[fd][i] = b
            BY <1>2, <3>1 DEF Found
        <3> QED
            BY <1>6, <3>1, <3>2
    <2> QED
        BY <2>1, <2>2
<1> QED
    BY <1>2, <1>4, <1>5, <1>6, <1>8, <1>9, <1>10, <1>13, <1>14, LogStepKeeps
-----------------------------------------------------------------------------
(* Steps of the agent: push, report, start and end *)

\* The agent's log is emptied; an event on its way stays.
LEMMA EmptiedLog ==
    ASSUME EventlogTypeOK, SentInv, alog'.events = <<>>, UNCHANGED <<received, nbytes>>,
           AddFirst' => AddFirst /\ masterq'[1] = masterq[1]
    PROVE  /\ SentInv'
           /\ \A b : /\ IsReceived(b)' <=> IsReceived(b)
                     /\ OnTheWay(b)' => OnTheWay(b)
                     /\ ~IsPending(b)'
                     /\ Logged(b)' => Logged(b)
<1>1. DOMAIN alog'.events = {}
    OBVIOUS
<1>2. \A b : /\ IsReceived(b)' <=> IsReceived(b)
             /\ OnTheWay(b)' => OnTheWay(b)
             /\ ~IsPending(b)'
             /\ Logged(b)' => Logged(b)
    BY <1>1 DEF IsReceived, OnTheWay, IsPending, Logged
<1>3. Increasing(received)'
    BY DEF SentInv, Increasing
<1>4. AddFirst' => Increasing(masterq'[1].event.data)
    BY DEF SentInv
<1>5. /\ \A b, c \in Byte :
            /\ IsReceived(b)' /\ (OnTheWay(c)' \/ IsPending(c)') => b < c
            /\ OnTheWay(b)' /\ IsPending(c)' => b < c
      /\ \A b \in Byte : Logged(b)' => b <= nbytes'
    BY <1>2 DEF SentInv
<1> QED
    BY <1>1, <1>2, <1>3, <1>4, <1>5 DEF SentInv

\* The agent is not up, so nothing is open and nothing is due.
LEMMA StartStepKeeps ==
    ASSUME LogInv, EventlogTypeOK', QueueInv', NumberInv', ShownInv',
           pc' \in Starting, fd' = None, child' = "none", due' = {},
           alog' = ni_eventlog_new, UNCHANGED fileVars, UNCHANGED received,
           AddFirst' => AddFirst /\ masterq'[1] = masterq[1]
    PROVE  LogInv'
<1>1. EventlogTypeOK /\ FilesInv /\ SentInv
    BY DEF LogInv
<1>2. FilesInv'
    BY <1>1, FilesFrame
<1>3. SentInv'
    <2>1. alog'.events = <<>> /\ UNCHANGED nbytes
        BY NewLog DEF fileVars
    <2> QED
        BY <1>1, <2>1, EmptiedLog
<1>4. AheadInv'
    BY DEF AheadInv, Ahead
<1>5. MonitorInv' /\ DueInv'
    BY DEF MonitorInv, DueInv, Starting
<1> QED
    BY <1>2, <1>3, <1>4, <1>5 DEF LogInv

\* The agent dies: nothing is open, pending or due; an event on its way stays.
LEMMA AgentCrashKeeps ==
    ASSUME LogInv, AgentCrash
    PROVE  LogInv'
<1>1. EventlogTypeOK /\ QueueInv /\ NumberInv /\ ShownInv
    BY DEF LogInv
<1>2. /\ pc' = "down" /\ fd' = None /\ alog' = ni_eventlog_new /\ child' = "none" /\ due' = {}
      /\ incidents < MaxIncidents /\ incidents' = incidents + 1
      /\ UNCHANGED <<fileVars, inc, caller, st_size, now_size, masterq, mlog, runs>>
      /\ UNCHANGED <<client, epoch, received, skipped>>
    BY DEF AgentCrash, Incident
<1>3. /\ pc' \in Starting /\ pc' \in AgentPc /\ pc' \notin Working
      /\ pc' \notin {"registering", "setup", "adding"}
    BY <1>2 DEF Starting, Working, AgentPc
<1>4. EventlogTypeOK'
    <2>1. incidents' \in 0 .. MaxIncidents
        BY <1>1, <1>2, Constants DEF EventlogTypeOK
    <2>2. LogOK(alog')
        BY <1>2, NewLog
    <2> QED
        BY <1>1, <1>2, <1>3, <2>1, <2>2 DEF EventlogTypeOK, fileVars
<1>5. QueueInv'
    BY <1>1, <1>2, <1>3 DEF QueueInv
<1>6. AddFirst' <=> AddFirst
    BY <1>2 DEF AddFirst
<1>7. NumberInv'
    <2>1. \A i \in DOMAIN alog'.events :
              alog'.events[i].sequence + Len(alog'.events) + 1 = alog'.seqno + i
        BY <1>2, NewLog
    <2> QED
        BY <1>1, <1>2, <1>3, <1>6, <2>1 DEF NumberInv, Follows
<1>8. ShownInv'
    BY <1>1, <1>2, <1>3, <1>6 DEF ShownInv, Reading, PendingSeqs
<1> QED
    BY <1>2, <1>3, <1>4, <1>5, <1>6, <1>7, <1>8, StartStepKeeps

\* The new agent's announcement goes behind what its predecessor has sent.
LEMMA AgentStartKeeps ==
    ASSUME LogInv, AgentStart
    PROVE  LogInv'
<1>1. EventlogTypeOK /\ QueueInv /\ NumberInv /\ ShownInv
    BY DEF LogInv
<1>2. /\ pc = "down" /\ inc' = inc + 1 /\ pc' = "registering"
      /\ masterq' = Append(masterq, Register(inc + 1))
      /\ UNCHANGED <<fileVars, caller, fd, st_size, now_size, alog, mlog, child, runs>>
      /\ UNCHANGED <<client, incidents, epoch, received, skipped, due>>
    BY DEF AgentStart, monVars, childVars, clientVars, histVars
<1>3. /\ pc' \in Starting /\ pc' \in AgentPc /\ pc' \notin Working
      /\ pc' \notin {"down", "setup", "adding"} /\ pc' = "registering"
    BY <1>2 DEF Starting, Working, AgentPc
<1>4. fd = None /\ child = "none" /\ due = {} /\ alog = ni_eventlog_new
    BY <1>1, <1>2 DEF QueueInv, Starting
<1>5. PICK m : m = Register(inc + 1)
    OBVIOUS
<1>6. inc \in Nat /\ inc + 1 \in Nat /\ m \in Message /\ m.type = "register" /\ m.inc = inc + 1
    BY <1>1, <1>5 DEF EventlogTypeOK, Register, Message
<1>7. PICK n \in Nat : n = Len(masterq)
    BY <1>1, QueueFacts
<1>8. /\ masterq' \in Seq(Message)
      /\ Len(masterq') = n + 1 /\ DOMAIN masterq = 1 .. n /\ DOMAIN masterq' = 1 .. n + 1
      /\ \A i \in 1 .. n : masterq'[i] = masterq[i]
      /\ masterq'[n + 1] = m
    BY <1>1, <1>2, <1>5, <1>6, <1>7, QueueFacts, Appended
<1>9. EventlogTypeOK'
    BY <1>1, <1>2, <1>3, <1>6, <1>8 DEF EventlogTypeOK, fileVars
<1>10. \A i \in 1 .. n : masterq[i].inc \in Nat /\ masterq[i].inc <= inc
    BY <1>1, <1>8, QueueFacts, MessageFields DEF QueueInv
<1>11. QueueInv'
    <2>1. \A i \in DOMAIN masterq' :
              masterq'[i].inc <= inc' /\ (i # 1 => masterq'[i].type = "register")
        <3> SUFFICES ASSUME NEW i \in 1 .. n + 1
                     PROVE  masterq'[i].inc <= inc' /\ (i # 1 => masterq'[i].type = "register")
            BY <1>8
        <3>1. CASE i = n + 1
            BY <1>2, <1>6, <1>8, <3>1
        <3>2. CASE i # n + 1
            <4>1. i \in 1 .. n
                BY <3>2
            <4>2. masterq[i].inc <= inc + 1
                BY <1>6, <1>10, <4>1
            <4> QED
                BY <1>1, <1>2, <1>8, <4>1, <4>2 DEF QueueInv
        <3> QED
            BY <3>1, <3>2
    <2>2. \A i \in DOMAIN masterq' : i # Len(masterq') => masterq'[i].inc < inc'
        <3> SUFFICES ASSUME NEW i \in 1 .. n + 1, i # n + 1
                     PROVE  masterq'[i].inc < inc'
            BY <1>8
        <3>1. i \in 1 .. n
            OBVIOUS
        <3>2. masterq[i].inc < inc + 1
            BY <1>6, <1>10, <3>1
        <3> QED
            BY <1>2, <1>8, <3>1, <3>2
    <2>3. masterq' # <<>> /\ masterq'[Len(masterq')].type = "register"
          /\ masterq'[Len(masterq')].inc = inc'
        BY <1>2, <1>6, <1>8
    <2> QED
        BY <1>2, <1>3, <1>4, <2>1, <2>2, <2>3 DEF QueueInv
<1>12. AddFirst' => AddFirst /\ masterq'[1] = masterq[1]
    <2> SUFFICES ASSUME AddFirst'
                 PROVE  AddFirst /\ masterq'[1] = masterq[1]
        OBVIOUS
    <2>1. CASE n = 0
        BY <1>6, <1>8, <2>1 DEF AddFirst
    <2>2. CASE n # 0
        BY <1>7, <1>8, <2>2 DEF AddFirst
    <2> QED
        BY <2>1, <2>2
<1>13. NumberInv'
    BY <1>1, <1>2, <1>3, <1>12 DEF NumberInv, Follows
<1>14. ShownInv'
    BY <1>1, <1>2, <1>3, <1>12 DEF ShownInv, Reading, PendingSeqs
<1> QED
    BY <1>2, <1>3, <1>4, <1>9, <1>11, <1>12, <1>13, <1>14, StartStepKeeps
\* The monitor starts at the end of the file.
LEMMA InitMonitorsKeeps ==
    ASSUME LogInv, InitMonitors
    PROVE  LogInv'
<1>1. /\ EventlogTypeOK /\ QueueInv /\ NumberInv /\ ShownInv
      /\ FilesInv /\ SentInv /\ AheadInv /\ MonitorInv /\ DueInv
    BY DEF LogInv
<1>2. /\ pc = "setup" /\ pc' = "idle" /\ alog' = ni_eventlog_new
      /\ fd' = path /\ st_size' = IF path = None THEN st_size ELSE Len(content[path])
      /\ skipped' = skipped \cup (IF path = None THEN {} ELSE BytesOf(content[path]))
      /\ UNCHANGED <<fileVars, inc, caller, now_size, masterq, mlog, childVars, clientVars>>
      /\ UNCHANGED <<content, path, wfd, nbytes, ninodes, truncated>>
      /\ UNCHANGED <<child, runs, client, incidents, epoch, received, due>>
    BY DEF InitMonitors, filemon_open, fileVars, childVars, clientVars
<1>3. /\ pc \in Starting /\ pc' \in AgentPc /\ pc' \in Working /\ pc' \notin Starting
      /\ pc' \notin {"down", "registering", "adding", "setup"}
    BY <1>2 DEF Starting, Working, AgentPc
<1>4. /\ masterq = <<>> /\ alog = ni_eventlog_new /\ alog' = alog
      /\ child = "none" /\ due = {} /\ fd = None
    BY <1>1, <1>2 DEF QueueInv, Starting
<1>5. ~AddFirst /\ ~AddFirst'
    BY <1>2, <1>4 DEF AddFirst
<1>6. EventlogTypeOK'
    <2>1. /\ fd' \in Inode \cup {None} /\ st_size' \in Nat
          /\ skipped' \subseteq Byte
        BY <1>1, <1>2, ContentFacts DEF EventlogTypeOK
    <2> QED
        BY <1>1, <1>2, <1>3, <1>4, <2>1 DEF EventlogTypeOK
<1>7. QueueInv'
    BY <1>1, <1>2, <1>3, <1>4 DEF QueueInv
<1>8. mlog # None => mlog.events = <<>>
    BY <1>1, <1>2 DEF NumberInv
<1>9. NumberInv'
    <2>1. Follows(NextPushed)'
        BY <1>2, <1>8 DEF Follows
    <2>2. \A i \in DOMAIN alog'.events :
              alog'.events[i].sequence + Len(alog'.events) + 1 = alog'.seqno + i
        BY <1>1, <1>4 DEF NumberInv
    <2>3. mlog' # None => \A i, j \in DOMAIN mlog'.events :
              mlog'.events[i].sequence + j = mlog'.events[j].sequence + i
        BY <1>1, <1>2 DEF NumberInv
    <2> QED
        BY <1>3, <1>5, <2>1, <2>2, <2>3 DEF NumberInv
<1>10. ShownInv'
    <2>1. ~Reading
        BY <1>1, <1>2 DEF ShownInv
    <2> QED
        BY <1>1, <1>2, <2>1 DEF ShownInv, Reading
<1>11. FilesInv'
    BY <1>1, <1>2, FilesFrame
<1>12. SentInv'
    <2>1. nbytes <= nbytes'
        BY <1>1, <1>2, Constants DEF EventlogTypeOK
    <2> QED
        BY <1>1, <1>2, <1>4, <1>6, <2>1, SentFrame
<1>13. AheadInv'
    <2>1. ASSUME NEW c \in Byte, Ahead(c)'
          PROVE  FALSE
        <3>1. Unread(c)'
            BY <1>2, <2>1 DEF Ahead
        <3>2. path # None /\ path \in Inode
            BY <1>1, <1>2, <3>1 DEF Unread, EventlogTypeOK
        <3>3. PICK i \in DOMAIN content[path] : i > Len(content[path])
            BY <1>2, <3>1, <3>2 DEF Unread
        <3> QED
            BY <1>1, <3>2, <3>3, ContentFacts
    <2> QED
        BY <2>1 DEF AheadInv
<1>14. MonitorInv'
    <2>1. CASE path = None
        BY <1>2, <2>1 DEF MonitorInv
    <2>2. CASE path # None
        <3>1. path \in Inode /\ path <= ninodes /\ Len(content[path]) \in Nat
            BY <1>1, <2>2, ContentFacts, Constants DEF FilesInv, EventlogTypeOK
        <3>2. \A i \in 1 .. Len(content[path]) : content[path][i] \in skipped'
            BY <1>1, <1>2, <2>2, <3>1, ContentFacts DEF BytesOf
        <3>3. st_size' <= Len(content'[fd']) /\ fd' <= ninodes'
            BY <1>2, <2>2, <3>1
        <3>4. \A i \in 1 .. st_size', b \in Byte : content'[fd'][i] = b => b \in skipped'
            BY <1>2, <2>2, <3>2
        <3> QED
            BY <1>2, <3>3, <3>4 DEF MonitorInv
    <2> QED
        BY <2>1, <2>2
<1>15. DueInv'
    BY <1>2, <1>4 DEF DueInv
<1> QED
    BY <1>6, <1>7, <1>9, <1>10, <1>11, <1>12, <1>13, <1>14, <1>15 DEF LogInv

\* When nothing is pending, everything logged is at the master: the exit may be
\* reported (ni_testbus_agent_eventlog_flush).
LEMMA FlushDoneKeeps ==
    ASSUME LogInv, FlushDone
    PROVE  LogInv'
<1>1. /\ EventlogTypeOK /\ QueueInv /\ NumberInv /\ ShownInv
      /\ FilesInv /\ SentInv /\ AheadInv /\ MonitorInv /\ DueInv
    BY DEF LogInv
<1>2. /\ pc = "flush" /\ pending_count(alog) = 0 /\ alog' = ni_eventlog_flush(alog)
      /\ pc' = IF caller = "exit" THEN "report" ELSE "idle"
      /\ UNCHANGED <<fileVars, inc, masterq, mlog>>
      /\ UNCHANGED <<caller, fd, st_size, now_size>>
      /\ UNCHANGED <<content, path, wfd, nbytes, ninodes, truncated>>
      /\ UNCHANGED <<child, runs, client, incidents, epoch, received, skipped, due>>
    BY DEF FlushDone, fileVars, monVars, childVars, clientVars, histVars
<1>3. pc \in Working /\ pc' \in Working /\ pc' \in AgentPc /\ pc' \in {"report", "idle"}
    BY <1>2 DEF Working, Starting, AgentPc
<1>4. LogOK(alog)
    BY <1>1 DEF EventlogTypeOK
<1>5. /\ LogOK(alog') /\ alog'.consumed = 0 /\ alog'.seqno = alog.seqno
      /\ alog'.events = <<>>
    BY <1>2, <1>4, FlushedLog
<1>6. /\ alog.consumed \in Nat /\ alog.seqno \in Nat /\ Len(alog.events) \in Nat
      /\ alog.consumed = Len(alog.events)
      /\ DOMAIN alog.events = 1 .. Len(alog.events)
    BY <1>2, <1>4, LogFields DEF pending_count
<1>7. NextPushed' = NextPushed
    <2>1. NextPushed = alog.seqno - 0
        BY <1>2 DEF NextPushed
    <2>2. NextPushed' = alog'.seqno - (0 - 0)
        BY <1>5 DEF NextPushed, pending_count
    <2> QED
        BY <1>5, <1>6, <2>1, <2>2
<1>8. QueueInv' /\ NumberInv' /\ ShownInv'
    BY <1>1, <1>2, <1>3, <1>5, <1>7, WorkingFrame
<1>9. EventlogTypeOK'
    BY <1>1, <1>2, <1>3, <1>5 DEF EventlogTypeOK
<1>10. masterq = <<>> /\ ~AddFirst /\ ~AddFirst'
    BY <1>1, <1>2 DEF QueueInv, AddFirst
<1>11. /\ SentInv'
       /\ \A b : /\ IsReceived(b)' <=> IsReceived(b)
                 /\ Logged(b)' => Logged(b)
    BY <1>1, <1>2, <1>5, <1>10, EmptiedLog
<1>12. \A b : Logged(b) => IsReceived(b) /\ Logged(b)'
    <2>1. \A b : ~IsPending(b)
        BY <1>6 DEF IsPending, PendingIn
    <2>2. \A b : ~OnTheWay(b)
        BY <1>10 DEF OnTheWay
    <2> QED
        BY <1>11, <2>1, <2>2 DEF Logged
<1>13. FilesInv'
    BY <1>1, <1>2, FilesFrame
<1>14. AheadInv'
    <2>1. \A c \in Byte : Ahead(c)' => Ahead(c)
        BY <1>2, <1>3 DEF Ahead, Unread, InFile, Working
    <2> QED
        BY <1>1, <1>11, <2>1 DEF AheadInv
<1>15. MonitorInv'
    BY <1>1, <1>2, <1>3, <1>12 DEF MonitorInv
<1>16. DueInv'
    <2>1. \A b : Left(b)' <=> Left(b)
        BY <1>2, <1>11, <1>12 DEF Left
    <2>2. \A b : /\ InFile(fd, b)' <=> InFile(fd, b)
                 /\ InFile(path, b)' <=> InFile(path, b)
        BY <1>2 DEF InFile
    <2>3. caller = "exit" => child = "exited" /\ \A b \in due : IsReceived(b)
        <3> SUFFICES ASSUME caller = "exit"
                     PROVE  child = "exited" /\ \A b \in due : IsReceived(b)
            OBVIOUS
        <3>1. child = "exited" /\ \A b \in due : Left(b) => Found(b)
            BY <1>1, <1>2 DEF DueInv, Starting
        <3>2. \A b : ~Found(b)
            BY <1>2 DEF Found
        <3> QED
            BY <1>12, <3>1, <3>2 DEF Left
    <2>4. /\ due' \cap skipped' = {}
          /\ \A b \in due' : b <= nbytes'
          /\ \A f \in truncated' : due' \cap BytesOf(content'[f]) = {}
          /\ child' \in {"none", "running"} => due' = {}
          /\ child' = "exited" => \A b \in due' : Left(b)' => InFile(fd, b)' \/ InFile(path, b)'
          /\ child' = "reported" => \A b \in due' : IsReceived(b)'
        BY <1>1, <1>2, <1>11, <2>1, <2>2 DEF DueInv
    <2> QED
        BY <1>2, <1>3, <1>11, <2>3, <2>4 DEF DueInv
<1> QED
    BY <1>8, <1>9, <1>11, <1>13, <1>14, <1>15, <1>16 DEF LogInv
\* A step of the process leaves the monitor and the logs alone.
LEMMA ChildStepKeeps ==
    ASSUME LogInv, EventlogTypeOK', DueInv', pc \notin Starting,
           pc' = pc \/ (pc = "report" /\ pc' = "idle"),
           UNCHANGED <<fileVars, inc, monVars, alog, masterq, mlog>>,
           UNCHANGED <<clientVars, epoch, received, skipped>>
    PROVE  LogInv'
<1>1. /\ EventlogTypeOK /\ QueueInv /\ NumberInv /\ ShownInv
      /\ FilesInv /\ SentInv /\ AheadInv /\ MonitorInv
    BY DEF LogInv
<1>2. /\ UNCHANGED <<content, path, wfd, nbytes, ninodes, truncated>>
      /\ UNCHANGED <<caller, fd, st_size, now_size, client, incidents>>
    BY DEF fileVars, monVars, clientVars
<1>3. QueueInv' /\ NumberInv' /\ ShownInv'
    <2>1. NextPushed' = NextPushed
        BY DEF NextPushed, pending_count
    <2>2. CASE pc' = pc
        <3>1. QueueInv'
            BY <1>1, <2>2 DEF QueueInv
        <3>2. NumberInv'
            BY <1>1, <2>1, <2>2 DEF NumberInv, AddFirst, Follows
        <3>3. ShownInv'
            BY <1>1, <1>2, <2>1, <2>2 DEF ShownInv, Reading, AddFirst, PendingSeqs
        <3> QED
            BY <3>1, <3>2, <3>3
    <2>3. CASE pc = "report" /\ pc' = "idle"
        <3>1. pc \in Working /\ pc' \in Working
            BY <2>3 DEF Working, Starting, AgentPc
        <3>2. \A i \in DOMAIN alog'.events :
                  alog'.events[i].sequence + Len(alog'.events) + 1 = alog'.seqno + i
            BY <1>1 DEF NumberInv
        <3> QED
            BY <1>1, <1>2, <2>1, <3>1, <3>2, WorkingFrame
    <2> QED
        BY <2>2, <2>3
<1>4. FilesInv'
    BY <1>1, FilesFrame
<1>5. SentInv'
    <2>1. nbytes <= nbytes'
        BY <1>1, <1>2, Constants DEF EventlogTypeOK
    <2> QED
        BY <1>1, <2>1, SentFrame
<1>6. \A b : Logged(b)' <=> Logged(b)
    BY LoggedFrame
<1>7. AheadInv'
    <2>1. \A c \in Byte : Ahead(c)' => Ahead(c)
        BY <1>2 DEF Ahead, Unread, InFile, Starting
    <2> QED
        BY <1>1, <1>6, <2>1 DEF AheadInv
<1>8. MonitorInv'
    BY <1>1, <1>2, <1>6 DEF MonitorInv
<1> QED
    BY <1>3, <1>4, <1>5, <1>7, <1>8 DEF LogInv

\* A process that starts owes nothing.
LEMMA StartProcessKeeps ==
    ASSUME LogInv, StartProcess
    PROVE  LogInv'
<1>1. EventlogTypeOK /\ DueInv
    BY DEF LogInv
<1>2. /\ pc \notin Starting /\ child \in {"none", "reported"} /\ runs < MaxRuns
      /\ child' = "running" /\ runs' = runs + 1 /\ due' = {}
      /\ UNCHANGED <<fileVars, inc, pc, monVars, alog, masterq, mlog>>
      /\ UNCHANGED <<clientVars, epoch, received, skipped>>
      /\ UNCHANGED <<content, path, wfd, nbytes, ninodes, truncated>>
      /\ UNCHANGED <<caller, fd, st_size, now_size, client, incidents>>
    BY DEF StartProcess, Starting, fileVars, monVars, clientVars
<1>3. EventlogTypeOK'
    <2>1. runs' \in 0 .. MaxRuns
        BY <1>1, <1>2, Constants DEF EventlogTypeOK
    <2> QED
        BY <1>1, <1>2, <2>1 DEF EventlogTypeOK
<1>4. DueInv'
    <2>1. ~(caller = "exit" /\ pc \notin Starting \cup {"idle"})
        BY <1>1, <1>2 DEF DueInv
    <2>2. pc # "report"
        BY <1>1, <2>1 DEF DueInv, Starting
    <2> HIDE DEF Starting
    <2> QED
        BY <1>2, <2>1, <2>2 DEF DueInv
<1> QED
    BY <1>2, <1>3, <1>4, ChildStepKeeps

\* What is in the log file when the process ends is in the file with the name.
LEMMA ProcessExitKeeps ==
    ASSUME LogInv, ProcessExit
    PROVE  LogInv'
<1>1. EventlogTypeOK /\ DueInv /\ QueueInv /\ FilesInv
    BY DEF LogInv
<1>2. /\ child = "running" /\ child' = "exited"
      /\ due' = IF path = None \/ path \in truncated THEN {}
                ELSE BytesOf(content[path]) \ skipped
      /\ UNCHANGED <<fileVars, inc, pc, monVars, alog, masterq, mlog, runs>>
      /\ UNCHANGED <<clientVars, epoch, received, skipped>>
      /\ UNCHANGED <<content, path, wfd, nbytes, ninodes, truncated>>
      /\ UNCHANGED <<caller, fd, st_size, now_size, client, incidents>>
    BY DEF ProcessExit, fileVars, monVars, clientVars
<1>3. pc \notin Starting
    BY <1>1, <1>2 DEF QueueInv
<1>4. /\ due' \subseteq Byte /\ due' \cap skipped = {}
      /\ \A b \in due' : path # None /\ path \in Inode /\ path \notin truncated /\ InFile(path, b)
    BY <1>1, <1>2, ContentFacts DEF EventlogTypeOK, InFile
<1>5. EventlogTypeOK'
    BY <1>1, <1>2, <1>4 DEF EventlogTypeOK
<1>6. DueInv'
    <2>1. ~(caller = "exit" /\ pc \notin Starting \cup {"idle"})
        BY <1>1, <1>2 DEF DueInv
    <2>2. pc # "report"
        BY <1>1, <2>1 DEF DueInv, Starting
    <2>3. \A b \in due' : b <= nbytes'
        BY <1>1, <1>2, <1>4 DEF FilesInv, InFile, BytesOf
    <2>4. \A f \in truncated' : due' \cap BytesOf(content'[f]) = {}
        <3> SUFFICES ASSUME NEW f \in truncated, NEW b \in due', b \in BytesOf(content[f])
                     PROVE  FALSE
            BY <1>2
        <3>1. f \in Inode /\ b \in Byte /\ b \in Nat
            BY <1>1, <1>4, Constants DEF EventlogTypeOK, Byte
        <3>2. f # path /\ InFile(f, b) /\ InFile(path, b)
            BY <1>1, <1>4, <3>1, ContentFacts DEF InFile
        <3>3. b < b
            BY <1>1, <3>1, <3>2, OldBeforeNew
        <3> QED
            BY <3>1, <3>3
    <2>5. \A b \in due' : InFile(path, b)'
        BY <1>2, <1>4 DEF InFile
    <2> HIDE DEF Starting
    <2> QED
        BY <1>2, <1>4, <2>1, <2>2, <2>3, <2>4, <2>5 DEF DueInv
<1> QED
    BY <1>2, <1>3, <1>5, <1>6, ChildStepKeeps

\* The report follows the flush.
LEMMA ReportExitKeeps ==
    ASSUME LogInv, ReportExit
    PROVE  LogInv'
<1>1. EventlogTypeOK /\ DueInv
    BY DEF LogInv
<1>2. /\ pc = "report" /\ pc' = "idle" /\ child' = "reported"
      /\ UNCHANGED <<fileVars, inc, monVars, alog, masterq, mlog, runs>>
      /\ UNCHANGED <<clientVars, epoch, received, skipped, due>>
      /\ UNCHANGED <<content, path, wfd, nbytes, ninodes, truncated>>
      /\ UNCHANGED <<caller, fd, st_size, now_size, client, incidents>>
    BY DEF ReportExit, fileVars, monVars, clientVars, histVars
<1>3. pc \notin Starting /\ pc' \in AgentPc
    BY <1>2 DEF Starting, AgentPc
<1>4. EventlogTypeOK'
    BY <1>1, <1>2, <1>3 DEF EventlogTypeOK
<1>5. DueInv'
    <2>1. \A b : IsReceived(b)' <=> IsReceived(b)
        BY <1>2, LoggedFrame
    <2> QED
        BY <1>1, <1>2, <2>1 DEF DueInv
<1> QED
    BY <1>2, <1>3, <1>4, <1>5, ChildStepKeeps

\* The event that is pushed is the first that is pending.
LEMMA PushEventKeeps ==
    ASSUME LogInv, PushEvent
    PROVE  LogInv'
<1>1. /\ EventlogTypeOK /\ QueueInv /\ NumberInv /\ ShownInv
      /\ FilesInv /\ SentInv /\ AheadInv /\ MonitorInv /\ DueInv
    BY DEF LogInv
<1>2. PICK m : m = [type |-> "add", inc |-> inc, event |-> alog.events[alog.consumed + 1]]
    OBVIOUS
<1>3. /\ pc = "flush" /\ pending_count(alog) > 0 /\ pc' = "adding"
      /\ alog' = [alog EXCEPT !.consumed = @ + 1]
      /\ masterq' = Append(masterq, m)
      /\ UNCHANGED <<fileVars, inc, mlog>>
      /\ UNCHANGED <<caller, fd, st_size, now_size>>
      /\ UNCHANGED <<content, path, wfd, nbytes, ninodes, truncated>>
      /\ UNCHANGED <<child, runs, client, incidents, epoch, received, skipped, due>>
    BY <1>2 DEF PushEvent, fileVars, monVars, childVars, clientVars, histVars
<1>4. /\ pc \in Working /\ pc' \notin Working /\ pc' \in AgentPc
      /\ pc \notin Starting /\ pc' \notin Starting
      /\ masterq = <<>> /\ ~AddFirst
    BY <1>1, <1>3 DEF Working, Starting, AgentPc, QueueInv, AddFirst
<1>5. LogOK(alog) /\ alog \in Log
    BY <1>1 DEF EventlogTypeOK, LogOK
<1>6. PICK n \in Nat, k \in Nat, s \in Nat :
          n = Len(alog.events) /\ k = alog.consumed /\ s = alog.seqno
    BY <1>5, LogFields
<1>7. k < n /\ k + 1 \in 1 .. n /\ DOMAIN alog.events = 1 .. n
    BY <1>3, <1>5, <1>6, LogFields DEF pending_count
<1>8. /\ m \in Message /\ m.type = "add" /\ m.inc = inc
      /\ m.event = alog.events[k + 1] /\ m.event.sequence \in Nat
    <2>1. alog.events[k + 1] \in Event /\ inc \in Nat
        BY <1>1, <1>5, <1>7, LogFields DEF EventlogTypeOK
    <2> QED
        BY <1>2, <1>6, <2>1 DEF Message, Event
<1>9. /\ masterq' \in Seq(Message) /\ masterq' # <<>> /\ Len(masterq') = 1
      /\ DOMAIN masterq' = {1} /\ masterq'[1] = m /\ AddFirst'
    <2>1. masterq' = <<m>>
        BY <1>3, <1>4
    <2> QED
        BY <1>8, <2>1 DEF AddFirst
<1>10. /\ alog'.consumed = k + 1 /\ alog'.seqno = s /\ alog'.events = alog.events
       /\ LogOK(alog')
    <2>1. alog' = [alog EXCEPT !.consumed = k + 1] /\ k + 1 \in Nat /\ k + 1 <= n
        BY <1>3, <1>6, <1>7
    <2> QED
        BY <1>5, <1>6, <2>1 DEF LogOK, Log
<1>11. EventlogTypeOK'
    BY <1>1, <1>3, <1>4, <1>9, <1>10 DEF EventlogTypeOK
<1>12. QueueInv'
    <2>1. inc <= inc
        BY <1>1 DEF EventlogTypeOK
    <2> QED
        BY <1>3, <1>4, <1>8, <1>9, <2>1 DEF QueueInv
<1>13. NextPushed = m.event.sequence /\ NextPushed' = m.event.sequence + 1
    <2>1. m.event.sequence + n + 1 = s + (k + 1)
        BY <1>1, <1>6, <1>7, <1>8 DEF NumberInv
    <2>2. NextPushed = s - (n - k) /\ NextPushed' = s - (n - (k + 1))
        BY <1>6, <1>10 DEF NextPushed, pending_count
    <2> QED
        BY <1>7, <1>8, <2>1, <2>2
<1>14. NumberInv'
    <2>1. Follows(NextPushed)
        BY <1>1, <1>4 DEF NumberInv
    <2>2. mlog' # None => \A i \in DOMAIN mlog'.events :
              mlog'.events[i].sequence + Len(mlog'.events) + 1 = masterq'[1].event.sequence + i
        BY <1>3, <1>9, <1>13, <2>1 DEF Follows
    <2>3. \A i \in DOMAIN alog'.events :
              alog'.events[i].sequence + Len(alog'.events) + 1 = alog'.seqno + i
        BY <1>1, <1>6, <1>10 DEF NumberInv
    <2>4. mlog' # None => \A i, j \in DOMAIN mlog'.events :
              mlog'.events[i].sequence + j = mlog'.events[j].sequence + i
        BY <1>1, <1>3 DEF NumberInv
    <2> QED
        BY <1>3, <1>4, <1>9, <1>13, <2>2, <2>3, <2>4 DEF NumberInv, Follows
<1>15. ShownInv'
    <2>1. Reading' <=> Reading
        BY <1>3 DEF Reading
    <2>2. PendingSeqs(mlog)' = PendingSeqs(mlog)
        BY <1>3 DEF PendingSeqs
    <2>3. Reading => client.seq_seen < masterq'[1].event.sequence
        BY <1>1, <1>4, <1>9, <1>13 DEF ShownInv
    <2> QED
        BY <1>1, <1>3, <1>4, <2>1, <2>2, <2>3 DEF ShownInv
<1>16. FilesInv'
    BY <1>1, <1>3, FilesFrame
<1>17. \A b : /\ IsReceived(b)' <=> IsReceived(b)
              /\ OnTheWay(b)' <=> PendingIn(k + 1, b)
              /\ ~OnTheWay(b)
    <2>1. k + 1 > k
        OBVIOUS
    <2> QED
        BY <1>3, <1>4, <1>6, <1>8, <1>9, <2>1 DEF IsReceived, OnTheWay, PendingIn
<1>18. \A i \in 1 .. n : \A b : PendingIn(i, b)' <=> PendingIn(i, b) /\ i > k + 1
    BY <1>6, <1>10 DEF PendingIn
<1>19. \A b : /\ IsPending(b) <=> \E i \in 1 .. n : PendingIn(i, b)
              /\ IsPending(b)' <=> \E i \in 1 .. n : PendingIn(i, b) /\ i > k + 1
    <2>1. \A b : IsPending(b)' <=> \E i \in 1 .. n : PendingIn(i, b)'
        BY <1>7, <1>10 DEF IsPending
    <2> QED
        BY <1>7, <1>18, <2>1 DEF IsPending
<1>20. \A b : IsPending(b) <=> IsPending(b)' \/ OnTheWay(b)'
    <2>1. \A i \in 1 .. n : \A b : PendingIn(i, b) => i = k + 1 \/ i > k + 1
        BY <1>6 DEF PendingIn
    <2> QED
        BY <1>7, <1>17, <1>19, <2>1
<1>21. \A b : Logged(b)' <=> Logged(b)
    BY <1>17, <1>20 DEF Logged
<1>22. SentInv'
    <2>1. Increasing(received)' /\ Increasing(masterq'[1].event.data)
        BY <1>1, <1>3, <1>7, <1>8, <1>9 DEF SentInv, Increasing
    <2>2. \A i \in DOMAIN alog'.events : Increasing(alog'.events[i].data)
        BY <1>1, <1>10 DEF SentInv
    <2>3. \A b, c \in Byte : IsReceived(b)' /\ (OnTheWay(c)' \/ IsPending(c)') => b < c
        BY <1>1, <1>17, <1>20 DEF SentInv
    <2>4. \A b, c \in Byte : OnTheWay(b)' /\ IsPending(c)' => b < c
        BY <1>1, <1>7, <1>17, <1>19 DEF SentInv
    <2>5. \A i, j \in DOMAIN alog'.events : \A b, c \in Byte :
              PendingIn(i, b)' /\ PendingIn(j, c)' /\ i < j => b < c
        BY <1>1, <1>7, <1>10, <1>18 DEF SentInv
    <2>6. \A b \in Byte : Logged(b)' => b <= nbytes'
        BY <1>1, <1>3, <1>21 DEF SentInv
    <2> QED
        BY <2>1, <2>2, <2>3, <2>4, <2>5, <2>6 DEF SentInv
<1>23. AheadInv'
    <2>1. \A c \in Byte : Ahead(c)' => Ahead(c)
        BY <1>3, <1>4 DEF Ahead, Unread, InFile
    <2> QED
        BY <1>1, <1>21, <2>1 DEF AheadInv
<1>24. MonitorInv'
    BY <1>1, <1>3, <1>21 DEF MonitorInv
<1>25. DueInv'
    <2>1. \A b : Left(b)' <=> Left(b)
        BY <1>3, <1>21 DEF Left
    <2>2. \A b : /\ InFile(fd, b)' <=> InFile(fd, b)
                 /\ InFile(path, b)' <=> InFile(path, b)
                 /\ ~Found(b)
        BY <1>3 DEF InFile, Found
    <2>3. caller = "exit" => child = "exited" /\ \A b \in due : ~Left(b)
        BY <1>1, <1>3, <1>4, <2>2 DEF DueInv
    <2>4. /\ due' \cap skipped' = {}
          /\ \A b \in due' : b <= nbytes'
          /\ \A f \in truncated' : due' \cap BytesOf(content'[f]) = {}
          /\ child' \in {"none", "running"} => due' = {}
          /\ child' = "exited" => \A b \in due' : Left(b)' => InFile(fd, b)' \/ InFile(path, b)'
          /\ child' = "reported" => \A b \in due' : IsReceived(b)'
        BY <1>1, <1>3, <1>17, <2>1, <2>2 DEF DueInv
    <2> QED
        BY <1>3, <2>1, <2>3, <2>4 DEF DueInv
<1> QED
    BY <1>11, <1>12, <1>14, <1>15, <1>16, <1>22, <1>23, <1>24, <1>25 DEF LogInv
-----------------------------------------------------------------------------
(* Steps of the master and the client *)

\* A step that changes the master's log and the client only.
LEMMA MasterStepKeeps ==
    ASSUME LogInv, EventlogTypeOK', NumberInv', ShownInv',
           UNCHANGED <<fileVars, inc, pc, monVars, alog, masterq>>,
           UNCHANGED <<childVars, received, skipped, due>>
    PROVE  LogInv'
<1>1. /\ EventlogTypeOK /\ QueueInv
      /\ FilesInv /\ SentInv /\ AheadInv /\ MonitorInv /\ DueInv
    BY DEF LogInv
<1>2. /\ UNCHANGED <<content, path, wfd, nbytes, ninodes, truncated>>
      /\ UNCHANGED <<caller, fd, st_size, now_size, child, runs>>
    BY DEF fileVars, monVars, childVars
<1>3. QueueInv'
    BY <1>1, <1>2 DEF QueueInv
<1>4. FilesInv'
    BY <1>1, FilesFrame
<1>5. nbytes <= nbytes'
    BY <1>1, <1>2, Constants DEF EventlogTypeOK
<1>6. SentInv'
    BY <1>1, <1>5, SentFrame
<1>7. \A b : Logged(b)' <=> Logged(b)
    BY LoggedFrame
<1>8. AheadInv'
    <2>1. \A c \in Byte : Ahead(c)' => Ahead(c)
        BY <1>2 DEF Ahead, Unread, InFile
    <2> QED
        BY <1>1, <1>7, <2>1 DEF AheadInv
<1>9. MonitorInv'
    BY <1>1, <1>2, <1>7 DEF MonitorInv
<1>10. DueInv'
    <2>1. \A f \in truncated' : due' \cap BytesOf(content'[f]) = {}
        BY <1>1, <1>2 DEF DueInv
    <2>2. \A b \in due' : InFile(fd, b) \/ InFile(path, b) => InFile(fd, b)' \/ InFile(path, b)'
        BY <1>2 DEF InFile
    <2>3. \A b \in due' : Found(b) => Found(b)'
        BY <1>2 DEF Found, InFile
    <2> QED
        BY <1>1, <1>2, <1>5, <2>1, <2>2, <2>3, DueFrame
<1> QED
    BY <1>3, <1>4, <1>6, <1>8, <1>9, <1>10 DEF LogInv

\* The numbers in a log that the master keeps.
LEMMA NumbersKept ==
    ASSUME NumberInv, UNCHANGED <<pc, alog, masterq>>,
           mlog' # None => \/ mlog'.events = <<>>
                           \/ mlog # None /\ mlog'.events = mlog.events
    PROVE  NumberInv'
<1>1. AddFirst' <=> AddFirst
    BY DEF AddFirst
<1>2. AddFirst' => Follows(masterq[1].event.sequence)'
    <2>1. AddFirst => Follows(masterq[1].event.sequence)
        BY DEF NumberInv
    <2> QED
        BY <1>1, <2>1 DEF Follows
<1>3. pc \in Working => Follows(NextPushed)'
    <2>1. pc \in Working => Follows(NextPushed)
        BY DEF NumberInv
    <2> QED
        BY <2>1 DEF Follows, NextPushed, pending_count
<1>4. mlog' # None => \A i, j \in DOMAIN mlog'.events :
          mlog'.events[i].sequence + j = mlog'.events[j].sequence + i
    BY DEF NumberInv
<1>5. pc = "setup" /\ mlog' # None => mlog'.events = <<>>
    BY DEF NumberInv
<1>6. NextPushed' = NextPushed
    BY DEF NextPushed, pending_count
<1>7. \A i \in DOMAIN alog'.events :
          alog'.events[i].sequence + Len(alog'.events) + 1 = alog'.seqno + i
    BY DEF NumberInv
<1>8. pc' = "adding" => masterq'[1].event.sequence + 1 = NextPushed'
    BY <1>6 DEF NumberInv
<1> QED
    BY <1>1, <1>2, <1>3, <1>4, <1>5, <1>7, <1>8 DEF NumberInv, Follows

\* A released host's log is empty and goes on with its numbers.
LEMMA HostReleaseKeeps ==
    ASSUME LogInv, HostRelease
    PROVE  LogInv'
<1>1. EventlogTypeOK /\ NumberInv /\ ShownInv
    BY DEF LogInv
<1>2. /\ mlog' = IF mlog = None THEN None ELSE ni_eventlog_flush(mlog)
      /\ incidents < MaxIncidents /\ incidents' = incidents + 1
      /\ UNCHANGED <<fileVars, inc, pc, monVars, alog, masterq, childVars, client, epoch>>
      /\ UNCHANGED <<received, skipped, due>>
      /\ UNCHANGED <<content, path, wfd, nbytes, ninodes, truncated>>
      /\ UNCHANGED <<caller, fd, st_size, now_size, child, runs>>
    BY DEF HostRelease, Incident, fileVars, monVars, childVars, histVars
<1>3. mlog' # None => LogOK(mlog') /\ mlog'.events = <<>>
    BY <1>1, <1>2, FlushedLog DEF EventlogTypeOK
<1>4. EventlogTypeOK'
    <2>1. incidents' \in 0 .. MaxIncidents
        BY <1>1, <1>2, Constants DEF EventlogTypeOK
    <2> QED
        BY <1>1, <1>2, <1>3, <2>1 DEF EventlogTypeOK
<1>5. NumberInv'
    BY <1>1, <1>2, <1>3, NumbersKept
<1>6. ShownInv'
    <2>1. PendingSeqs(mlog') = {}
        <3>1. CASE mlog' = None
            BY <3>1 DEF PendingSeqs
        <3>2. CASE mlog' # None
            <4>1. mlog'.consumed \in Nat /\ Len(mlog'.events) = 0
                BY <1>3, <3>2, LogFields
            <4> QED
                BY <3>2, <4>1 DEF PendingSeqs
        <3> QED
            BY <3>1, <3>2
    <2>2. (Reading' <=> Reading) /\ (AddFirst' <=> AddFirst) /\ NextPushed' = NextPushed
        BY <1>2 DEF Reading, AddFirst, NextPushed, pending_count
    <2>3. \A s \in PendingSeqs(mlog)' : FALSE
        BY <2>1
    <2> QED
        BY <1>1, <1>2, <2>2, <2>3 DEF ShownInv
<1> QED
    BY <1>2, <1>4, <1>5, <1>6, MasterStepKeeps

\* The log the master writes to.
LEMMA GetEventlog ==
    ASSUME EventlogTypeOK
    PROVE  /\ LogOK(get_eventlog)
           /\ mlog # None => get_eventlog = mlog
           /\ mlog = None => get_eventlog.events = <<>>
BY NewLog DEF get_eventlog, EventlogTypeOK

\* What a purge does to the log: events after the number stay.
LEMMA PurgedLog ==
    ASSUME EventlogTypeOK, Purge
    PROVE  /\ LogOK(mlog')
           /\ mlog' # None
           /\ mlog'.events = <<>> \/ (mlog # None /\ mlog'.events = mlog.events)
           /\ client.seq_seen # 0 =>
                 \A s \in PendingSeqs(mlog) \ PendingSeqs(mlog') : s <= client.seq_seen
<1>1. client.seq_seen \in Nat
    BY DEF EventlogTypeOK, ClientRec
<1>2. PICK old : old = get_eventlog
    OBVIOUS
<1>3. /\ LogOK(old)
      /\ mlog # None => old = mlog
      /\ mlog = None => old.events = <<>>
    BY <1>2, GetEventlog
<1>4. CASE client.seq_seen = 0
    <2>1. mlog' = ni_eventlog_flush(old)
        BY <1>2, <1>4 DEF Purge
    <2>2. LogOK(mlog') /\ mlog'.events = <<>>
        BY <1>3, <2>1, FlushedLog
    <2>3. mlog' # None
        BY <2>2, Constants DEF LogOK
    <2> QED
        BY <1>4, <2>2, <2>3
<1>5. CASE client.seq_seen # 0
    <2>1. mlog' = consume_upto(old, client.seq_seen)
        BY <1>2, <1>5 DEF Purge
    <2>2. PICK new : new = consume_upto(old, client.seq_seen)
        OBVIOUS
    <2>3. /\ LogOK(new)
          /\ new.events = old.events
          /\ new.consumed \in old.consumed .. Len(old.events)
          /\ \A i \in old.consumed + 1 .. new.consumed : old.events[i].sequence <= client.seq_seen
        BY <1>1, <1>3, <2>2, ConsumedUpTo
    <2>4. mlog' = new /\ new # None
        BY <2>1, <2>2, <2>3, Constants DEF LogOK
    <2>5. ASSUME NEW s \in PendingSeqs(mlog) \ PendingSeqs(new)
          PROVE  s <= client.seq_seen
        <3>1. mlog # None /\ old = mlog
            BY <1>3, <2>5 DEF PendingSeqs
        <3>2. PICK i \in old.consumed + 1 .. Len(old.events) : s = old.events[i].sequence
            BY <2>5, <3>1 DEF PendingSeqs
        <3>3. ~(i \in new.consumed + 1 .. Len(new.events))
            BY <2>3, <2>4, <2>5, <3>2 DEF PendingSeqs
        <3>4. /\ old.consumed \in Nat /\ Len(old.events) \in Nat /\ new.consumed \in Nat
              /\ Len(new.events) = Len(old.events)
            BY <1>3, <2>3, LogFields
        <3>5. i \in old.consumed + 1 .. new.consumed
            BY <3>2, <3>3, <3>4
        <3> QED
            BY <2>3, <3>2, <3>5
    <2> QED
        BY <1>3, <2>3, <2>4, <2>5
<1> QED
    BY <1>4, <1>5

\* A purge moves no number and voids what the client was shown.
LEMMA PurgeKeeps ==
    ASSUME LogInv, Purge
    PROVE  LogInv'
<1>1. EventlogTypeOK /\ NumberInv /\ ShownInv
    BY DEF LogInv
<1>2. /\ client.pc = "purge" /\ client' = [client EXCEPT !.pc = "idle"]
      /\ UNCHANGED <<fileVars, inc, pc, monVars, alog, masterq, childVars, incidents, epoch>>
      /\ UNCHANGED <<received, skipped, due>>
      /\ UNCHANGED <<content, path, wfd, nbytes, ninodes, truncated>>
      /\ UNCHANGED <<caller, fd, st_size, now_size, child, runs>>
    BY DEF Purge, fileVars, monVars, childVars, histVars
<1>3. /\ LogOK(mlog')
      /\ mlog'.events = <<>> \/ (mlog # None /\ mlog'.events = mlog.events)
    BY <1>1, PurgedLog
<1>4. client' \in ClientRec /\ client'.pc = "idle" /\ client'.epoch = client.epoch
    BY <1>1, <1>2 DEF EventlogTypeOK, ClientRec
<1>5. EventlogTypeOK'
    BY <1>1, <1>2, <1>3, <1>4 DEF EventlogTypeOK
<1>6. NumberInv'
    BY <1>1, <1>2, <1>3, NumbersKept
<1>7. ShownInv'
    BY <1>1, <1>2, <1>4 DEF ShownInv, Reading
<1> QED
    BY <1>2, <1>5, <1>6, <1>7, MasterStepKeeps
\* The events a client can read are numbered up to the last, which is the largest.
LEMMA LastIsLargest ==
    ASSUME EventlogTypeOK, NumberInv, PendingSeqs(mlog) # {}
    PROVE  /\ MaxOf(PendingSeqs(mlog)) \in PendingSeqs(mlog)
           /\ \A s \in PendingSeqs(mlog) : s <= MaxOf(PendingSeqs(mlog))
<1>1. mlog # None /\ LogOK(mlog)
    BY DEF PendingSeqs, EventlogTypeOK
<1>2. /\ Len(mlog.events) \in Nat /\ DOMAIN mlog.events = 1 .. Len(mlog.events)
      /\ mlog.consumed \in Nat
      /\ \A i \in DOMAIN mlog.events : mlog.events[i].sequence \in Nat
    BY <1>1, LogFields
<1>3. PICK S : S = PendingSeqs(mlog)
    OBVIOUS
<1>4. S = {mlog.events[i].sequence : i \in mlog.consumed + 1 .. Len(mlog.events)}
    BY <1>1, <1>3 DEF PendingSeqs
<1>5. PICK n \in Nat : n = Len(mlog.events)
    BY <1>2
<1>6. n \in mlog.consumed + 1 .. n
    <2>1. PICK i \in mlog.consumed + 1 .. n : TRUE
        BY <1>3, <1>4, <1>5
    <2> QED
        BY <1>2, <2>1
<1>7. PICK last \in Nat : last = mlog.events[n].sequence
    BY <1>2, <1>5, <1>6
<1>8. last \in S
    BY <1>4, <1>5, <1>6, <1>7
<1>9. ASSUME NEW s \in S
      PROVE  s <= last
    <2>1. PICK i \in mlog.consumed + 1 .. n : s = mlog.events[i].sequence
        BY <1>4, <1>5
    <2>2. i \in DOMAIN mlog.events /\ n \in DOMAIN mlog.events /\ i <= n
        BY <1>2, <1>5, <1>6
    <2>3. s + n = last + i /\ s \in Nat
        BY <1>1, <1>2, <1>7, <2>1, <2>2 DEF NumberInv
    <2> QED
        BY <1>2, <2>2, <2>3
<1>10. \E m \in S : \A s \in S : s <= m
    BY <1>8, <1>9
<1>11. MaxOf(S) = CHOOSE m \in S : \A s \in S : s <= m
    BY <1>8 DEF MaxOf
<1> QED
    BY <1>3, <1>10, <1>11

\* The number a client will purge up to is below that of every event to come.
LEMMA ShowEventsKeeps ==
    ASSUME LogInv, ShowEvents
    PROVE  LogInv'
<1>1. EventlogTypeOK /\ NumberInv /\ ShownInv /\ QueueInv
    BY DEF LogInv
<1>2. PICK S : S = PendingSeqs(mlog)
    OBVIOUS
<1>3. PICK seq \in (IF mlog = None THEN Garbage ELSE {MaxOf(S)}) :
          client' = [pc |-> IF seq = 0 THEN "idle" ELSE "purge", seq_seen |-> seq,
                     shown |-> S, hadLog |-> mlog # None, epoch |-> epoch]
    BY <1>2 DEF ShowEvents
<1>4. /\ incidents < MaxIncidents /\ incidents' = incidents + 1
      /\ UNCHANGED <<fileVars, inc, pc, monVars, alog, masterq, mlog, childVars, epoch>>
      /\ UNCHANGED <<received, skipped, due>>
      /\ UNCHANGED <<content, path, wfd, nbytes, ninodes, truncated>>
      /\ UNCHANGED <<caller, fd, st_size, now_size, child, runs>>
    BY DEF ShowEvents, Incident, fileVars, monVars, childVars, histVars
<1>5. S \subseteq Nat /\ (mlog = None => S = {})
    <2>1. CASE mlog = None
        BY <1>2, <2>1 DEF PendingSeqs
    <2>2. CASE mlog # None
        <3>1. LogOK(mlog)
            BY <1>1, <2>2 DEF EventlogTypeOK
        <3>2. /\ mlog.consumed \in Nat /\ DOMAIN mlog.events = 1 .. Len(mlog.events)
              /\ \A i \in DOMAIN mlog.events : mlog.events[i].sequence \in Nat
              /\ Len(mlog.events) \in Nat
            BY <3>1, LogFields
        <3>3. mlog.consumed + 1 .. Len(mlog.events) \subseteq DOMAIN mlog.events
            BY <3>2
        <3> QED
            BY <1>2, <2>2, <3>2, <3>3 DEF PendingSeqs
    <2> QED
        BY <2>1, <2>2
<1>6. mlog # None /\ S # {} => seq \in S /\ \A s \in S : s <= seq
    BY <1>1, <1>2, <1>3, LastIsLargest
<1>7. mlog # None /\ S = {} => seq = 0
    BY <1>3 DEF MaxOf
<1>8. seq \in Nat
    <2>1. mlog = None => seq \in Nat
        <3>1. Garbage \subseteq Nat
            BY DEF Garbage
        <3> QED
            BY <1>3, <3>1
    <2>2. mlog # None /\ S # {} => seq \in Nat
        <3>1. mlog # None /\ S # {} => seq \in S
            BY <1>6
        <3> QED
            BY <1>5, <3>1
    <2>3. mlog # None /\ S = {} => seq \in Nat
        BY <1>7
    <2> QED
        BY <2>1, <2>2, <2>3
<1>9. /\ client' \in ClientRec
      /\ client'.pc = "purge" => seq # 0
      /\ client'.seq_seen = seq /\ client'.shown = S
      /\ client'.hadLog <=> mlog # None
      /\ client'.epoch = epoch
    BY <1>1, <1>3, <1>5, <1>8 DEF EventlogTypeOK, ClientRec
<1>10. EventlogTypeOK'
    <2>1. incidents' \in 0 .. MaxIncidents
        BY <1>1, <1>4, Constants DEF EventlogTypeOK
    <2> QED
        BY <1>1, <1>4, <1>9, <2>1 DEF EventlogTypeOK
<1>11. NumberInv'
    BY <1>1, <1>4, NumbersKept
<1>12. AddFirst' = AddFirst /\ NextPushed' = NextPushed
    BY <1>4 DEF AddFirst, NextPushed, pending_count
<1>13. ASSUME Reading'
       PROVE  /\ \A s \in S : s \in client'.shown
              /\ AddFirst => seq < masterq[1].event.sequence
              /\ pc # "setup"
              /\ pc \in Working => seq < NextPushed
    <2>1. mlog # None /\ seq # 0
        BY <1>9, <1>13 DEF Reading
    <2>2. S # {} /\ seq \in S
        BY <1>6, <1>7, <2>1
    <2>3. LogOK(mlog)
        BY <1>1, <2>1 DEF EventlogTypeOK
    <2>4. PICK n \in Nat : n = Len(mlog.events)
        BY <2>3, LogFields
    <2>5. mlog.consumed \in Nat /\ DOMAIN mlog.events = 1 .. n
        BY <2>3, <2>4, LogFields
    <2>6. PICK i \in mlog.consumed + 1 .. n : seq = mlog.events[i].sequence
        BY <1>2, <2>1, <2>2, <2>4 DEF PendingSeqs
    <2>7. i \in DOMAIN mlog.events /\ i \in Nat /\ i <= n
        BY <2>5, <2>6
    <2>8. ASSUME NEW m \in Int, Follows(m)
          PROVE  seq < m
        <3>1. seq + n + 1 = m + i
            BY <2>1, <2>4, <2>6, <2>7, <2>8 DEF Follows
        <3> QED
            BY <1>8, <2>7, <3>1
    <2>9. AddFirst => masterq[1].event.sequence \in Int /\ Follows(masterq[1].event.sequence)
        BY <1>1, QueueFacts, MessageFields DEF NumberInv, AddFirst
    <2>10. pc \in Working => NextPushed \in Int /\ Follows(NextPushed)
        <3>1. alog.seqno \in Nat /\ Len(alog.events) \in Nat /\ alog.consumed \in Nat
            BY <1>1, LogFields DEF EventlogTypeOK
        <3> QED
            BY <1>1, <3>1 DEF NumberInv, NextPushed, pending_count
    <2>11. pc # "setup"
        BY <1>1, <2>1, <2>4, <2>7 DEF NumberInv
    <2> QED
        BY <1>9, <2>8, <2>9, <2>10, <2>11
<1>14. ShownInv'
    <2>1. epoch <= epoch
        BY <1>1 DEF EventlogTypeOK
    <2>2. PendingSeqs(mlog)' = S
        BY <1>2, <1>4 DEF PendingSeqs
    <2>3. /\ client'.epoch <= epoch'
          /\ client'.pc = "purge" => client'.seq_seen # 0
        BY <1>4, <1>9, <2>1
    <2> QED
        BY <1>4, <1>9, <1>12, <1>13, <2>2, <2>3 DEF ShownInv
<1> QED
    BY <1>4, <1>10, <1>11, <1>14, MasterStepKeeps

\* The master drops the log of the old agent; what a client was shown is void.
LEMMA HandleRegisterKeeps ==
    ASSUME LogInv, HandleRegister
    PROVE  LogInv'
<1>1. EventlogTypeOK /\ QueueInv /\ NumberInv /\ ShownInv
    BY DEF LogInv
<1>2. /\ masterq # <<>> /\ Head(masterq).type = "register" /\ masterq' = Tail(masterq)
      /\ mlog' = None /\ epoch' = epoch + 1
      /\ pc' = IF pc = "registering" /\ Head(masterq).inc = inc THEN "setup" ELSE pc
      /\ UNCHANGED <<fileVars, inc, caller, fd, st_size, now_size, alog, child, runs>>
      /\ UNCHANGED <<client, incidents, received, skipped, due>>
      /\ UNCHANGED <<content, path, wfd, nbytes, ninodes, truncated>>
    BY DEF HandleRegister, fileVars, monVars, childVars, clientVars
<1>3. PICK n \in Nat : n = Len(masterq)
    BY <1>1, QueueFacts
<1>4. /\ masterq' \in Seq(Message) /\ Head(masterq) = masterq[1] /\ n > 0
      /\ Len(masterq') = n - 1 /\ DOMAIN masterq = 1 .. n /\ DOMAIN masterq' = 1 .. n - 1
      /\ \A i \in DOMAIN masterq' : i + 1 \in DOMAIN masterq /\ masterq'[i] = masterq[i + 1]
    BY <1>1, <1>2, <1>3, QueueFacts, Taken
<1>5. ~AddFirst /\ pc \in {"down", "registering"}
    BY <1>1, <1>2, <1>4 DEF QueueInv, AddFirst
<1>6. /\ pc \in Starting /\ pc' \in Starting /\ pc' \in AgentPc /\ pc' \notin Working
      /\ pc' \in {"down", "registering", "setup"} /\ pc' # "adding"
    BY <1>2, <1>5 DEF Starting, AgentPc, Working
<1>7. fd = None /\ child = "none" /\ due = {} /\ alog = ni_eventlog_new
    BY <1>1, <1>6 DEF QueueInv
<1>8. EventlogTypeOK'
    <2>1. epoch' \in Nat
        BY <1>1, <1>2 DEF EventlogTypeOK
    <2> QED
        BY <1>1, <1>2, <1>4, <1>6, <2>1 DEF EventlogTypeOK
<1>9. \A i \in DOMAIN masterq' : masterq'[i].type = "register" /\ masterq'[i].inc <= inc
    <2> SUFFICES ASSUME NEW i \in DOMAIN masterq'
                 PROVE  masterq'[i].type = "register" /\ masterq'[i].inc <= inc
        OBVIOUS
    <2>1. i + 1 \in DOMAIN masterq /\ i + 1 # 1 /\ masterq'[i] = masterq[i + 1]
        BY <1>4
    <2> QED
        BY <1>1, <2>1 DEF QueueInv
<1>10. ~AddFirst'
    <2>1. masterq' # <<>> => 1 \in DOMAIN masterq'
        BY <1>4
    <2> QED
        BY <1>9, <2>1 DEF AddFirst
<1>11. ASSUME pc = "registering"
       PROVE  /\ pc' = "setup" => masterq' = <<>>
              /\ pc' = "registering" =>
                    /\ masterq' # <<>>
                    /\ masterq'[Len(masterq')].type = "register"
                    /\ masterq'[Len(masterq')].inc = inc
                    /\ \A i \in DOMAIN masterq' : i # Len(masterq') => masterq'[i].inc < inc
    <2>1. /\ masterq[n].type = "register" /\ masterq[n].inc = inc
          /\ \A i \in DOMAIN masterq : i # n => masterq[i].inc < inc
        BY <1>1, <1>3, <1>11 DEF QueueInv
    <2>2. CASE n = 1
        <3>1. masterq' = <<>> /\ pc' = "setup"
            BY <1>2, <1>4, <1>11, <2>1, <2>2
        <3> QED
            BY <3>1
    <2>3. CASE n # 1
        <3>1. masterq[1].inc < inc /\ inc \in Nat /\ masterq[1].inc \in Nat
            <4>1. 1 \in DOMAIN masterq /\ inc \in Nat
                BY <1>1, <1>4 DEF EventlogTypeOK
            <4>2. masterq[1] \in Message
                BY <1>1, <4>1, QueueFacts
            <4> QED
                BY <2>1, <2>3, <4>1, <4>2, MessageFields
        <3>2. pc' = "registering"
            BY <1>2, <1>4, <1>11, <3>1
        <3>3. Len(masterq') \in DOMAIN masterq' /\ Len(masterq') + 1 = n
            BY <1>4, <2>3
        <3>4. masterq'[Len(masterq')] = masterq[n] /\ masterq' # <<>>
            BY <1>4, <3>3
        <3>5. ASSUME NEW i \in DOMAIN masterq', i # Len(masterq')
              PROVE  masterq'[i].inc < inc
            <4>1. i + 1 \in DOMAIN masterq /\ i + 1 # n /\ masterq'[i] = masterq[i + 1]
                BY <1>4, <3>5
            <4> QED
                BY <2>1, <4>1
        <3> QED
            BY <2>1, <3>2, <3>4, <3>5
    <2> QED
        BY <2>2, <2>3
<1>12. QueueInv'
    <2>1. pc' \notin {"down", "registering", "adding"} => masterq' = <<>>
        BY <1>2, <1>5, <1>6, <1>11
    <2>2. pc' = "registering" => pc = "registering"
        BY <1>2, <1>5
    <2> QED
        BY <1>2, <1>6, <1>7, <1>9, <1>11, <2>1, <2>2 DEF QueueInv
<1>13. NumberInv'
    BY <1>1, <1>2, <1>6, <1>10 DEF NumberInv
<1>14. ShownInv'
    <2>1. client.epoch <= epoch /\ client.epoch \in Nat /\ epoch \in Nat
        BY <1>1 DEF ShownInv, EventlogTypeOK, ClientRec
    <2>2. client.epoch <= epoch + 1 /\ client.epoch # epoch + 1
        BY <2>1
    <2> QED
        BY <1>1, <1>2, <2>2 DEF ShownInv, Reading
<1> QED
    BY <1>2, <1>6, <1>7, <1>8, <1>10, <1>12, <1>13, <1>14, StartStepKeeps
\* Eventlog.add appends the event that follows, with bytes newer than all received.
LEMMA HandleAddKeeps ==
    ASSUME LogInv, HandleAdd
    PROVE  LogInv'
<1>1. /\ EventlogTypeOK /\ QueueInv /\ NumberInv /\ ShownInv
      /\ FilesInv /\ SentInv /\ AheadInv /\ MonitorInv /\ DueInv
    BY DEF LogInv
<1>2. PICK e : e = Head(masterq).event
    OBVIOUS
<1>3. PICK old : old = get_eventlog
    OBVIOUS
<1>4. /\ masterq # <<>> /\ Head(masterq).type = "add" /\ masterq' = Tail(masterq)
      /\ mlog' = [old EXCEPT !.events = Append(@, e)]
      /\ received' = received \o e.data
      /\ pc' = IF pc = "adding" /\ Head(masterq).inc = inc THEN "flush" ELSE pc
      /\ UNCHANGED <<fileVars, inc, caller, fd, st_size, now_size, alog, child, runs>>
      /\ UNCHANGED <<client, incidents, epoch, skipped, due>>
      /\ UNCHANGED <<content, path, wfd, nbytes, ninodes, truncated>>
    BY <1>2, <1>3 DEF HandleAdd, fileVars, monVars, childVars, clientVars
<1>5. PICK n \in Nat : n = Len(masterq)
    BY <1>1, QueueFacts
<1>6. /\ masterq' \in Seq(Message) /\ Head(masterq) = masterq[1] /\ n > 0
      /\ Len(masterq') = n - 1 /\ DOMAIN masterq = 1 .. n /\ DOMAIN masterq' = 1 .. n - 1
      /\ \A i \in DOMAIN masterq' : i + 1 \in DOMAIN masterq /\ masterq'[i] = masterq[i + 1]
    BY <1>1, <1>4, <1>5, QueueFacts, Taken
<1>7. /\ AddFirst /\ masterq[1].event = e
      /\ e \in Event /\ e.sequence \in Nat /\ e.data \in Seq(Byte)
    <2>1. masterq[1] \in Message /\ masterq[1].type = "add"
        BY <1>1, <1>4, <1>6, QueueFacts
    <2> QED
        BY <1>2, <1>4, <1>6, <2>1, MessageFields DEF AddFirst
<1>8. /\ pc \in {"down", "registering", "adding"}
      /\ pc' = IF pc = "adding" THEN "flush" ELSE pc
      /\ pc = "adding" => n = 1
    BY <1>1, <1>4, <1>5, <1>6 DEF QueueInv
<1>9. /\ pc' \in AgentPc /\ pc' \notin {"adding", "setup", "idle", "report", "grown", "stat"}
      /\ pc' \in Starting <=> pc \in Starting
      /\ pc' \in Working => pc = "adding"
      /\ pc' # "fresh" /\ pc # "fresh"
    BY <1>8 DEF AgentPc, Starting, Working
<1>10. \A i \in DOMAIN masterq' : masterq'[i].type = "register" /\ masterq'[i].inc <= inc
    <2> SUFFICES ASSUME NEW i \in DOMAIN masterq'
                 PROVE  masterq'[i].type = "register" /\ masterq'[i].inc <= inc
        OBVIOUS
    <2>1. i + 1 \in DOMAIN masterq /\ i + 1 # 1 /\ masterq'[i] = masterq[i + 1]
        BY <1>6
    <2> QED
        BY <1>1, <2>1 DEF QueueInv
<1>11. ~AddFirst'
    <2>1. masterq' # <<>> => 1 \in DOMAIN masterq'
        BY <1>6
    <2> QED
        BY <1>10, <2>1 DEF AddFirst
<1>12. /\ LogOK(old)
       /\ mlog # None => old = mlog
       /\ mlog = None => old.events = <<>>
    BY <1>1, <1>3, GetEventlog
<1>13. PICK m \in Nat : m = Len(old.events)
    BY <1>12, LogFields
<1>14. /\ old \in Log /\ old.consumed \in Nat /\ old.events \in Seq(Event)
       /\ old.consumed <= m /\ DOMAIN old.events = 1 .. m
       /\ \A i \in 1 .. m : old.events[i].sequence \in Nat
    BY <1>12, <1>13, LogFields DEF LogOK
<1>15. PICK es : es = Append(old.events, e)
    OBVIOUS
<1>16. /\ es \in Seq(Event) /\ Len(es) = m + 1 /\ DOMAIN es = 1 .. m + 1
       /\ \A i \in 1 .. m : es[i] = old.events[i]
       /\ es[m + 1] = e
    BY <1>7, <1>13, <1>14, <1>15, Appended
<1>17. /\ mlog' \in Log /\ mlog'.events = es /\ mlog'.consumed = old.consumed
       /\ LogOK(mlog') /\ mlog' # None
    <2>1. mlog' = [old EXCEPT !.events = es]
        BY <1>4, <1>15
    <2>2. mlog' \in Log /\ mlog'.events = es /\ mlog'.consumed = old.consumed
        BY <1>14, <1>16, <2>1 DEF Log
    <2>3. old.consumed <= m + 1
        BY <1>14
    <2> QED
        BY <1>16, <2>2, <2>3, Constants DEF LogOK
<1>18. received \in Seq(Byte) /\ received' \in Seq(Byte)
    BY <1>1, <1>4, <1>7, Concatenated DEF EventlogTypeOK
<1>19. EventlogTypeOK'
    BY <1>1, <1>4, <1>6, <1>9, <1>17, <1>18 DEF EventlogTypeOK
<1>20. QueueInv'
    <2>1. pc' \notin {"down", "registering", "adding"} => masterq' = <<>>
        BY <1>4, <1>5, <1>6, <1>8
    <2>2. ASSUME pc' = "registering"
          PROVE  /\ masterq' # <<>>
                 /\ masterq'[Len(masterq')].type = "register"
                 /\ masterq'[Len(masterq')].inc = inc
                 /\ \A i \in DOMAIN masterq' : i # Len(masterq') => masterq'[i].inc < inc
        <3>1. /\ masterq[n].type = "register" /\ masterq[n].inc = inc
              /\ \A i \in DOMAIN masterq : i # n => masterq[i].inc < inc
            BY <1>1, <1>5, <1>8, <2>2 DEF QueueInv
        <3>2. n # 1
            BY <1>4, <1>6, <3>1
        <3>3. Len(masterq') \in DOMAIN masterq' /\ Len(masterq') + 1 = n
            BY <1>6, <3>2
        <3>4. masterq'[Len(masterq')] = masterq[n] /\ masterq' # <<>>
            BY <1>6, <3>3
        <3>5. ASSUME NEW i \in DOMAIN masterq', i # Len(masterq')
              PROVE  masterq'[i].inc < inc
            <4>1. i + 1 \in DOMAIN masterq /\ i + 1 # n /\ masterq'[i] = masterq[i + 1]
                BY <1>6, <3>5
            <4> QED
                BY <3>1, <4>1
        <3> QED
            BY <3>1, <3>4, <3>5
    <2>3. pc' \in Starting => fd' = None /\ child' = "none" /\ due' = {} /\ alog' = ni_eventlog_new
        BY <1>1, <1>4, <1>9 DEF QueueInv
    <2> QED
        BY <1>4, <1>9, <1>10, <2>1, <2>2, <2>3 DEF QueueInv
<1>21. \A i \in 1 .. m : es[i].sequence + m + 1 = e.sequence + i
    <2>1. CASE mlog = None
        <3>1. m = 0
            BY <1>12, <1>13, <2>1
        <3> QED
            BY <3>1
    <2>2. CASE mlog # None
        <3>1. Follows(masterq[1].event.sequence)
            BY <1>1, <1>7 DEF NumberInv
        <3> QED
            BY <1>7, <1>12, <1>13, <1>14, <1>16, <2>2, <3>1 DEF Follows
    <2> QED
        BY <2>1, <2>2
<1>22. \A i \in 1 .. m + 1 : es[i].sequence \in Nat /\ es[i].sequence + m + 1 = e.sequence + i
    <2> SUFFICES ASSUME NEW i \in 1 .. m + 1
                 PROVE  es[i].sequence \in Nat /\ es[i].sequence + m + 1 = e.sequence + i
        OBVIOUS
    <2>1. CASE i = m + 1
        <3>1. es[i] = e
            BY <1>16, <2>1
        <3> QED
            BY <1>7, <2>1, <3>1
    <2>2. CASE i # m + 1
        <3>1. i \in 1 .. m
            BY <2>2
        <3>2. es[i].sequence \in Nat
            BY <1>14, <1>16, <3>1
        <3>3. es[i].sequence + m + 1 = e.sequence + i
            BY <1>21, <3>1
        <3> QED
            BY <3>2, <3>3
    <2> QED
        BY <2>1, <2>2
<1>23. NextPushed' = NextPushed
    BY <1>4 DEF NextPushed, pending_count
<1>24. NumberInv'
    <2>1. \A i \in DOMAIN alog'.events :
              alog'.events[i].sequence + Len(alog'.events) + 1 = alog'.seqno + i
        BY <1>1, <1>4 DEF NumberInv
    <2>2. \A i, j \in DOMAIN mlog'.events :
              mlog'.events[i].sequence + j = mlog'.events[j].sequence + i
        <3> SUFFICES ASSUME NEW i \in 1 .. m + 1, NEW j \in 1 .. m + 1
                     PROVE  es[i].sequence + j = es[j].sequence + i
            BY <1>16, <1>17
        <3>1. PICK x \in Nat, y \in Nat : x = es[i].sequence /\ y = es[j].sequence
            BY <1>22
        <3>2. x + m + 1 = e.sequence + i /\ y + m + 1 = e.sequence + j
            BY <1>22, <3>1
        <3>3. x + j = y + i
            BY <1>7, <3>2
        <3> QED
            BY <3>1, <3>3
    <2>3. pc' \in Working => Follows(NextPushed)'
        <3> SUFFICES ASSUME pc = "adding"
                     PROVE  \A i \in DOMAIN mlog'.events :
                                mlog'.events[i].sequence + Len(mlog'.events) + 1 = NextPushed' + i
            BY <1>9 DEF Follows
        <3>1. NextPushed = e.sequence + 1
            BY <1>1, <1>7 DEF NumberInv
        <3>2. ASSUME NEW i \in 1 .. m + 1
              PROVE  es[i].sequence + (m + 1) + 1 = (e.sequence + 1) + i
            <4>1. PICK x \in Nat : x = es[i].sequence
                BY <1>22
            <4>2. x + m + 1 = e.sequence + i
                BY <1>22, <4>1
            <4>3. x + (m + 1) + 1 = (e.sequence + 1) + i
                BY <1>7, <4>2
            <4> QED
                BY <4>1, <4>3
        <3> QED
            BY <1>16, <1>17, <1>23, <3>1, <3>2
    <2> QED
        BY <1>9, <1>11, <2>1, <2>2, <2>3 DEF NumberInv
<1>25. ShownInv'
    <2>1. Reading' <=> Reading
        BY <1>4 DEF Reading
    <2>2. Reading => client.seq_seen < e.sequence /\ client.seq_seen \in Nat
        BY <1>1, <1>7 DEF ShownInv, EventlogTypeOK, ClientRec
    <2>3. \A s \in PendingSeqs(mlog') : s \in PendingSeqs(mlog) \/ s = e.sequence
        <3> SUFFICES ASSUME NEW s \in PendingSeqs(mlog'), s # e.sequence
                     PROVE  s \in PendingSeqs(mlog)
            OBVIOUS
        <3>1. PICK i \in old.consumed + 1 .. m + 1 : s = es[i].sequence
            BY <1>16, <1>17 DEF PendingSeqs
        <3>2. i # m + 1
            BY <1>16, <3>1
        <3>3. i \in old.consumed + 1 .. m /\ i \in 1 .. m
            BY <1>14, <3>1, <3>2
        <3>4. mlog # None
            BY <1>12, <1>13, <3>3
        <3>5. s = mlog.events[i].sequence /\ i \in mlog.consumed + 1 .. Len(mlog.events)
            BY <1>12, <1>13, <1>16, <3>1, <3>3, <3>4
        <3> QED
            BY <3>4, <3>5 DEF PendingSeqs
    <2>4. Reading => \A s \in PendingSeqs(mlog') : s <= client.seq_seen => s \in client.shown
        <3>1. Reading => \A s \in PendingSeqs(mlog) : s <= client.seq_seen => s \in client.shown
            BY <1>1 DEF ShownInv
        <3>2. Reading => ~(e.sequence <= client.seq_seen)
            BY <1>7, <2>2
        <3> QED
            BY <2>3, <3>1, <3>2
    <2>5. pc = "adding" /\ Reading => client.seq_seen < NextPushed
        <3>1. pc = "adding" => NextPushed = e.sequence + 1
            BY <1>1, <1>7 DEF NumberInv
        <3> QED
            BY <1>7, <2>2, <3>1
    <2> QED
        BY <1>1, <1>4, <1>9, <1>11, <1>23, <2>1, <2>4, <2>5 DEF ShownInv
<1>26. \A b : /\ IsReceived(b)' <=> IsReceived(b) \/ OnTheWay(b)
              /\ ~OnTheWay(b)'
              /\ IsPending(b)' <=> IsPending(b)
              /\ Logged(b)' <=> Logged(b)
    <2>1. \A b : b \in BytesOf(received') <=> b \in BytesOf(received) \/ b \in BytesOf(e.data)
        BY <1>4, <1>7, <1>18, BytesOfConcatenation
    <2>2. \A b : IsReceived(b)' <=> IsReceived(b) \/ OnTheWay(b)
        BY <1>7, <2>1 DEF IsReceived, OnTheWay
    <2>3. \A b : ~OnTheWay(b)' /\ (IsPending(b)' <=> IsPending(b))
        BY <1>4, <1>11 DEF OnTheWay, IsPending, PendingIn
    <2> QED
        BY <2>2, <2>3 DEF Logged
<1>27. SentInv'
    <2>1. Increasing(received)'
        <3>1. PICK p \in Seq(Byte), q \in Seq(Byte) : p = received /\ q = e.data
            BY <1>7, <1>18
        <3>2. /\ Len(p) \in Nat /\ Len(q) \in Nat
              /\ DOMAIN p = 1 .. Len(p) /\ DOMAIN q = 1 .. Len(q)
              /\ DOMAIN (p \o q) = 1 .. Len(p) + Len(q)
              /\ \A i \in 1 .. Len(p) + Len(q) :
                    (p \o q)[i] = IF i <= Len(p) THEN p[i] ELSE q[i - Len(p)]
            BY Concatenated
        <3>3. Increasing(p) /\ Increasing(q)
            BY <1>1, <1>7, <3>1 DEF SentInv
        <3>4. ASSUME NEW i \in DOMAIN p, NEW j \in DOMAIN q
              PROVE  p[i] < q[j]
            <4>1. p[i] \in Byte /\ q[j] \in Byte
                BY <3>1
            <4>2. IsReceived(p[i]) /\ OnTheWay(q[j])
                BY <1>7, <3>1 DEF IsReceived, OnTheWay, BytesOf
            <4> QED
                BY <1>1, <4>1, <4>2 DEF SentInv
        <3>5. ASSUME NEW i \in DOMAIN (p \o q), NEW j \in DOMAIN (p \o q), i < j
              PROVE  (p \o q)[i] < (p \o q)[j]
            <4>1. CASE j <= Len(p)
                <5>1. i \in DOMAIN p /\ j \in DOMAIN p /\ i <= Len(p)
                    BY <3>2, <3>5, <4>1
                <5> QED
                    BY <3>2, <3>3, <3>5, <4>1, <5>1 DEF Increasing
            <4>2. CASE i <= Len(p) /\ ~(j <= Len(p))
                <5>1. i \in DOMAIN p /\ j - Len(p) \in DOMAIN q
                    BY <3>2, <4>2
                <5> QED
                    BY <3>2, <3>4, <4>2, <5>1
            <4>3. CASE ~(i <= Len(p))
                <5>1. /\ i - Len(p) \in DOMAIN q /\ j - Len(p) \in DOMAIN q
                      /\ i - Len(p) < j - Len(p) /\ ~(j <= Len(p))
                    BY <3>2, <3>5, <4>3
                <5> QED
                    BY <3>2, <3>3, <4>3, <5>1 DEF Increasing
            <4> QED
                BY <3>2, <4>1, <4>2, <4>3
        <3>6. received' = p \o q
            BY <1>4, <3>1
        <3> QED
            BY <3>5, <3>6 DEF Increasing
    <2>2. \A i \in DOMAIN alog'.events : Increasing(alog'.events[i].data)
        BY <1>1, <1>4 DEF SentInv
    <2>3. \A b, c \in Byte : IsReceived(b)' /\ IsPending(c)' => b < c
        BY <1>1, <1>26 DEF SentInv
    <2>4. \A i, j \in DOMAIN alog'.events : \A b, c \in Byte :
              PendingIn(i, b)' /\ PendingIn(j, c)' /\ i < j => b < c
        BY <1>1, <1>4 DEF SentInv, PendingIn
    <2>5. \A b \in Byte : Logged(b)' => b <= nbytes'
        BY <1>1, <1>4, <1>26 DEF SentInv
    <2> QED
        BY <1>11, <1>26, <2>1, <2>2, <2>3, <2>4, <2>5 DEF SentInv
<1>28. FilesInv'
    BY <1>1, <1>4, FilesFrame
<1>29. AheadInv'
    <2>1. \A c \in Byte : Ahead(c)' => Ahead(c)
        BY <1>4, <1>9 DEF Ahead, Unread, InFile
    <2> QED
        BY <1>1, <1>26, <2>1 DEF AheadInv
<1>30. MonitorInv'
    BY <1>1, <1>4, <1>8, <1>26 DEF MonitorInv
<1>31. DueInv'
    <2>1. \A b : /\ Left(b)' <=> Left(b)
                 /\ IsReceived(b) => IsReceived(b)'
        BY <1>4, <1>26 DEF Left
    <2>2. \A b : /\ InFile(fd, b)' <=> InFile(fd, b)
                 /\ InFile(path, b)' <=> InFile(path, b)
        BY <1>4 DEF InFile
    <2>3. /\ due' \cap skipped' = {}
          /\ \A b \in due' : b <= nbytes'
          /\ \A f \in truncated' : due' \cap BytesOf(content'[f]) = {}
          /\ child' \in {"none", "running"} => due' = {}
          /\ child' = "exited" => \A b \in due' : Left(b)' => InFile(fd, b)' \/ InFile(path, b)'
          /\ child' = "reported" => \A b \in due' : IsReceived(b)'
        BY <1>1, <1>4, <2>1, <2>2 DEF DueInv
    <2>4. ASSUME caller = "exit", pc = "adding"
          PROVE  child = "exited" /\ \A b \in due : ~Left(b)
        <3>1. child = "exited" /\ \A b \in due : Left(b) => Found(b)
            BY <1>1, <2>4 DEF DueInv, Starting
        <3> QED
            BY <2>4, <3>1 DEF Found
    <2>5. caller' = "exit" /\ pc' \notin Starting \cup {"idle"} => pc = "adding"
        BY <1>8, <1>9 DEF Starting
    <2>6. pc' # "report"
        BY <1>9
    <2> HIDE DEF Starting
    <2> QED
        BY <1>4, <2>1, <2>3, <2>4, <2>5, <2>6 DEF DueInv
<1> QED
    BY <1>19, <1>20, <1>24, <1>25, <1>27, <1>28, <1>29, <1>30, <1>31 DEF LogInv
-----------------------------------------------------------------------------
(* The theorems *)

\* In the initial state nothing has been written, logged or sent.
LEMMA InitHolds ==
    ASSUME Init
    PROVE  LogInv
<1>1. /\ content = [i \in Inode |-> <<>>]
      /\ path = 1 /\ wfd = 1
      /\ nbytes = 0 /\ ninodes = 1 /\ truncated = {}
      /\ inc = 1 /\ pc = "registering"
      /\ caller = "timer" /\ fd = None /\ st_size = 0 /\ now_size = 0
      /\ alog = ni_eventlog_new
      /\ masterq = <<Register(1)>>
      /\ mlog = None
      /\ child = "none" /\ runs = 0
      /\ client = NoReader /\ incidents = 0
      /\ epoch = 0 /\ received = <<>>
      /\ skipped = {} /\ due = {}
    BY DEF Init
<1>2. /\ pc \in Starting /\ pc \in AgentPc /\ pc \notin Working /\ pc = "registering"
      /\ pc \notin {"down", "setup", "adding"}
    BY <1>1 DEF Starting, AgentPc, Working
<1>3. \A f \in Inode : content[f] \in Seq(Byte) /\ content[f] = <<>> /\ DOMAIN content[f] = {}
    <2>1. <<>> \in Seq(Byte)
        BY EmptySeq
    <2> QED
        BY <1>1, <2>1
<1>4. /\ masterq \in Seq(Message) /\ DOMAIN masterq = {1} /\ Len(masterq) = 1 /\ masterq # <<>>
      /\ masterq[1].type = "register" /\ masterq[1].inc = 1 /\ ~AddFirst
    <2>1. PICK m : m = Register(1)
        OBVIOUS
    <2>2. m \in Message /\ m.type = "register" /\ m.inc = 1
        BY <2>1 DEF Register, Message
    <2>3. masterq = <<m>>
        BY <1>1, <2>1
    <2> QED
        BY <2>2, <2>3 DEF AddFirst
<1>5. LogOK(alog) /\ alog.events = <<>> /\ DOMAIN alog.events = {}
    <2>1. LogOK(alog) /\ alog.events = <<>>
        BY <1>1, NewLog
    <2> QED
        BY <2>1
<1>6. received \in Seq(Byte) /\ DOMAIN received = {}
    <2>1. <<>> \in Seq(Byte)
        BY EmptySeq
    <2> QED
        BY <1>1, <2>1
<1>7. client \in ClientRec /\ client.pc = "idle" /\ client.epoch = 0
    BY <1>1 DEF NoReader, ClientRec
<1>8. EventlogTypeOK
    <2>1. 1 \in Inode /\ 0 \in 0 .. MaxBytes /\ 0 \in 0 .. MaxRuns /\ 0 \in 0 .. MaxIncidents
          /\ 1 \in 1 .. MaxInodes
        BY Constants DEF Inode
    <2>2. content \in [Inode -> Seq(Byte)]
        BY <1>1, <1>3
    <2> QED
        BY <1>1, <1>2, <1>4, <1>5, <1>6, <1>7, <2>1, <2>2 DEF EventlogTypeOK
<1>9. QueueInv
    BY <1>1, <1>2, <1>4 DEF QueueInv
<1>10. NumberInv
    BY <1>1, <1>2, <1>4, <1>5 DEF NumberInv
<1>11. ShownInv
    BY <1>1, <1>7 DEF ShownInv, Reading
<1>12. FilesInv
    BY <1>1, <1>3 DEF FilesInv
<1>13. \A b : ~Logged(b)
    BY <1>4, <1>5, <1>6 DEF Logged, IsReceived, OnTheWay, IsPending, BytesOf
<1>14. SentInv
    BY <1>4, <1>5, <1>6, <1>13 DEF SentInv, Increasing, Logged
<1>15. AheadInv
    BY <1>13 DEF AheadInv
<1>16. MonitorInv
    BY <1>1 DEF MonitorInv
<1>17. DueInv
    BY <1>1, <1>2 DEF DueInv
<1> QED
    BY <1>8, <1>9, <1>10, <1>11, <1>12, <1>14, <1>15, <1>16, <1>17 DEF LogInv

\* The invariant depends on the variables only.
LEMMA StutterKeeps ==
    ASSUME LogInv, UNCHANGED vars
    PROVE  LogInv'
<1>1. /\ EventlogTypeOK /\ NumberInv /\ ShownInv
    BY DEF LogInv
<1>2. /\ UNCHANGED <<fileVars, inc, pc, monVars, alog, masterq, mlog, childVars>>
      /\ UNCHANGED <<client, incidents, epoch, received, skipped, due>>
      /\ UNCHANGED <<content, path, wfd, nbytes, ninodes, truncated>>
      /\ UNCHANGED <<caller, fd, st_size, now_size, child, runs>>
    BY DEF vars, fileVars, monVars, childVars, clientVars, histVars
<1>3. EventlogTypeOK'
    BY <1>1, <1>2 DEF EventlogTypeOK
<1>4. NumberInv'
    BY <1>1, <1>2, NumbersKept
<1>5. ShownInv'
    BY <1>1, <1>2 DEF ShownInv, Reading, AddFirst, NextPushed, pending_count, PendingSeqs
<1> QED
    BY <1>2, <1>3, <1>4, <1>5, MasterStepKeeps

\* Every step keeps the invariant.
LEMMA StepKeeps ==
    ASSUME LogInv, [Next]_vars
    PROVE  LogInv'
<1>1. CASE SyslogWrite
    BY <1>1, SyslogWriteKeeps
<1>2. CASE RemoveFile
    BY <1>2, RemoveFileKeeps
<1>3. CASE CreateFile
    BY <1>3, CreateFileKeeps
<1>4. CASE SyslogReopen
    BY <1>4, SyslogReopenKeeps
<1>5. CASE TruncateFile
    BY <1>5, TruncateFileKeeps
<1>6. CASE AgentStep
    BY <1>6, InitMonitorsKeeps, LogGrownKeeps, StatPathKeeps, LogRestKeeps, ReopenKeeps,
       LogFreshKeeps, PushEventKeeps, FlushDoneKeeps, ReportExitKeeps DEF AgentStep
<1>7. CASE PollTimeout
    BY <1>7, PollKeeps DEF PollTimeout
<1>8. CASE ExitNotify
    BY <1>8, PollKeeps DEF ExitNotify
<1>9. CASE StartProcess
    BY <1>9, StartProcessKeeps
<1>10. CASE ProcessExit
    BY <1>10, ProcessExitKeeps
<1>11. CASE AgentCrash
    BY <1>11, AgentCrashKeeps
<1>12. CASE AgentStart
    BY <1>12, AgentStartKeeps
<1>13. CASE HandleRegister
    BY <1>13, HandleRegisterKeeps
<1>14. CASE HandleAdd
    BY <1>14, HandleAddKeeps
<1>15. CASE HostRelease
    BY <1>15, HostReleaseKeeps
<1>16. CASE ShowEvents
    BY <1>16, ShowEventsKeeps
<1>17. CASE Purge
    BY <1>17, PurgeKeeps
<1>18. CASE UNCHANGED vars
    BY <1>18, StutterKeeps
<1> QED
    BY <1>1, <1>2, <1>3, <1>4, <1>5, <1>6, <1>7, <1>8, <1>9, <1>10, <1>11, <1>12, <1>13,
       <1>14, <1>15, <1>16, <1>17, <1>18 DEF Next

\* The parts of the invariant hold in every reachable state: what is in the queue
\* to the master (agent/command.c), how events are numbered and where the monitor
\* (dborb/monitor.c) is in the file.
THEOREM EventlogInvariant == Spec => []LogInv
<1>1. Init => LogInv
    BY InitHolds
<1>2. LogInv /\ [Next]_vars => LogInv'
    BY StepKeeps
<1> QED
    BY <1>1, <1>2, PTL DEF Spec

\* The log of the master (server/dbus-eventlog.c) has no gap in its numbers, and
\* the bytes that reached it are those of the system log, in order and once.
THEOREM LogIsAlwaysSound == Spec => []LogIsSound
<1>1. LogInv => LogIsSound
    <2> SUFFICES ASSUME LogInv
                 PROVE  LogIsSound
        OBVIOUS
    <2>1. EventlogTypeOK /\ NumberInv /\ SentInv
        BY DEF LogInv
    <2>2. ASSUME mlog # None, NEW i \in 1 .. Len(mlog.events) - 1
          PROVE  mlog.events[i + 1].sequence = mlog.events[i].sequence + 1
        <3>1. LogOK(mlog)
            BY <2>1, <2>2 DEF EventlogTypeOK
        <3>2. i \in DOMAIN mlog.events /\ i + 1 \in DOMAIN mlog.events
            BY <3>1, LogFields
        <3>3. PICK x \in Nat, y \in Nat :
                  x = mlog.events[i].sequence /\ y = mlog.events[i + 1].sequence
            BY <3>1, <3>2, LogFields
        <3>4. y + i = x + (i + 1)
            BY <2>1, <2>2, <3>2, <3>3 DEF NumberInv
        <3>5. y = x + 1
            BY <3>4
        <3> QED
            BY <3>3, <3>5
    <2>3. LoggedInOrder
        <3>1. received \in Seq(Byte) /\ Increasing(received)
            BY <2>1 DEF EventlogTypeOK, SentInv
        <3>2. \A i \in 1 .. Len(received) - 1 :
                  i \in DOMAIN received /\ i + 1 \in DOMAIN received /\ i < i + 1
            BY <3>1
        <3> QED
            BY <3>1, <3>2 DEF LoggedInOrder, Increasing
    <2> QED
        BY <2>2, <2>3 DEF LogIsSound, NoGaps
<1> QED
    BY <1>1, EventlogInvariant, PTL

\* What a process had written to the system log when it ended is at the master
\* when its end is reported (__ni_testbus_process_exit_notify).
THEOREM AlwaysLoggedBeforeReport == Spec => []LoggedBeforeReport
<1>1. LogInv => LoggedBeforeReport
    BY DEF LogInv, DueInv, LoggedBeforeReport, IsReceived
<1> QED
    BY <1>1, EventlogInvariant, PTL

\* A purge (Eventlog.purge, do_get_events) takes only what the client was shown.
THEOREM PurgesTakeShown == Spec => PurgeTakesShown
<1> DEFINE Shown == client.pc = "purge" /\ client'.pc = "idle" /\ client.hadLog
                     /\ client.epoch = epoch
                     => PendingSeqs(mlog) \ PendingSeqs(mlog') \subseteq client.shown
<1>1. ASSUME LogInv, [Next]_vars
      PROVE  [Shown]_vars
    <2> SUFFICES ASSUME client.pc = "purge", client'.pc = "idle", client.hadLog,
                        client.epoch = epoch
                 PROVE  PendingSeqs(mlog) \ PendingSeqs(mlog') \subseteq client.shown
        OBVIOUS
    <2>1. EventlogTypeOK /\ ShownInv
        BY <1>1 DEF LogInv
    <2>2. Purge
        <3>1. ~UNCHANGED client
            OBVIOUS
        <3>2. ~UNCHANGED clientVars
            BY <3>1 DEF clientVars
        <3> QED
            BY <1>1, <3>1, <3>2
               DEF Next, vars, SyslogWrite, RemoveFile, CreateFile, SyslogReopen, TruncateFile,
                   AgentStep, InitMonitors, LogGrown, StatPath, LogRest, Reopen, LogFresh,
                   PushEvent, FlushDone, ReportExit, PollTimeout, ExitNotify, Poll,
                   StartProcess, ProcessExit, AgentCrash, AgentStart, HandleRegister,
                   HandleAdd, HostRelease, ShowEvents
    <2>3. Reading /\ client.seq_seen # 0
        BY <2>1 DEF Reading, ShownInv
    <2>4. \A s \in PendingSeqs(mlog) : s <= client.seq_seen => s \in client.shown
        BY <2>1, <2>3 DEF ShownInv
    <2>5. \A s \in PendingSeqs(mlog) \ PendingSeqs(mlog') : s <= client.seq_seen
        BY <2>1, <2>2, <2>3, PurgedLog
    <2> QED
        BY <2>4, <2>5
<1> QED
    BY <1>1, EventlogInvariant, PTL DEF Spec, PurgeTakesShown
=============================================================================
